--------------------------- MODULE ToolsStateProofs ---------------------------
(* Theorems about the components that keep state for the tools and the pages,
   and about what the index makes of a file and of a query: MemoryStore, for any
   facts, similarity, processes and extractions, ServerEvents, for any number of
   pages and any sizes of channel and ring, SedConfirm, for any number of calls
   and signatures, CodeSearch, for any number of candidates and results and any
   scores, and Chunker, for any file, limits and second parses. *)
EXTENDS TaskListProofs, MemoryStore, ServerEvents, SedConfirm, CodeSearch, Chunker,
        SequenceTheorems, TLAPS

-----------------------------------------------------------------------------
(* The memory of facts. *)

(* What a process has loaded is on disk: nothing is ever removed. *)
KnownOnDisk == \A p \in Homes : Stored(loaded[p]) \subseteq Stored(collection)

(* A fact that has passed a test which is still true has no twin on disk. *)
Tested ==
    \A e \in Extracts : epc[e] \in {"verdict", "put"} /\ ~blind[e] =>
        \A g \in Stored(collection) : ~IsNear(Head(extracted[e]), g)

MemInv == MemTypeOK /\ KnownOnDisk /\ Tested /\ TwinsOnlyUnchecked

LEMMA MemInitially == MemInit => MemInv
<1> SUFFICES ASSUME MemInit PROVE MemInv
  OBVIOUS
<1>1. MemTypeOK
  BY MemAssumption, EmptySeq DEF MemInit, MemTypeOK, Absent
<1>2. Stored(collection) = {} /\ \A p \in Homes : Stored(loaded[p]) = {}
  BY DEF MemInit, Stored
<1> QED
  BY <1>1, <1>2 DEF MemInit, MemInv, KnownOnDisk, Tested, TwinsOnlyUnchecked

(* Memory.Put stores one fact, on disk and in one process. *)
LEMMA PutStores ==
    ASSUME MemTypeOK, NEW p \in Homes, NEW f \in Facts, Put(p, f)
    PROVE  /\ Stored(collection') = Stored(collection) \cup {f}
           /\ KnownOnDisk => KnownOnDisk'
<1> DEFINE doc == [created |-> calls + 1, recalls |-> 0]
<1>1. doc # Absent
  BY DEF Absent, MemTypeOK
<1>2. \A g \in Facts : collection'[g] = IF g = f THEN doc ELSE collection[g]
  BY DEF Put, MemTypeOK
<1>3. \A q \in Homes, g \in Facts :
          loaded'[q][g] = IF q = p /\ g = f THEN doc ELSE loaded[q][g]
  BY DEF Put, MemTypeOK
<1> HIDE DEF doc
<1>4. Stored(collection') = Stored(collection) \cup {f}
  BY <1>1, <1>2 DEF Stored
<1>5. ASSUME KnownOnDisk PROVE KnownOnDisk'
  <2> SUFFICES ASSUME NEW q \in Homes, NEW g \in Stored(loaded'[q])
               PROVE  g \in Stored(collection')
    BY DEF KnownOnDisk
  <2>1. g = f \/ g \in Stored(loaded[q])
    BY <1>3 DEF Stored
  <2> QED
    BY <2>1, <1>4, <1>5 DEF KnownOnDisk
<1> QED
  BY <1>4, <1>5

(* Memory.Retrieve stores nothing that is not stored already. *)
LEMMA RetrieveStoresNothing ==
    ASSUME MemTypeOK, KnownOnDisk, NEW p \in Homes,
           NEW kept \in SUBSET Stored(loaded[p]), Retrieve(p, kept)
    PROVE  Stored(collection') = Stored(collection) /\ KnownOnDisk'
<1>1. \A f \in kept : f \in Facts /\ loaded[p][f] # Absent
  BY DEF Stored
<1>2. \A f \in kept : [loaded[p][f] EXCEPT !.recalls = @ + 1] # Absent
  BY <1>1 DEF Absent, MemTypeOK
<1>3. \A f \in Facts : f \notin kept => collection'[f] = collection[f]
  BY DEF Retrieve
<1>4. \A f \in kept : collection'[f] = [loaded[p][f] EXCEPT !.recalls = @ + 1]
  BY <1>1 DEF Retrieve
<1>5. \A f \in kept : f \in Stored(collection)
  BY DEF KnownOnDisk
<1>6. \A f \in Facts : collection'[f] # Absent <=> collection[f] # Absent
  <2> SUFFICES ASSUME NEW f \in Facts, f \in kept
               PROVE  collection'[f] # Absent <=> collection[f] # Absent
    BY <1>3
  <2>1. collection'[f] # Absent
    BY <1>2, <1>4
  <2>2. collection[f] # Absent
    BY <1>5 DEF Stored
  <2> QED
    BY <2>1, <2>2
<1>7. \A q \in Homes : Stored(loaded'[q]) \subseteq Stored(loaded[q])
  <2>1. \A f \in Facts : f \notin kept => loaded'[p][f] = loaded[p][f]
    BY DEF Retrieve, MemTypeOK
  <2>2. \A q \in Homes : q # p => loaded'[q] = loaded[q]
    BY DEF Retrieve, MemTypeOK
  <2> QED
    BY <2>1, <2>2 DEF Stored
<1>8. Stored(collection') = Stored(collection)
  BY <1>6 DEF Stored
<1> QED
  BY <1>7, <1>8 DEF KnownOnDisk

(* The loop of an extraction leaves the facts it has not dealt with. *)
LEMMA NextFactKeepsTypes ==
    ASSUME MemTypeOK, NEW e \in Extracts, epc[e] \in {"query", "verdict", "put"},
           NextFact(e)
    PROVE  /\ epc' \in [Extracts -> {"idle", "llm", "query", "verdict", "put"}]
           /\ epc'[e] \in {"idle", "query"}
           /\ \A x \in Extracts : x # e => epc'[x] = epc[x] /\ extracted'[x] = extracted[x]
           /\ extracted' \in [Extracts -> Seq(Facts)]
           /\ \A x \in Extracts :
                 epc'[x] \in {"query", "verdict", "put"} => extracted'[x] # <<>>
<1> DEFINE fs == extracted[e]
<1>1. fs \in Seq(Facts) /\ fs # <<>>
  BY DEF MemTypeOK
<1>2. Tail(fs) \in Seq(Facts) /\ Len(Tail(fs)) = Len(fs) - 1
  BY <1>1, HeadTailProperties
<1>3. Len(fs) # 1 => Tail(fs) # <<>>
  <2> DEFINE rest == Tail(fs)
  <2>1. Len(rest) = Len(fs) - 1 /\ Len(fs) \in Nat
    BY <1>1, <1>2, LenProperties
  <2> HIDE DEF rest, fs
  <2> QED
    BY <2>1
<1>4. /\ extracted' = [extracted EXCEPT ![e] = Tail(fs)]
      /\ epc' = [epc EXCEPT ![e] = IF Len(fs) = 1 THEN "idle" ELSE "query"]
  BY DEF NextFact
<1> HIDE DEF fs
<1>5. extracted' \in [Extracts -> Seq(Facts)]
  BY <1>2, <1>4 DEF MemTypeOK
<1>6. extracted'[e] = Tail(fs) /\ epc'[e] = IF Len(fs) = 1 THEN "idle" ELSE "query"
  BY <1>4 DEF MemTypeOK
<1>7. \A x \in Extracts : x # e => epc'[x] = epc[x] /\ extracted'[x] = extracted[x]
  BY <1>4 DEF MemTypeOK
<1>8. epc' \in [Extracts -> {"idle", "llm", "query", "verdict", "put"}]
  BY <1>4 DEF MemTypeOK
<1> QED
  BY <1>3, <1>5, <1>6, <1>7, <1>8 DEF MemTypeOK

LEMMA MemTypesKept == MemTypeOK /\ [MemNext]_memVars => MemTypeOK'
<1> SUFFICES ASSUME MemTypeOK, [MemNext]_memVars PROVE MemTypeOK'
  OBVIOUS
<1> DEFINE Doc == [created : 0 .. calls + 1, recalls : 0 .. calls]
           Later == [created : 0 .. calls + 2, recalls : 0 .. calls + 1]
<1>1. calls \in Nat /\ Doc \subseteq Later /\ MaxStores \in Nat
  BY MemAssumption DEF MemTypeOK
<1>2. [Facts -> Doc] \subseteq [Facts -> Later]
  BY <1>1
<1>3. ASSUME MemCall
      PROVE  calls' \in 0 .. MaxStores /\ calls' = calls + 1
  BY <1>1, <1>3 DEF MemCall, MemTypeOK
<1>4. ASSUME NEW p \in Homes, NEW f \in Facts, Put(p, f)
      PROVE  /\ collection' \in [Facts -> Doc]
             /\ loaded' \in [Homes -> [Facts -> Doc]]
  <2>1. [created |-> calls + 1, recalls |-> 0] \in Doc
    BY <1>1
  <2> QED
    BY <1>4, <2>1 DEF Put, MemTypeOK
<1>5. ASSUME NEW p \in Homes, NEW f \in Facts, MemoryPut(p, f) PROVE MemTypeOK'
  <2>1. /\ collection' \in [Facts -> Doc]
        /\ loaded' \in [Homes -> [Facts -> Doc]]
    BY <1>4, <1>5 DEF MemoryPut
  <2>2. unchecked' \subseteq Facts /\ epc' = epc /\ extracted' = extracted
    BY <1>5 DEF MemoryPut, MemTypeOK
  <2>3. blind' \in [Extracts -> BOOLEAN]
    BY <1>5 DEF MemoryPut, Interferes, MemTypeOK
  <2>4. calls' \in 0 .. MaxStores /\ calls' = calls + 1
    BY <1>3, <1>5 DEF MemoryPut
  <2> QED
    BY <1>1, <1>2, <2>1, <2>2, <2>3, <2>4 DEF MemTypeOK
<1>6. ASSUME NEW p \in Homes, RelevantMemory(p) PROVE MemTypeOK'
  <2> PICK kept \in SUBSET Stored(loaded[p]) : Retrieve(p, kept)
    BY <1>6 DEF RelevantMemory
  <2>1. ASSUME NEW f \in Facts
        PROVE  [loaded[p][f] EXCEPT !.recalls = @ + 1] \in Later
    <3>1. loaded[p][f] \in Doc
      BY DEF MemTypeOK
    <3>2. loaded[p][f].recalls + 1 \in 0 .. calls + 1
      BY <1>1, <3>1
    <3> QED
      BY <1>1, <3>1, <3>2
  <2>2. /\ collection' \in [Facts -> Later]
        /\ loaded' \in [Homes -> [Facts -> Later]]
    BY <1>1, <2>1 DEF Retrieve, MemTypeOK
  <2> QED
    BY <1>1, <1>3, <1>6, <2>2 DEF RelevantMemory, MemTypeOK
<1>7. ASSUME NEW p \in Homes, MemRestart(p) PROVE MemTypeOK'
  BY <1>1, <1>2, <1>3, <1>7, EmptySeq DEF MemRestart, MemTypeOK
<1>8. ASSUME NEW e \in Extracts, ExtractBegins(e) PROVE MemTypeOK'
  BY <1>1, <1>2, <1>3, <1>8 DEF ExtractBegins, MemGoto, MemTypeOK
<1>9. ASSUME NEW e \in Extracts, ChatCompletion(e) PROVE MemTypeOK'
  <2>1. BoundedSeq(Facts, 2) \subseteq Seq(Facts)
    <3> SUFFICES ASSUME NEW m \in 0 .. 2, NEW fs \in [1 .. m -> Facts]
                 PROVE  fs \in Seq(Facts)
      BY DEF BoundedSeq, SeqOf
    <3> QED
      BY SeqDef
  <2> QED
    BY <1>9, <2>1 DEF ChatCompletion, MemTypeOK
<1>10. ASSUME NEW e \in Extracts, QuerySimilar(e) PROVE MemTypeOK'
  <2>1. CASE NextFact(e) /\ UNCHANGED <<collection, loaded, calls, unchecked, blind>>
    BY <1>10, <2>1, NextFactKeepsTypes DEF QuerySimilar, MemTypeOK
  <2>2. CASE /\ epc[e] = "query"
             /\ \E to \in {"verdict", "put"} : epc' = [epc EXCEPT ![e] = to]
             /\ \E b \in BOOLEAN : blind' = [blind EXCEPT ![e] = b]
             /\ UNCHANGED <<collection, loaded, calls, unchecked, extracted>>
    BY <2>2 DEF MemTypeOK
  <2> QED
    BY <1>10, <2>1, <2>2 DEF QuerySimilar
<1>11. ASSUME NEW e \in Extracts, Verdict(e) PROVE MemTypeOK'
  <2>1. CASE NextFact(e)
    BY <1>11, <2>1, NextFactKeepsTypes DEF Verdict, MemTypeOK
  <2>2. CASE epc' = [epc EXCEPT ![e] = "put"] /\ UNCHANGED extracted
    BY <1>11, <2>2 DEF Verdict, MemTypeOK
  <2> QED
    BY <1>11, <2>1, <2>2 DEF Verdict
<1>12. ASSUME NEW e \in Extracts, PutExtracted(e) PROVE MemTypeOK'
  <2>1. Head(extracted[e]) \in Facts /\ HomeOf[e] \in Homes
    BY <1>12, HeadTailProperties, MemAssumption DEF PutExtracted, MemTypeOK
  <2>2. /\ collection' \in [Facts -> Doc]
        /\ loaded' \in [Homes -> [Facts -> Doc]]
        /\ unchecked' \subseteq Facts
        /\ blind' \in [Extracts -> BOOLEAN]
    BY <1>4, <1>12, <2>1 DEF PutExtracted, Interferes, MemTypeOK
  <2> QED
    BY <1>12, <2>2, NextFactKeepsTypes DEF PutExtracted, MemTypeOK
<1>13. CASE UNCHANGED memVars
  BY <1>13 DEF memVars, MemTypeOK
<1> QED
  BY <1>5, <1>6, <1>7, <1>8, <1>9, <1>10, <1>11, <1>12, <1>13 DEF MemNext

(* An extraction that is to store a fact has found no twin of it, or knows that
   its test may be wrong: Put by hand and by the others makes it one that does. *)
LEMMA TestsStayTrue == MemInv /\ [MemNext]_memVars => KnownOnDisk' /\ Tested'
<1> SUFFICES ASSUME MemInv, [MemNext]_memVars PROVE KnownOnDisk' /\ Tested'
  OBVIOUS
<1> USE DEF MemInv
<1>1. ASSUME Stored(collection') = Stored(collection),
             \A x \in Extracts :
                 epc'[x] \in {"verdict", "put"} =>
                     /\ epc[x] \in {"verdict", "put"}
                     /\ extracted'[x] = extracted[x]
                     /\ blind'[x] = blind[x]
      PROVE  Tested'
  BY <1>1 DEF Tested
<1>2. ASSUME NEW p \in Homes, NEW f \in Facts, MemoryPut(p, f)
      PROVE  KnownOnDisk' /\ Tested'
  <2>1. KnownOnDisk'
    BY <1>2, PutStores DEF MemoryPut
  <2>2. \A x \in Extracts : epc'[x] \in {"verdict", "put"} => blind'[x]
    BY <1>2, MemAssumption DEF MemoryPut, Interferes
  <2> QED
    BY <2>1, <2>2 DEF Tested
<1>3. ASSUME NEW p \in Homes, RelevantMemory(p) PROVE KnownOnDisk' /\ Tested'
  BY <1>1, <1>3, RetrieveStoresNothing DEF RelevantMemory
<1>4. ASSUME NEW p \in Homes, MemRestart(p) PROVE KnownOnDisk' /\ Tested'
  <2>1. \A q \in Homes : loaded'[q] = loaded[q] \/ loaded'[q] = collection
    BY <1>4 DEF MemRestart, MemTypeOK
  <2>2. KnownOnDisk'
    BY <1>4, <2>1 DEF MemRestart, KnownOnDisk
  <2> QED
    BY <1>1, <1>4, <2>2 DEF MemRestart
<1>5. ASSUME NEW e \in Extracts, ExtractBegins(e) PROVE KnownOnDisk' /\ Tested'
  BY <1>1, <1>5 DEF ExtractBegins, MemGoto, KnownOnDisk, MemTypeOK
<1>6. ASSUME NEW e \in Extracts, ChatCompletion(e) PROVE KnownOnDisk' /\ Tested'
  BY <1>1, <1>6 DEF ChatCompletion, KnownOnDisk, MemTypeOK
<1>7. ASSUME NEW e \in Extracts, QuerySimilar(e) PROVE KnownOnDisk' /\ Tested'
  <2>1. KnownOnDisk'
    BY <1>7 DEF QuerySimilar, KnownOnDisk
  <2>2. CASE NextFact(e) /\ UNCHANGED blind
    <3>1. epc[e] = "query" /\ collection' = collection
      BY <1>7 DEF QuerySimilar
    <3>2. /\ epc'[e] \notin {"verdict", "put"}
          /\ \A x \in Extracts : x # e => epc'[x] = epc[x] /\ extracted'[x] = extracted[x]
      BY <2>2, <3>1, NextFactKeepsTypes
    <3> QED
      BY <1>1, <2>1, <2>2, <3>1, <3>2
  <2>3. CASE /\ \/ ~\E g \in Stored(loaded[HomeOf[e]]) : IsNear(Head(extracted[e]), g)
                \/ blind'[e]
             /\ epc' \in {[epc EXCEPT ![e] = to] : to \in {"verdict", "put"}}
             /\ blind'[e] \/ loaded[HomeOf[e]] = collection
             /\ \A x \in Extracts : x # e => blind'[x] = blind[x]
             /\ UNCHANGED <<extracted, collection>>
    <3> SUFFICES ASSUME NEW x \in Extracts, epc'[x] \in {"verdict", "put"}, ~blind'[x],
                        NEW g \in Stored(collection)
                 PROVE  ~IsNear(Head(extracted[x]), g)
      BY <2>1, <2>3 DEF Tested
    <3>1. CASE x = e
      BY <2>3, <3>1
    <3>2. CASE x # e
      BY <2>3, <3>2 DEF Tested, MemTypeOK
    <3> QED
      BY <3>1, <3>2
  <2> QED
    BY <1>7, <2>1, <2>2, <2>3 DEF QuerySimilar, MemTypeOK
<1>8. ASSUME NEW e \in Extracts, Verdict(e) PROVE KnownOnDisk' /\ Tested'
  <2>1. \A x \in Extracts : epc'[x] \in {"verdict", "put"} =>
            epc[x] \in {"verdict", "put"} /\ extracted'[x] = extracted[x]
    <3>1. CASE NextFact(e)
      BY <1>8, <3>1, NextFactKeepsTypes DEF Verdict
    <3>2. CASE epc' = [epc EXCEPT ![e] = "put"] /\ UNCHANGED extracted
      BY <1>8, <3>2 DEF Verdict, MemTypeOK
    <3> QED
      BY <1>8, <3>1, <3>2 DEF Verdict
  <2> QED
    BY <1>1, <1>8, <2>1 DEF Verdict, KnownOnDisk
<1>9. ASSUME NEW e \in Extracts, PutExtracted(e) PROVE KnownOnDisk' /\ Tested'
  <2>1. Head(extracted[e]) \in Facts /\ HomeOf[e] \in Homes
    BY <1>9, HeadTailProperties, MemAssumption DEF PutExtracted, MemTypeOK
  <2>2. /\ epc'[e] \notin {"verdict", "put"}
        /\ \A x \in Extracts : x # e => epc'[x] = epc[x] /\ extracted'[x] = extracted[x]
    BY <1>9, NextFactKeepsTypes DEF PutExtracted
  <2>3. CASE Put(HomeOf[e], Head(extracted[e])) /\ blind' = Interferes(e)
    <3>1. \A x \in Extracts : epc'[x] \in {"verdict", "put"} => blind'[x]
      BY <2>2, <2>3 DEF Interferes
    <3> QED
      BY <2>1, <2>3, <3>1, PutStores DEF Tested
  <2>4. CASE UNCHANGED <<collection, loaded, unchecked, blind>>
    BY <1>1, <2>2, <2>4 DEF KnownOnDisk
  <2> QED
    BY <1>9, <2>3, <2>4 DEF PutExtracted
<1>10. CASE UNCHANGED memVars
  BY <1>10 DEF memVars, KnownOnDisk, Tested
<1> QED
  BY <1>2, <1>3, <1>4, <1>5, <1>6, <1>7, <1>8, <1>9, <1>10 DEF MemNext

LEMMA TwinsStayUnchecked == MemInv /\ [MemNext]_memVars => TwinsOnlyUnchecked'
<1> SUFFICES ASSUME MemInv, [MemNext]_memVars PROVE TwinsOnlyUnchecked'
  OBVIOUS
<1> USE DEF MemInv
<1>1. ASSUME Stored(collection') = Stored(collection), unchecked' = unchecked
      PROVE  TwinsOnlyUnchecked'
  BY <1>1 DEF TwinsOnlyUnchecked
<1>2. ASSUME NEW p \in Homes, NEW f \in Facts, MemoryPut(p, f)
      PROVE  TwinsOnlyUnchecked'
  <2>1. Stored(collection') = Stored(collection) \cup {f}
    BY <1>2, PutStores DEF MemoryPut
  <2> QED
    BY <1>2, <2>1 DEF MemoryPut, TwinsOnlyUnchecked
<1>3. ASSUME NEW p \in Homes, RelevantMemory(p) PROVE TwinsOnlyUnchecked'
  BY <1>1, <1>3, RetrieveStoresNothing DEF RelevantMemory
<1>4. ASSUME NEW e \in Extracts, PutExtracted(e) PROVE TwinsOnlyUnchecked'
  <2> DEFINE f == Head(extracted[e])
  <2>1. f \in Facts /\ HomeOf[e] \in Homes
    BY <1>4, HeadTailProperties, MemAssumption DEF PutExtracted, MemTypeOK
  <2>2. CASE /\ Put(HomeOf[e], f)
             /\ unchecked' = IF blind[e] THEN unchecked \cup {f} ELSE unchecked \ {f}
    <3>1. Stored(collection') = Stored(collection) \cup {f}
      BY <2>1, <2>2, PutStores
    <3>2. ~blind[e] => \A g \in Stored(collection) : ~IsNear(f, g) /\ ~IsNear(g, f)
      BY <1>4 DEF Tested, PutExtracted, IsNear
    <3> HIDE DEF f
    <3> QED
      BY <2>2, <3>1, <3>2 DEF TwinsOnlyUnchecked
  <2>3. CASE UNCHANGED <<collection, loaded, unchecked, blind>>
    BY <1>1, <2>3
  <2> QED
    BY <1>4, <2>2, <2>3 DEF PutExtracted
<1>5. CASE /\ UNCHANGED <<collection, unchecked>>
  BY <1>1, <1>5
<1> QED
  BY <1>2, <1>3, <1>4, <1>5
  DEF MemNext, memVars, MemRestart, ExtractBegins, ChatCompletion, QuerySimilar, Verdict

LEMMA MemAlways == MemSpec => []MemInv
<1>1. MemInv /\ [MemNext]_memVars => MemInv'
  BY MemTypesKept, TestsStayTrue, TwinsStayUnchecked DEF MemInv
<1> QED
  BY <1>1, MemInitially, PTL DEF MemSpec

(* MemTypeOK: an extraction that tests or stores a fact has one in hand, so the
   loop of MemoryExtractHandler never reads past the facts of the model. *)
THEOREM MemTypeCorrect == MemSpec => []MemTypeOK
<1>1. MemInv => MemTypeOK
  BY DEF MemInv
<1> QED
  BY <1>1, MemAlways, PTL

(* TwinsOnlyUnchecked: MemoryExtractHandler never stores a fact beside one that is
   nearly identical to it, unless its test failed or was overtaken.  It takes the
   tests that are still true of what is on disk (Tested) to see it. *)
THEOREM ExtractsNoTwins == MemSpec => []TwinsOnlyUnchecked
<1>1. MemInv => TwinsOnlyUnchecked
  BY DEF MemInv
<1> QED
  BY <1>1, MemAlways, PTL

(* RecallKeepsAge: Retrieve, which adds every document again, counts the recall
   and changes nothing else. *)
THEOREM RecallsCount == MemSpec => RecallKeepsAge
<1> DEFINE Keeps ==
        \A f \in Facts :
            collection[f] # Absent /\ collection'[f] # collection[f] =>
               \/ collection'[f] = [collection[f] EXCEPT !.recalls = @ + 1]
               \/ \E p \in Homes : MemoryPut(p, f)
               \/ \E e \in Extracts : PutExtracted(e)
               \/ \E p \in Homes : loaded[p][f] # collection[f]
<1>1. MemTypeOK /\ [MemNext]_memVars => [Keeps]_memVars
  <2> SUFFICES ASSUME MemTypeOK, [MemNext]_memVars PROVE Keeps
    OBVIOUS
  <2>1. ASSUME NEW p \in Homes, RelevantMemory(p) PROVE Keeps
    <3> PICK kept \in SUBSET Stored(loaded[p]) : Retrieve(p, kept)
      BY <2>1 DEF RelevantMemory
    <3>1. \A f \in Facts :
              \/ collection'[f] = collection[f]
              \/ collection'[f] = [loaded[p][f] EXCEPT !.recalls = @ + 1]
      BY DEF Retrieve
    <3> QED
      BY <3>1
  <2>2. ASSUME NEW p \in Homes, NEW g \in Facts, MemoryPut(p, g) PROVE Keeps
    <3>1. \A f \in Facts : f # g => collection'[f] = collection[f]
      BY <2>2 DEF MemoryPut, Put, MemTypeOK
    <3> QED
      BY <2>2, <3>1
  <2>3. CASE UNCHANGED collection
    BY <2>3
  <2>4. CASE \E e \in Extracts : PutExtracted(e)
    BY <2>4
  <2> QED
    BY <2>1, <2>2, <2>3, <2>4
    DEF MemNext, memVars, MemRestart, ExtractBegins, ChatCompletion, QuerySimilar, Verdict
<1> QED
  BY <1>1, MemTypeCorrect, PTL DEF MemSpec, RecallKeepsAge

-----------------------------------------------------------------------------
(* The events for the pages. *)

EventTypes ==
    /\ truth \in Nat
    /\ unsent \subseteq 0 .. truth
    /\ lastSent \in 0 .. truth
    /\ answers \subseteq [to : Pages, state : 0 .. truth, own : BOOLEAN]
    /\ page \in [Pages -> {"load", "loaded", "open", "error"}]
    /\ chan \in [Pages -> Seq(Nat)]
    /\ view \in [Pages -> Nat]
    /\ skipped \in [Pages -> BOOLEAN]
    /\ overtaken \in [Pages -> BOOLEAN]
    /\ \A p \in Pages : page[p] # "open" => chan[p] = <<>>

(* What a page that was given the latest broadcast ends up with, if that was of
   the latest change: the broadcast is the last in its channel, or the page
   shows it, or an older answer has taken its place. *)
CaughtUp(p) ==
    lastSent = truth =>
        \/ chan[p] # <<>> /\ Last(chan[p]) = lastSent
        \/ chan[p] = <<>> /\ (view[p] = lastSent \/ overtaken[p])

EventInv ==
    /\ EventTypes
    /\ \A p \in Pages : page[p] # "load" /\ ~skipped[p] => CaughtUp(p)

LEMMA EventsInitially == SEInit => EventInv
  BY EmptySeq DEF SEInit, EventInv, EventTypes

(* One more event in a channel, and one less. *)
LEMMA ChannelEnds ==
    ASSUME NEW c \in Seq(Nat), NEW v \in Nat
    PROVE  /\ Append(c, v) \in Seq(Nat)
           /\ Append(c, v) # <<>>
           /\ Last(Append(c, v)) = v
           /\ c # <<>> => /\ Head(c) \in Nat
                          /\ Tail(c) \in Seq(Nat)
                          /\ Tail(c) = <<>> => Last(c) = Head(c)
                          /\ Tail(c) # <<>> => Last(Tail(c)) = Last(c)
<1>1. /\ Append(c, v) \in Seq(Nat)
      /\ Append(c, v) # <<>>
      /\ Last(Append(c, v)) = v
  BY AppendProperties DEF Last
<1>2. ASSUME c # <<>>
      PROVE  /\ Head(c) \in Nat
             /\ Tail(c) \in Seq(Nat)
             /\ Tail(c) = <<>> => Last(c) = Head(c)
             /\ Tail(c) # <<>> => Last(Tail(c)) = Last(c)
  <2>1. /\ Head(c) \in Nat /\ Tail(c) \in Seq(Nat)
        /\ Len(Tail(c)) = Len(c) - 1
        /\ \A i \in 1 .. Len(Tail(c)) : Tail(c)[i] = c[i + 1]
        /\ Head(c) = c[1]
    BY <1>2, HeadTailProperties
  <2>2. Len(c) \in Nat \ {0}
    BY <1>2, EmptySeq
  <2>3. ASSUME Tail(c) = <<>> PROVE Last(c) = Head(c)
    <3> DEFINE rest == Tail(c)
    <3>1. rest = <<>> /\ Len(rest) = Len(c) - 1
      BY <2>1, <2>3
    <3> HIDE DEF rest
    <3> QED
      BY <2>1, <2>2, <3>1 DEF Last
  <2>4. ASSUME Tail(c) # <<>> PROVE Last(Tail(c)) = Last(c)
    <3>1. Len(Tail(c)) \in Nat \ {0}
      BY <2>1, <2>4, EmptySeq
    <3> QED
      BY <2>1, <2>2, <3>1 DEF Last
  <2> QED
    BY <2>1, <2>3, <2>4
<1> QED
  BY <1>1, <1>2

LEMMA EventInductive == EventInv /\ [EventsNext \/ NotifsNext]_seVars => EventInv'
<1> SUFFICES ASSUME EventInv, [EventsNext \/ NotifsNext]_seVars PROVE EventInv'
  OBVIOUS
<1> USE DEF EventInv
<1>1. ASSUME NEW askers \in {{}} \cup {{p} : p \in Pages}, Change(askers)
      PROVE  EventInv'
  <2>1. /\ truth' = truth + 1 /\ unsent' = unsent \cup {truth'}
        /\ answers' = answers
              \cup {[to |-> p, state |-> truth', own |-> TRUE] : p \in askers}
        /\ UNCHANGED <<lastSent, page, chan, view, skipped, overtaken>>
    BY <1>1 DEF Change
  <2>2. truth \in Nat /\ askers \subseteq Pages
    BY DEF EventTypes
  <2>3. unsent' \subseteq 0 .. truth' /\ lastSent' \in 0 .. truth'
    BY <2>1, <2>2 DEF EventTypes
  <2>4. answers' \subseteq [to : Pages, state : 0 .. truth', own : BOOLEAN]
    <3>1. \A k \in 0 .. truth : k \in 0 .. truth'
      BY <2>1, <2>2
    <3>2. ASSUME NEW a \in answers PROVE a \in [to : Pages, state : 0 .. truth', own : BOOLEAN]
      BY <3>1 DEF EventTypes
    <3>3. truth' \in 0 .. truth'
      BY <2>1, <2>2
    <3>4. ASSUME NEW p \in askers
          PROVE  [to |-> p, state |-> truth', own |-> TRUE]
                    \in [to : Pages, state : 0 .. truth', own : BOOLEAN]
      BY <2>2, <3>3
    <3> QED
      BY <2>1, <3>2, <3>4
  <2>5. EventTypes'
    BY <2>1, <2>2, <2>3, <2>4 DEF EventTypes
  <2>6. lastSent' # truth'
    BY <2>1, <2>2 DEF EventTypes
  <2> QED
    BY <2>5, <2>6 DEF CaughtUp
<1>9. ASSUME NEW a \in answers, Answer(a) PROVE EventInv'
  <2>1. /\ view' = [view EXCEPT ![a.to] = a.state]
        /\ overtaken' = [overtaken EXCEPT ![a.to] = a.state < lastSent]
        /\ answers' \subseteq answers
        /\ UNCHANGED <<truth, unsent, lastSent, page, chan, skipped>>
    BY <1>9 DEF Answer
  <2>2. a.to \in Pages /\ a.state \in 0 .. truth /\ lastSent \in 0 .. truth /\ truth \in Nat
    BY DEF EventTypes
  <2>3. (a.state < lastSent) \in BOOLEAN
    OBVIOUS
  <2>4. overtaken' \in [Pages -> BOOLEAN]
    BY <2>1, <2>3 DEF EventTypes
  <2>5. EventTypes'
    BY <2>1, <2>2, <2>4 DEF EventTypes
  <2>6. ASSUME NEW p \in Pages, CaughtUp(p) PROVE CaughtUp(p)'
    <3>1. CASE p # a.to
      BY <2>1, <2>6, <3>1 DEF CaughtUp, EventTypes
    <3>2. CASE p = a.to
      <4>1. view'[p] = a.state /\ (overtaken'[p] <=> a.state < lastSent)
        BY <2>1, <2>2, <3>2 DEF EventTypes
      <4> QED
        BY <2>1, <2>2, <2>6, <4>1 DEF CaughtUp
    <3> QED
      BY <3>1, <3>2
  <2> QED
    BY <2>1, <2>5, <2>6
<1>10. ASSUME NEW p \in Pages, Ask(p) PROVE EventInv'
  <2>1. /\ answers' = answers \cup {[to |-> p, state |-> truth, own |-> FALSE]}
        /\ UNCHANGED <<truth, unsent, lastSent, page, chan, view, skipped, overtaken>>
    BY <1>10 DEF Ask
  <2>2. truth \in 0 .. truth
    BY DEF EventTypes
  <2>4. answers' \subseteq [to : Pages, state : 0 .. truth, own : BOOLEAN]
    <3>1. [to |-> p, state |-> truth, own |-> FALSE]
              \in [to : Pages, state : 0 .. truth, own : BOOLEAN]
      BY <2>2
    <3> QED
      BY <2>1, <3>1 DEF EventTypes
  <2>3. EventTypes'
    BY <2>1, <2>4 DEF EventTypes
  <2> QED
    BY <2>1, <2>3 DEF CaughtUp
<1>2. ASSUME NEW v \in unsent, Broadcast(v) PROVE EventInv'
  <2>1. v \in Nat /\ v \in 0 .. truth
    BY DEF EventTypes
  <2>2. \A p \in Pages :
            /\ chan'[p] = IF Fits(p) THEN Append(chan[p], v) ELSE chan[p]
            /\ skipped'[p] = ~Fits(p)
    BY <1>2 DEF Broadcast
  <2>3. chan' \in [Pages -> Seq(Nat)]
    <3>1. \A p \in Pages : chan'[p] \in Seq(Nat)
      BY <2>1, <2>2, ChannelEnds DEF EventTypes
    <3> QED
      BY <1>2, <3>1 DEF Broadcast
  <2>4. skipped' \in [Pages -> BOOLEAN]
    BY <1>2 DEF Broadcast, Fits
  <2>5. \A p \in Pages : page[p] # "open" => chan'[p] = <<>>
    BY <2>2 DEF Fits, EventTypes
  <2>8. /\ unsent' \subseteq unsent /\ lastSent' = v
        /\ UNCHANGED <<truth, answers, page, view, overtaken>>
    BY <1>2 DEF Broadcast
  <2>6. EventTypes'
    BY <2>1, <2>3, <2>4, <2>5, <2>8 DEF EventTypes
  <2>7. ASSUME NEW p \in Pages, ~skipped'[p] PROVE CaughtUp(p)'
    <3>1. chan'[p] = Append(chan[p], v) /\ lastSent' = v
      BY <1>2, <2>2, <2>7 DEF Broadcast
    <3>2. chan[p] \in Seq(Nat)
      BY DEF EventTypes
    <3>3. Append(chan[p], v) # <<>> /\ Last(Append(chan[p], v)) = v
      BY <2>1, <3>2, ChannelEnds
    <3> QED
      BY <3>1, <3>3 DEF CaughtUp
  <2> QED
    BY <2>6, <2>7
<1>3. ASSUME NEW p \in Pages, Subscribe(p) PROVE EventInv'
  <2>1. EventTypes'
    BY <1>3 DEF Subscribe, EventTypes
  <2>2. \A q \in Pages : page'[q] # "load" => page[q] # "load"
    BY <1>3 DEF Subscribe, EventTypes
  <2> QED
    BY <1>3, <2>1, <2>2 DEF Subscribe, CaughtUp
<1>4. ASSUME NEW p \in Pages, Deliver(p) PROVE EventInv'
  <2>1. chan[p] \in Seq(Nat) /\ chan[p] # <<>>
    BY <1>4 DEF Deliver, EventTypes
  <2>2. EventTypes'
    BY <1>4, <2>1, ChannelEnds DEF Deliver, EventTypes
  <2>3. ASSUME NEW q \in Pages, CaughtUp(q) PROVE CaughtUp(q)'
    <3>1. CASE q # p
      BY <1>4, <2>3, <3>1 DEF Deliver, CaughtUp, EventTypes
    <3>2. CASE q = p
      <4>1. view'[p] = Head(chan[p]) /\ chan'[p] = Tail(chan[p])
        BY <1>4 DEF Deliver, EventTypes
      <4>2. /\ lastSent = truth => Last(chan[p]) = lastSent
            /\ lastSent' = lastSent /\ truth' = truth
        BY <1>4, <2>1, <2>3, <3>2 DEF Deliver, CaughtUp
      <4> QED
        BY <2>1, <3>2, <4>1, <4>2, ChannelEnds DEF CaughtUp
    <3> QED
      BY <3>1, <3>2
  <2> QED
    BY <1>4, <2>2, <2>3 DEF Deliver
<1>5. ASSUME NEW p \in Pages, Disconnect(p) PROVE EventInv'
  <2>1. EventTypes'
    <3>1. skipped' \in [Pages -> BOOLEAN]
      BY <1>5 DEF Disconnect, EventTypes
    <3> QED
      BY <1>5, <3>1, EmptySeq DEF Disconnect, EventTypes
  <2>2. ASSUME NEW q \in Pages, page'[q] # "load", ~skipped'[q] PROVE CaughtUp(q)'
    <3>1. page[q] # "load" /\ ~skipped[q] /\ chan'[q] = chan[q]
      BY <1>5, <2>2 DEF Disconnect, EventTypes
    <3> QED
      BY <1>5, <3>1 DEF Disconnect, CaughtUp
  <2> QED
    BY <2>1, <2>2
<1>6. ASSUME NEW p \in Pages, LoadPage(p) PROVE EventInv'
  <2>1. EventTypes'
    BY <1>6 DEF LoadPage, EventTypes
  <2>2. ASSUME NEW q \in Pages, page'[q] # "load", ~skipped'[q] PROVE CaughtUp(q)'
    <3>1. CASE q = p
      BY <1>6, <3>1 DEF LoadPage, CaughtUp, EventTypes
    <3>2. CASE q # p
      BY <1>6, <2>2, <3>2 DEF LoadPage, CaughtUp, EventTypes
    <3> QED
      BY <3>1, <3>2
  <2> QED
    BY <2>1, <2>2
<1>7. ASSUME NEW p \in Pages, Reload(p) PROVE EventInv'
  <2>1. EventTypes'
    BY <1>7, EmptySeq DEF Reload, EventTypes
  <2>2. ASSUME NEW q \in Pages, page'[q] # "load", ~skipped'[q] PROVE CaughtUp(q)'
    BY <1>7, <2>2 DEF Reload, CaughtUp, EventTypes
  <2> QED
    BY <2>1, <2>2
<1>8. CASE UNCHANGED eventVars
  BY <1>8 DEF eventVars, EventTypes, CaughtUp
<1> QED
  BY <1>1, <1>2, <1>3, <1>4, <1>5, <1>6, <1>7, <1>8, <1>9, <1>10
  DEF EventsNext, NotifsNext, seVars, Tick, PushNotif, Poll, ServerRestarts,
      WorkerRestarts

(* ViewIsLatest: a page that broadcastSSE has not skipped, that has handled what
   it was sent and has taken no older answer since, shows the queue as it is when
   the latest broadcast was of the latest change.  For any number of pages and of
   answers on their way, and any size of the channels. *)
THEOREM PagesShowTheLatest == SESpec => []ViewIsLatest
<1>1. EventInv => ViewIsLatest
  <2> SUFFICES ASSUME EventInv, NEW p \in Pages,
                      page[p] = "open", chan[p] = <<>>, lastSent = truth,
                      ~skipped[p], ~overtaken[p]
               PROVE  view[p] = truth
    BY DEF ViewIsLatest
  <2> QED
    BY DEF EventInv, CaughtUp
<1> QED
  BY <1>1, EventsInitially, EventInductive, PTL DEF SESpec

-----------------------------------------------------------------------------
(* Notifications. *)

NotifTypes ==
    /\ now \in Nat /\ notifs \in Nat
    /\ notifBuf \in Seq([n : Nat, ts : Nat])
    /\ lastTimestamp \in Nat /\ firstTimestamp \in Nat

(* The worker is not ahead of the server, except by its own clock at its start. *)
Clocks ==
    /\ \A e \in ToSet(notifBuf) : e.ts <= now
    /\ lastTimestamp <= now \/ lastTimestamp = firstTimestamp

Accounted ==
    \A n \in 1 .. notifs : n \in passed \/ n \in NumbersIn(ToSet(notifBuf))

Covered(e) ==
    \/ e.n \in notified
    \/ e.ts > Since
    \/ e.ts <= firstTimestamp
    \/ e.ts % Second = 0

NotifInv ==
    NotifTypes /\ Clocks /\ Accounted /\ (\A e \in ToSet(notifBuf) : Covered(e))

LEMMA NotifsInitially == SEInit => NotifInv
<1> SUFFICES ASSUME SEInit PROVE NotifInv
  OBVIOUS
<1>1. ToSet(notifBuf) = {} /\ notifBuf \in Seq([n : Nat, ts : Nat])
  BY EmptySeq DEF SEInit, ToSet
<1> QED
  BY <1>1 DEF SEInit, NotifInv, NotifTypes, Clocks, Accounted

(* A whole second begins with a time that Second divides. *)
LEMMA WholeSeconds ==
    ASSUME NEW t \in Nat
    PROVE  /\ (t \div Second) * Second \in Nat
           /\ (t \div Second) * Second <= t
           /\ ((t \div Second) * Second) % Second = 0
<1>1. Second \in Nat \ {0}
  BY SEAssumption
<1> DEFINE q == t \div Second
<1>2. q \in Nat /\ q * Second <= t
  BY <1>1
<1> HIDE DEF q
<1>3. (q * Second) % Second = 0
  BY <1>1, <1>2
<1> QED
  BY <1>1, <1>2, <1>3 DEF q

(* pushNotif keeps the new one, and of the others the latest. *)
LEMMA RingKeepsLatest ==
    ASSUME NotifTypes, PushNotif
    PROVE  /\ notifBuf' \in Seq([n : Nat, ts : Nat])
           /\ ToSet(notifBuf') \subseteq ToSet(notifBuf) \cup {[n |-> notifs', ts |-> now]}
           /\ [n |-> notifs', ts |-> now] \in ToSet(notifBuf')
<1> DEFINE new == [n |-> notifs', ts |-> now]
           buf == Append(notifBuf, new)
           first == Max({1, Len(buf) - RingSize + 1})
           N == [n : Nat, ts : Nat]
<1>1. new \in N /\ notifBuf \in Seq(N)
  BY DEF NotifTypes, PushNotif
<1> HIDE DEF new, N
<1>2. /\ buf \in Seq(N)
      /\ Len(buf) = Len(notifBuf) + 1 /\ Len(notifBuf) \in Nat
      /\ \A i \in 1 .. Len(notifBuf) : buf[i] = notifBuf[i]
      /\ buf[Len(buf)] = new
  BY <1>1, AppendProperties, LenProperties
<1>3. notifBuf' = SubSeq(buf, first, Len(buf))
  BY DEF PushNotif, new
<1> HIDE DEF buf
<1>4. first \in 1 .. Len(buf)
  <2> DEFINE S == {1, Len(buf) - RingSize + 1}
  <2>1. RingSize \in Nat \ {0}
    BY SEAssumption
  <2>2. S \subseteq Int /\ \E x \in S : \A y \in S : x >= y
    BY <1>2, <2>1
  <2>3. first \in S /\ \A y \in S : first >= y
    BY <2>2 DEF Max
  <2> QED
    BY <1>2, <2>1, <2>3
<1> HIDE DEF first
<1>5. /\ notifBuf' \in Seq(N)
      /\ Len(notifBuf') = Len(buf) - first + 1
      /\ \A i \in 1 .. Len(buf) - first + 1 : notifBuf'[i] = buf[first + i - 1]
  BY <1>2, <1>3, <1>4, SubSeqProperties
<1>6. ToSet(notifBuf') \subseteq ToSet(notifBuf) \cup {new}
  <2> SUFFICES ASSUME NEW i \in 1 .. Len(notifBuf')
               PROVE  notifBuf'[i] \in ToSet(notifBuf) \cup {new}
    BY <1>5, LenProperties DEF ToSet
  <2>1. notifBuf'[i] = buf[first + i - 1] /\ first + i - 1 \in 1 .. Len(buf)
    BY <1>2, <1>4, <1>5
  <2>2. DOMAIN notifBuf = 1 .. Len(notifBuf)
    BY <1>1, LenProperties
  <2> QED
    BY <1>2, <2>1, <2>2 DEF ToSet
<1>7. new \in ToSet(notifBuf')
  <2>1. Len(notifBuf') \in 1 .. Len(notifBuf') /\ notifBuf'[Len(notifBuf')] = new
    BY <1>2, <1>4, <1>5
  <2> QED
    BY <1>5, <2>1, LenProperties DEF ToSet
<1> QED
  BY <1>5, <1>6, <1>7 DEF new, N

LEMMA NotifInductive == NotifInv /\ [EventsNext \/ NotifsNext]_seVars => NotifInv'
<1> SUFFICES ASSUME NotifInv, [EventsNext \/ NotifsNext]_seVars PROVE NotifInv'
  OBVIOUS
<1> USE DEF NotifInv
<1>0. \A e \in ToSet(notifBuf) : e \in [n : Nat, ts : Nat]
  <2> DEFINE N == [n : Nat, ts : Nat]
  <2>1. notifBuf \in Seq(N)
    BY DEF NotifTypes
  <2> HIDE DEF N
  <2>2. \A i \in DOMAIN notifBuf : notifBuf[i] \in N
    BY <2>1, LenProperties
  <2>3. \A e \in ToSet(notifBuf) : e \in N
    BY <2>2 DEF ToSet
  <2> QED
    BY <2>3 DEF N
<1>1. ASSUME Tick PROVE NotifInv'
  BY <1>0, <1>1 DEF Tick, NotifTypes, Clocks, Accounted, Covered, Since, NumbersIn
<1>2. ASSUME PushNotif PROVE NotifInv'
  <2> DEFINE new == [n |-> notifs', ts |-> now]
  <2>1. /\ notifBuf' \in Seq([n : Nat, ts : Nat])
        /\ ToSet(notifBuf') \subseteq ToSet(notifBuf) \cup {new}
        /\ new \in ToSet(notifBuf')
    BY <1>2, RingKeepsLatest
  <2>0. /\ notifs' = notifs + 1
        /\ UNCHANGED <<now, lastTimestamp, firstTimestamp>>
    BY <1>2 DEF PushNotif
  <2>2. NotifTypes'
    BY <2>0, <2>1 DEF NotifTypes
  <2>3. Clocks'
    <3>1. now \in Nat
      BY DEF NotifTypes
    <3>2. \A e \in ToSet(notifBuf') : e.ts <= now
      BY <2>1, <3>1 DEF Clocks
    <3> QED
      BY <2>0, <3>2 DEF Clocks
  <2>4. Accounted'
    <3> SUFFICES ASSUME NEW n \in 1 .. notifs'
                 PROVE  n \in passed' \/ n \in NumbersIn(ToSet(notifBuf'))
      BY DEF Accounted
    <3>1. CASE n = notifs'
      BY <2>1, <3>1 DEF NumbersIn
    <3>2. CASE n # notifs'
      <4>1. n \in 1 .. notifs
        BY <1>2, <3>2 DEF PushNotif, NotifTypes
      <4>2. n \in passed \/ n \in NumbersIn(ToSet(notifBuf))
        BY <4>1 DEF Accounted
      <4>3. passed' = passed \cup (NumbersIn(ToSet(notifBuf)) \ NumbersIn(ToSet(notifBuf')))
        BY <1>2 DEF PushNotif, Dropped
      <4> QED
        BY <4>2, <4>3
    <3> QED
      BY <3>1, <3>2
  <2>5. UNCHANGED <<notified, lastTimestamp, firstTimestamp, now>> /\ Since' = Since
    BY <1>2 DEF PushNotif, Since
  <2>6. now > Since \/ now <= firstTimestamp \/ now % Second = 0
    <3>1. Since \in Nat /\ Since <= lastTimestamp /\ Since % Second = 0
      BY WholeSeconds DEF Since, NotifTypes
    <3>2. now \in Nat /\ lastTimestamp \in Nat /\ firstTimestamp \in Nat
      BY DEF NotifTypes
    <3>3. CASE lastTimestamp = firstTimestamp
      BY <3>1, <3>2, <3>3
    <3>4. CASE lastTimestamp <= now
      <4>1. now > Since \/ now = Since
        BY <3>1, <3>2, <3>4
      <4> QED
        BY <3>1, <4>1
    <3> QED
      BY <3>3, <3>4 DEF Clocks
  <2>7. ASSUME NEW e \in ToSet(notifBuf') PROVE Covered(e)'
    <3>1. CASE e = new
      BY <2>5, <2>6, <3>1 DEF Covered
    <3>2. CASE e \in ToSet(notifBuf)
      BY <2>5, <3>2 DEF Covered
    <3> QED
      BY <2>1, <3>1, <3>2
  <2> QED
    BY <2>2, <2>3, <2>4, <2>7
<1>3. ASSUME Poll PROVE NotifInv'
  <2>1. NewNotifs \subseteq ToSet(notifBuf)
    BY DEF NewNotifs
  <2>2. NotifTypes' /\ Clocks'
    BY <1>0, <1>3, <2>1 DEF Poll, NotifTypes, Clocks
  <2>3. Accounted'
    BY <1>3 DEF Poll, Accounted, NumbersIn
  <2>4. ASSUME NEW e \in ToSet(notifBuf) PROVE Covered(e)'
    <3>1. Covered(e)
      OBVIOUS
    <3>2. e.ts > Since => e.n \in notified'
      BY <1>3 DEF Poll, NewNotifs, NumbersIn
    <3> QED
      BY <1>3, <3>1, <3>2 DEF Poll, Covered
  <2> QED
    BY <1>3, <2>2, <2>3, <2>4 DEF Poll
<1>4. ASSUME ServerRestarts PROVE NotifInv'
  <2>1. ToSet(notifBuf') = {} /\ notifBuf' \in Seq([n : Nat, ts : Nat])
    BY <1>4, EmptySeq DEF ServerRestarts, ToSet
  <2>2. NumbersIn(ToSet(notifBuf')) = {}
    BY <2>1 DEF NumbersIn
  <2>3. NotifTypes' /\ Clocks'
    BY <1>4, <2>1 DEF ServerRestarts, NotifTypes, Clocks
  <2>4. Accounted'
    BY <1>4, <2>2 DEF ServerRestarts, Dropped, Accounted
  <2> QED
    BY <2>1, <2>3, <2>4
<1>6. ASSUME WorkerRestarts PROVE NotifInv'
  <2>1. /\ lastTimestamp' \in Nat /\ firstTimestamp' = lastTimestamp'
        /\ UNCHANGED <<now, notifBuf, notifs, notified, passed>>
    BY <1>6 DEF WorkerRestarts
  <2>2. NotifTypes' /\ Clocks' /\ Accounted'
    BY <2>1 DEF NotifTypes, Clocks, Accounted, NumbersIn
  <2>3. Since' <= lastTimestamp' /\ Since' \in Nat
    BY <2>1, WholeSeconds DEF Since
  <2>4. ASSUME NEW e \in ToSet(notifBuf) PROVE Covered(e)'
    <3>1. e.ts \in Nat
      BY <1>0
    <3>2. e.ts > Since' \/ e.ts <= firstTimestamp'
      BY <2>1, <2>3, <3>1
    <3> QED
      BY <3>2 DEF Covered
  <2> QED
    BY <2>1, <2>2, <2>4
<1>5. CASE UNCHANGED notifVars
  BY <1>5 DEF notifVars, NotifTypes, Clocks, Accounted, Covered, Since
<1> QED
  BY <1>1, <1>2, <1>3, <1>4, <1>5, <1>6
  DEF EventsNext, NotifsNext, seVars, Change, Ask, Answer, Broadcast, Subscribe, Deliver, Disconnect,
      LoadPage, Reload, notifVars

(* NotificationsKept: a notification that the ring of pushNotif still has is shown,
   or poll gets it the next time, whatever the sizes of ring and second; those of
   the first millisecond of a second are the exception. *)
THEOREM PollsMissNothing == SESpec => []NotificationsKept
<1>1. NotifInv => NotificationsKept
  <2> SUFFICES ASSUME NotifInv, NEW n \in 1 .. notifs, n \notin passed, n \notin notified,
                      n \notin NumbersIn(NewNotifs)
               PROVE  \E e \in ToSet(notifBuf) :
                          e.n = n /\ (e.ts <= firstTimestamp \/ e.ts % Second = 0)
    BY DEF NotificationsKept
  <2>1. PICK e \in ToSet(notifBuf) : e.n = n
    BY DEF NotifInv, Accounted, NumbersIn
  <2>2. ~(e.ts > Since)
    BY <2>1 DEF NumbersIn, NewNotifs
  <2> QED
    BY <2>1, <2>2 DEF NotifInv, Covered
<1> QED
  BY <1>1, NotifsInitially, NotifInductive, PTL DEF SESpec

-----------------------------------------------------------------------------
(* The confirmation of large replacements. *)

(* The variables that the argument is about, and what they hold. *)
SedTypes ==
    /\ spc \in [SedCalls -> {"idle", "walk", "apply"}]
    /\ confirm \in [SedCalls -> BOOLEAN]
    /\ entitled \in [SedCalls -> BOOLEAN]
    /\ DOMAIN counted = SedCalls
    /\ abreast \in BOOLEAN

(* While calls come one at a time, one is at work at most, *)
OneCall ==
    ~abreast => \A c, d \in SedCalls : spc[c] # "idle" /\ spc[d] # "idle" => c = d

(* and it takes itself for a confirmation if and only if it is one. *)
ConfirmsWhatWasAsked ==
    ~abreast => \A c \in SedCalls : spc[c] # "idle" => confirm[c] = entitled[c]

(* In any case a large replacement is carried out as a confirmation only. *)
LargeAsConfirmation ==
    \A c \in SedCalls : spc[c] = "apply" /\ counted[c] = "many" => confirm[c]

SedInv == SedTypes /\ OneCall /\ SedStateAgrees /\ ConfirmsWhatWasAsked
              /\ LargeAsConfirmation

(* A call that is answered is idle, and what is kept is what it was answered
   with. *)
LEMMA AnswerKeepsInv ==
    ASSUME SedInv, NEW c \in SedCalls, NEW req,
           SedAnswer(c, req, req)
    PROVE  SedInv'
<1>1. SedTypes'
  BY DEF SedInv, SedTypes, SedAnswer, SedGoto
<1>2. /\ spc' = [spc EXCEPT ![c] = "idle"]
      /\ lastSedSignature' = asked'
  BY DEF SedAnswer, SedGoto
<1>3. ~abreast' => \/ ~abreast
                   \/ \A x \in SedCalls : spc'[x] = "idle"
  BY <1>2 DEF SedAnswer, SedInv, SedTypes
<1>4. OneCall'
  BY <1>2, <1>3 DEF SedInv, OneCall, SedTypes
<1>5. SedStateAgrees'
  BY <1>2 DEF SedStateAgrees
<1>6. \A x \in SedCalls : spc'[x] # "idle" =>
          /\ x # c
          /\ spc[x] = spc'[x] /\ confirm'[x] = confirm[x]
          /\ entitled'[x] = entitled[x] /\ counted'[x] = counted[x]
  BY <1>2 DEF SedAnswer, SedInv, SedTypes
<1>7. ConfirmsWhatWasAsked'
  BY <1>3, <1>6 DEF SedInv, ConfirmsWhatWasAsked
<1>8. LargeAsConfirmation'
  BY <1>6 DEF SedInv, LargeAsConfirmation
<1> QED
  BY <1>1, <1>4, <1>5, <1>7, <1>8 DEF SedInv

(* A call that arrives alone compares its signature with the one that was
   asked for: they are the same, as no call is at work. *)
LEMMA ArrivalKeepsInv ==
    ASSUME SedInv, NEW c \in SedCalls, NEW s \in Sigs, SedArrives(c, s)
    PROVE  SedInv'
<1> USE DEF SedInv
<1>1. /\ spc[c] = "idle"
      /\ spc' = [spc EXCEPT ![c] = "walk"]
      /\ confirm' = [confirm EXCEPT ![c] = (lastSedSignature = s)]
      /\ entitled' = [entitled EXCEPT ![c] = (asked = s)]
      /\ counted' = counted
      /\ abreast' = (abreast \/ \E x \in SedCalls : spc[x] # "idle")
  BY DEF SedArrives, SedGoto
<1>2. SedTypes'
  <2>1. /\ (lastSedSignature = s) \in BOOLEAN
        /\ (asked = s) \in BOOLEAN
    OBVIOUS
  <2>2. /\ spc' \in [SedCalls -> {"idle", "walk", "apply"}]
        /\ DOMAIN counted' = SedCalls
        /\ abreast' \in BOOLEAN
    BY <1>1 DEF SedTypes
  <2>3. confirm' \in [SedCalls -> BOOLEAN]
    BY <1>1, <2>1 DEF SedTypes
  <2>4. entitled' \in [SedCalls -> BOOLEAN]
    BY <1>1, <2>1 DEF SedTypes
  <2> QED
    BY <2>2, <2>3, <2>4 DEF SedTypes
<1>3. ~abreast' => ~abreast /\ \A x \in SedCalls : spc[x] = "idle"
  BY <1>1 DEF SedTypes
<1>4. \A x \in SedCalls : spc'[x] # "idle" /\ ~abreast' => x = c
  BY <1>1, <1>3 DEF SedTypes
<1>5. OneCall'
  BY <1>4 DEF OneCall
<1>6. SedStateAgrees'
  <2>1. spc'[c] # "idle"
    BY <1>1 DEF SedTypes
  <2> QED
    BY <2>1 DEF SedStateAgrees
<1>7. ConfirmsWhatWasAsked'
  <2>1. ~abreast' => lastSedSignature = asked
    BY <1>3 DEF SedStateAgrees
  <2>2. /\ confirm'[c] = (lastSedSignature = s)
        /\ entitled'[c] = (asked = s)
    BY <1>1 DEF SedTypes
  <2>3. ~abreast' => confirm'[c] = entitled'[c]
    BY <2>1, <2>2
  <2> QED
    BY <2>3, <1>4 DEF ConfirmsWhatWasAsked
<1>8. LargeAsConfirmation'
  <2>1. \A x \in SedCalls : spc'[x] = "apply" =>
            spc[x] = "apply" /\ confirm'[x] = confirm[x] /\ counted'[x] = counted[x]
    BY <1>1 DEF SedTypes
  <2> QED
    BY <2>1 DEF LargeAsConfirmation
<1> QED
  BY <1>2, <1>5, <1>6, <1>7, <1>8

(* A dry run that goes on to the files does so for few lines, or as a
   confirmation. *)
LEMMA DryRunKeepsInv ==
    ASSUME SedInv, NEW c \in SedCalls, DryRun(c)
    PROVE  SedInv'
<1>1. CASE \E req : SedAnswer(c, req, req)
  BY <1>1, AnswerKeepsInv
<1>2. CASE /\ spc[c] = "walk"
           /\ spc' = [spc EXCEPT ![c] = "apply"]
           /\ \E n \in Lines : /\ n = "many" => confirm[c]
                               /\ counted' = [counted EXCEPT ![c] = n]
           /\ UNCHANGED <<lastSedSignature, confirm, entitled, asked, abreast>>
  <2>1. SedTypes'
    BY <1>2 DEF SedInv, SedTypes
  <2>2. \A x \in SedCalls : spc'[x] # "idle" => spc[x] # "idle"
    BY <1>2 DEF SedInv, SedTypes
  <2>3. OneCall' /\ ConfirmsWhatWasAsked'
    BY <1>2, <2>2 DEF SedInv, OneCall, ConfirmsWhatWasAsked
  <2>4. SedStateAgrees'
    <3>1. spc'[c] # "idle"
      BY <1>2 DEF SedInv, SedTypes
    <3> QED
      BY <3>1 DEF SedStateAgrees
  <2>5. LargeAsConfirmation'
    BY <1>2 DEF SedInv, LargeAsConfirmation, SedTypes
  <2> QED
    BY <2>1, <2>3, <2>4, <2>5 DEF SedInv
<1> QED
  BY <1>1, <1>2 DEF DryRun, SedGoto, Lines

(* No step loses the invariant. *)
LEMMA StepKeepsInv == SedInv /\ [SedNext]_sedVars => SedInv'
<1> SUFFICES ASSUME SedInv, [SedNext]_sedVars PROVE SedInv'
  OBVIOUS
<1> USE DEF SedInv, SedTypes, OneCall, SedStateAgrees, ConfirmsWhatWasAsked,
            LargeAsConfirmation
<1>1. CASE FilesChange
  BY <1>1 DEF FilesChange
<1>2. ASSUME NEW c \in SedCalls, NEW s \in Sigs, SedArrives(c, s)
      PROVE  SedInv'
  BY <1>2, ArrivalKeepsInv
<1>3. ASSUME NEW c \in SedCalls, DryRun(c)
      PROVE  SedInv'
  BY <1>3, DryRunKeepsInv
<1>4. ASSUME NEW c \in SedCalls, Apply(c)
      PROVE  SedInv'
  BY <1>4, AnswerKeepsInv DEF Apply
<1>5. CASE UNCHANGED sedVars
  BY <1>5 DEF sedVars
<1> QED
  BY <1>1, <1>2, <1>3, <1>4, <1>5 DEF SedNext

(* A replacement of more than thirty lines that comes alone is carried out only
   if the last answer was the request to invoke it again: lastSedSignature and
   the answers agree, whatever other calls find.  (sed.go:43-49, 109-126.) *)
THEOREM LargeConfirmed == SedSpec => []LargeOnlyConfirmed
<1>1. SedInit => SedInv
  BY DEF SedInit, SedInv, SedTypes, OneCall, SedStateAgrees,
         ConfirmsWhatWasAsked, LargeAsConfirmation
<1>2. SedInv => LargeOnlyConfirmed
  BY DEF SedInv, ConfirmsWhatWasAsked, LargeAsConfirmation, LargeOnlyConfirmed
<1> QED
  BY <1>1, <1>2, StepKeepsInv, PTL DEF SedSpec

-----------------------------------------------------------------------------
(* What a fold over a sequence computes: CodeSearch and Chunker are written with
   FoldLeft, which is defined by a function on sets of places.  It exists and
   goes through the places one by one. *)

LEMMA LenOfFcn ==
    ASSUME NEW R, NEW n \in Nat, NEW s \in [1 .. n -> R]
    PROVE  Len(s) = n /\ s \in Seq(R)
  OBVIOUS

(* g is what a fold over 1 .. N makes of each set of places, the largest last. *)
Folds(N, base, op, g) ==
    \A s \in SUBSET (1 .. N) :
        g[s] = IF s = {} THEN base ELSE op[<<g[s \ {Max(s)}], Max(s)>>]

LEMMA MaxOfSet ==
    ASSUME NEW N \in Nat, NEW s \in SUBSET (1 .. N), s # {}
    PROVE  Max(s) \in s /\ \A x \in s : x <= Max(s)
<1> DEFINE bounds == {m \in Nat : \A x \in s : x <= m}
<1>1. PICK m \in bounds : \A k \in bounds : m <= k
  <2>1. N \in bounds
    OBVIOUS
  <2> QED
    BY <2>1, LeastElement
<1>2. m \in s
  <2> SUFFICES ASSUME m \notin s PROVE FALSE
    OBVIOUS
  <2> PICK x \in s : TRUE
    OBVIOUS
  <2>1. m # 0
    BY <1>1, x \in 1 .. N, x <= m
  <2>2. m - 1 \in bounds
    BY <1>1, <2>1
  <2> QED
    BY <1>1, <2>2
<1> QED
  BY <1>1, <1>2 DEF Max

LEMMA MaxOfAll ==
    ASSUME NEW n \in Nat
    PROVE  Max(1 .. n + 1) = n + 1
<1>1. n + 1 \in 1 .. n + 1
  OBVIOUS
<1>2. n + 1 \in Nat /\ 1 .. n + 1 \in SUBSET (1 .. n + 1)
  OBVIOUS
<1>3. Max(1 .. n + 1) \in 1 .. n + 1 /\ n + 1 <= Max(1 .. n + 1)
  BY <1>1, <1>2, MaxOfSet
<1> QED
  BY <1>3

LEMMA MaxUpTo ==
    ASSUME NEW N \in Nat, NEW k \in 1 .. N
    PROVE  /\ 1 .. k \in SUBSET (1 .. N) /\ 1 .. k # {}
           /\ Max(1 .. k) = k /\ (1 .. k) \ {k} = 1 .. k - 1
<1>1. k - 1 \in Nat /\ k = (k - 1) + 1
  OBVIOUS
<1>2. Max(1 .. k) = k
  BY <1>1, MaxOfAll
<1> QED
  BY <1>2

(* There is such a function, whatever the values are, if the operation is
   defined on them. *)
LEMMA FoldExists ==
    ASSUME NEW N \in Nat, NEW A, NEW base \in A, NEW op,
           \A a \in A : \A k \in 1 .. N : op[<<a, k>>] \in A
    PROVE  \E g \in [SUBSET (1 .. N) -> A] : Folds(N, base, op, g)
<1> DEFINE Good == {n \in Nat : n <= N => \E g \in [SUBSET (1 .. n) -> A] :
                                            Folds(n, base, op, g)}
<1> HIDE DEF Good
<1>1. 0 \in Good
  <2> DEFINE g == [s \in SUBSET (1 .. 0) |-> base]
  <2>1. g \in [SUBSET (1 .. 0) -> A]
    OBVIOUS
  <2>2. \A s \in SUBSET (1 .. 0) : s = {} /\ g[s] = base
    OBVIOUS
  <2>3. Folds(0, base, op, g)
    <3> SUFFICES ASSUME NEW s \in SUBSET (1 .. 0)
                 PROVE  g[s] = IF s = {} THEN base
                               ELSE op[<<g[s \ {Max(s)}], Max(s)>>]
      BY DEF Folds
    <3>1. s = {} /\ g[s] = base
      BY <2>2
    <3> QED
      BY ONLY <3>1
  <2> QED
    BY <2>1, <2>3 DEF Good
<1>2. ASSUME NEW n \in Good PROVE n + 1 \in Good
  <2>6. n \in Nat /\ n + 1 \in Nat
    BY DEF Good
  <2> SUFFICES ASSUME n + 1 <= N
               PROVE  \E g \in [SUBSET (1 .. n + 1) -> A] : Folds(n + 1, base, op, g)
    BY <2>6 DEF Good
  <2>0. n \in Nat /\ n <= N /\ n + 1 \in 1 .. N
    BY DEF Good
  <2>1. PICK h \in [SUBSET (1 .. n) -> A] : Folds(n, base, op, h)
    BY <2>0 DEF Good
  <2> DEFINE g == [s \in SUBSET (1 .. n + 1) |->
                      IF n + 1 \in s THEN op[<<h[s \ {n + 1}], n + 1>>] ELSE h[s]]
  <2>2. \A s \in SUBSET (1 .. n + 1) :
           g[s] = IF n + 1 \in s THEN op[<<h[s \ {n + 1}], n + 1>>] ELSE h[s]
    OBVIOUS
  <2> HIDE DEF g
  <2>5. ASSUME NEW s \in SUBSET (1 .. n + 1)
        PROVE  /\ g[s] \in A
               /\ g[s] = IF s = {} THEN base ELSE op[<<g[s \ {Max(s)}], Max(s)>>]
    <3>1. CASE n + 1 \in s
      <4>1. Max(s) = n + 1
        <5>1. n + 1 \in Nat
          BY <2>0
        <5>2. s # {}
          BY <3>1
        <5>3. Max(s) \in s /\ n + 1 <= Max(s)
          BY <3>1, <5>1, <5>2, MaxOfSet
        <5>4. Max(s) \in 1 .. n + 1
          BY <5>3
        <5> QED
          BY <2>0, <5>3, <5>4
      <4>2. /\ s \ {n + 1} \in SUBSET (1 .. n) /\ n + 1 \notin s \ {n + 1}
            /\ s \ {n + 1} \in SUBSET (1 .. n + 1)
        BY <2>0
      <4>3. g[s \ {n + 1}] = h[s \ {n + 1}] /\ h[s \ {n + 1}] \in A
        BY <2>2, <4>2
      <4>4. g[s] = op[<<h[s \ {n + 1}], n + 1>>]
        BY <2>2, <3>1
      <4>5. op[<<h[s \ {n + 1}], n + 1>>] \in A
        BY <2>0, <4>3
      <4> QED
        BY <3>1, <4>1, <4>3, <4>4, <4>5
    <3>2. CASE n + 1 \notin s
      <4>1. s \in SUBSET (1 .. n) /\ s \ {Max(s)} \in SUBSET (1 .. n)
        <5>1. \A x \in s : x \in 1 .. n + 1 /\ x # n + 1
          BY <3>2
        <5>2. \A x \in s : x \in 1 .. n
          BY <2>0, <5>1
        <5> QED
          BY <5>2
      <4>2. s \ {Max(s)} \in SUBSET (1 .. n + 1) /\ n + 1 \notin s \ {Max(s)}
        BY <3>2
      <4>3. g[s] = h[s] /\ g[s \ {Max(s)}] = h[s \ {Max(s)}]
        BY <2>2, <3>2, <4>2
      <4>4. h[s] \in A
        BY <4>1
      <4>5. h[s] = IF s = {} THEN base ELSE op[<<h[s \ {Max(s)}], Max(s)>>]
        BY <2>1, <4>1 DEF Folds
      <4> QED
        BY ONLY <4>3, <4>4, <4>5, Zenon
    <3> QED
      BY <3>1, <3>2
  <2>3. g \in [SUBSET (1 .. n + 1) -> A]
    <3>1. \A s \in SUBSET (1 .. n + 1) : g[s] \in A
      BY <2>5
    <3> QED
      BY <3>1 DEF g
  <2>4. Folds(n + 1, base, op, g)
    BY <2>5 DEF Folds
  <2> QED
    BY <2>3, <2>4
<1>3. Good = Nat
  <2>1. Good \in SUBSET Nat
    BY DEF Good
  <2> QED
    BY ONLY <1>1, <1>2, <2>1, SetInduction
<1>4. N \in Good /\ N <= N
  BY <1>3
<1> QED
  BY <1>4 DEF Good


(* Such a function goes through its places one by one. *)
LEMMA FoldRun ==
    ASSUME NEW N \in Nat, NEW base, NEW op, NEW g, Folds(N, base, op, g)
    PROVE  \E f : /\ f[0] = base
                  /\ \A k \in 1 .. N : f[k] = op[<<f[k - 1], k>>]
                  /\ \A k \in 0 .. N : 1 .. k \in SUBSET (1 .. N) /\ f[k] = g[1 .. k]
<1> DEFINE f == [k \in 0 .. N |-> g[1 .. k]]
<1>1. \A k \in 0 .. N : f[k] = g[1 .. k]
  OBVIOUS
<1> HIDE DEF f
<1>2. f[0] = base
  <2>1. 1 .. 0 = {} /\ 1 .. 0 \in SUBSET (1 .. N) /\ 0 \in 0 .. N
    OBVIOUS
  <2>2. g[1 .. 0] = base
    BY <2>1 DEF Folds
  <2> QED
    BY <1>1, <2>1, <2>2
<1>3. ASSUME NEW k \in 1 .. N PROVE f[k] = op[<<f[k - 1], k>>]
  <2>1. /\ 1 .. k \in SUBSET (1 .. N) /\ 1 .. k # {}
        /\ Max(1 .. k) = k /\ (1 .. k) \ {k} = 1 .. k - 1
    BY MaxUpTo
  <2>2. g[1 .. k] = op[<<g[(1 .. k) \ {Max(1 .. k)}], Max(1 .. k)>>]
    BY <2>1 DEF Folds
  <2>3. k \in 0 .. N /\ k - 1 \in 0 .. N
    OBVIOUS
  <2> QED
    BY <1>1, <2>1, <2>2, <2>3
<1>4. \A k \in 0 .. N : 1 .. k \in SUBSET (1 .. N)
  OBVIOUS
<1> QED
  BY <1>1, <1>2, <1>3, <1>4

-----------------------------------------------------------------------------
(* The sorting of results. *)

Scored(n) == [1 .. n -> [doc : 1 .. n, score : Int]]

(* What sortResults does at the pair of places that step k is about. *)
Row(n, k) == ((k - 1) \div n) + 1
Column(n, k) == ((k - 1) % n) + 1

Swapped(rs, i, j) ==
    IF i < j /\ rs[j].score > rs[i].score
    THEN [rs EXCEPT ![i] = rs[j], ![j] = rs[i]] ELSE rs

SortResult(rs) ==
    LET n == Len(rs)
        compare(r, k) ==
            LET i == ((k - 1) \div n) + 1
                j == ((k - 1) % n) + 1
            IN IF i < j /\ r[j].score > r[i].score
               THEN [r EXCEPT ![i] = r[j], ![j] = r[i]] ELSE r
    IN FoldLeft(compare, rs, [k \in 1 .. n * n |-> k])

LEMMA SquareNat == ASSUME NEW n \in Nat PROVE n * n \in Nat
  OBVIOUS

(* The steps are the pairs, row by row. *)
LEMMA StepIsPair ==
    ASSUME NEW n \in Nat, NEW k \in 1 .. n * n
    PROVE  /\ Row(n, k) \in 1 .. n /\ Column(n, k) \in 1 .. n
           /\ k = (Row(n, k) - 1) * n + Column(n, k)
<1> DEFINE q == (k - 1) \div n
           r == (k - 1) % n
<1>1. n * n \in Nat /\ k \in Nat /\ k >= 1 /\ k <= n * n
  BY SquareNat
<1>2. n > 0
  BY <1>1
<1>3. q \in Int /\ r \in 0 .. n - 1 /\ k - 1 = n * q + r
  BY <1>1, <1>2
<1> HIDE DEF q, r
<1>4. q >= 0
  <2> SUFFICES ASSUME q <= 0 - 1 PROVE FALSE
    BY <1>3
  <2>1. n * q <= n * (0 - 1)
    BY <1>2, <1>3
  <2> QED
    BY <1>1, <1>2, <1>3, <2>1
<1>5. q < n
  <2> SUFFICES ASSUME q >= n PROVE FALSE
    BY <1>3
  <2>1. n * q >= n * n
    BY <1>2, <1>3
  <2> QED
    BY <1>1, <1>2, <1>3, <2>1
<1>6. n * q = q * n
  BY <1>3
<1>7. Row(n, k) = q + 1 /\ Column(n, k) = r + 1
  BY DEF Row, Column, q, r
<1> QED
  BY <1>1, <1>2, <1>3, <1>4, <1>5, <1>6, <1>7

LEMMA SwapTyped ==
    ASSUME NEW n \in Nat, NEW rs \in Scored(n), NEW i \in 1 .. n, NEW j \in 1 .. n
    PROVE  Swapped(rs, i, j) \in Scored(n)
  BY DEF Swapped, Scored

LEMMA SortDefined ==
    ASSUME NEW n \in Nat, NEW rs \in Scored(n)
    PROVE  \E f : /\ f[0] = rs
                  /\ \A k \in 1 .. n * n :
                        f[k] = Swapped(f[k - 1], Row(n, k), Column(n, k))
                  /\ SortResult(rs) = f[n * n]
<1> DEFINE N == n * n
           ks == [k \in 1 .. N |-> k]
           op == [p \in Scored(n) \X (1 .. N) |-> Swapped(p[1], Row(n, p[2]), Column(n, p[2]))]
           Step(g) == [s \in SUBSET (DOMAIN ks) |->
                          IF s = {} THEN rs
                          ELSE Swapped(g[s \ {Max(s)}], Row(n, ks[Max(s)]),
                                       Column(n, ks[Max(s)]))]
           g == CHOOSE h : h = Step(h)
<1>1. N \in Nat /\ \A k \in 1 .. N : Row(n, k) \in 1 .. n /\ Column(n, k) \in 1 .. n
  BY SquareNat, StepIsPair
<1>2. \A a \in Scored(n) : \A k \in 1 .. N :
         /\ op[<<a, k>>] = Swapped(a, Row(n, k), Column(n, k))
         /\ op[<<a, k>>] \in Scored(n)
  BY <1>1, SwapTyped
<1>3. SortResult(rs) = g[DOMAIN ks]
  <2>1. Len(rs) = n
    BY DEF Scored
  <2> QED
    BY <2>1 DEF SortResult, FoldLeft, MapThenFoldSet, Swapped, Row, Column
<1>4. DOMAIN ks = 1 .. N /\ \A k \in 1 .. N : ks[k] = k
  OBVIOUS
<1> HIDE DEF N, op, ks
<1>5. PICK h \in [SUBSET (1 .. N) -> Scored(n)] : Folds(N, rs, op, h)
  BY <1>1, <1>2, FoldExists
<1>6. \A s \in SUBSET (1 .. N) : s # {} => Max(s) \in 1 .. N
  BY <1>1, MaxOfSet
<1>7. h = Step(h)
  <2> SUFFICES ASSUME NEW s \in SUBSET (1 .. N)
               PROVE  h[s] = IF s = {} THEN rs
                             ELSE Swapped(h[s \ {Max(s)}], Row(n, ks[Max(s)]),
                                          Column(n, ks[Max(s)]))
    BY <1>4, <1>5
  <2>1. CASE s = {}
    BY <1>5, <2>1 DEF Folds
  <2>2. CASE s # {}
    <3>1. h[s] = op[<<h[s \ {Max(s)}], Max(s)>>]
      BY <1>5, <2>2 DEF Folds
    <3>2. Max(s) \in 1 .. N /\ h[s \ {Max(s)}] \in Scored(n)
      BY <1>6, <2>2
    <3>3. h[s] = Swapped(h[s \ {Max(s)}], Row(n, Max(s)), Column(n, Max(s)))
      BY <1>2, <3>1, <3>2
    <3>4. ks[Max(s)] = Max(s)
      BY <1>4, <3>2
    <3> QED
      BY ONLY <2>2, <3>3, <3>4
  <2> QED
    BY <2>1, <2>2
<1>8. g = Step(g)
  BY <1>7
<1> HIDE DEF g
<1>9. /\ g[1 .. 0] = rs
      /\ \A k \in 1 .. N : g[1 .. k] = Swapped(g[1 .. k - 1], Row(n, k), Column(n, k))
  <2>1. 1 .. 0 = {} /\ 1 .. 0 \in SUBSET (1 .. N)
    OBVIOUS
  <2>2. g[1 .. 0] = rs
    BY <1>4, <1>8, <2>1
  <2>3. ASSUME NEW k \in 1 .. N
        PROVE  g[1 .. k] = Swapped(g[1 .. k - 1], Row(n, k), Column(n, k))
    <3>1. 1 .. k \in SUBSET (1 .. N) /\ 1 .. k # {}
          /\ Max(1 .. k) = k /\ (1 .. k) \ {k} = 1 .. k - 1
      BY <1>1, MaxUpTo
    <3>2. \A s \in SUBSET (1 .. N) :
             s # {} => g[s] = Swapped(g[s \ {Max(s)}], Row(n, ks[Max(s)]),
                                      Column(n, ks[Max(s)]))
      BY <1>4, <1>8
    <3> HIDE DEF Step
    <3>3. g[1 .. k] = Swapped(g[(1 .. k) \ {k}], Row(n, ks[k]), Column(n, ks[k]))
      BY ONLY <3>1, <3>2
    <3> QED
      BY <1>4, <3>1, <3>3
  <2> QED
    BY <2>2, <2>3
<1> DEFINE f == [k \in 0 .. N |-> g[1 .. k]]
<1>10. \A k \in 0 .. N : f[k] = g[1 .. k]
  OBVIOUS
<1>11. 0 \in 0 .. N /\ N \in 0 .. N
       /\ \A k \in 1 .. N : k \in 0 .. N /\ k - 1 \in 0 .. N
  BY <1>1
<1> HIDE DEF f
<1>12. /\ f[0] = rs
       /\ \A k \in 1 .. N : f[k] = Swapped(f[k - 1], Row(n, k), Column(n, k))
       /\ SortResult(rs) = f[N]
  BY <1>3, <1>4, <1>9, <1>10, <1>11
<1> QED
  BY <1>12 DEF N

(* r is rs in another order, and rs itself where there is nothing to choose. *)
Reordered(n, rs, r) ==
    /\ r \in Scored(n)
    /\ \A x \in 1 .. n : \E y \in 1 .. n : r[y] = rs[x]
    /\ \A x \in 1 .. n : \E y \in 1 .. n : r[x] = rs[y]
    /\ \A x, y \in 1 .. n : x # y => r[x].doc # r[y].doc
    /\ (\A x, y \in 1 .. n : rs[x].score = rs[y].score) => r = rs

(* The pairs of the first k steps are in order. *)
OrderedUpTo(n, r, k) ==
    \A a, b \in 1 .. n : a < b /\ (a - 1) * n + b <= k => r[b].score <= r[a].score

LEMMA SwapReorders ==
    ASSUME NEW n \in Nat, NEW rs, NEW r, Reordered(n, rs, r),
           NEW i \in 1 .. n, NEW j \in 1 .. n
    PROVE  Reordered(n, rs, Swapped(r, i, j))
<1> DEFINE t == Swapped(r, i, j)
<1>1. CASE ~(i < j /\ r[j].score > r[i].score)
  BY <1>1 DEF Swapped
<1>2. CASE i < j /\ r[j].score > r[i].score
  <2>1. t = [r EXCEPT ![i] = r[j], ![j] = r[i]]
    BY <1>2 DEF Swapped
  <2>2. t \in Scored(n)
    BY SwapTyped DEF Reordered
  <2>3. \A x \in 1 .. n : t[x] = IF x = j THEN r[i] ELSE IF x = i THEN r[j] ELSE r[x]
    BY <1>2, <2>1 DEF Reordered, Scored
  <2> HIDE DEF t
  <2>4. ASSUME NEW x \in 1 .. n PROVE \E y \in 1 .. n : t[y] = rs[x]
    <3>1. PICK y \in 1 .. n : r[y] = rs[x]
      BY DEF Reordered
    <3>2. CASE y = i
      BY <2>3, <3>1, <3>2
    <3>3. CASE y = j
      <4>1. t[i] = r[j]
        BY <1>2, <2>3
      <4> QED
        BY <3>1, <3>3, <4>1
    <3>4. CASE y # i /\ y # j
      BY <2>3, <3>1, <3>4
    <3> QED
      BY <3>2, <3>3, <3>4
  <2>5. ASSUME NEW x \in 1 .. n PROVE \E y \in 1 .. n : t[x] = rs[y]
    <3>1. PICK z \in 1 .. n : t[x] = r[z]
      BY <2>3
    <3>2. PICK y \in 1 .. n : r[z] = rs[y]
      BY DEF Reordered
    <3> QED
      BY <3>1, <3>2
  <2>6. ASSUME NEW x \in 1 .. n, NEW y \in 1 .. n, x # y
        PROVE  t[x].doc # t[y].doc
    <3>1. \A y1, y2 \in 1 .. n : y1 # y2 => r[y1].doc # r[y2].doc
      BY DEF Reordered
    <3>2. i \in 1 .. n /\ j \in 1 .. n /\ i # j /\ x \in 1 .. n /\ y \in 1 .. n /\ x # y
      BY <1>2, <2>6
    <3> QED
      BY ONLY <2>3, <3>1, <3>2
  <2>7. ~(\A x, y \in 1 .. n : rs[x].score = rs[y].score)
    <3>1. PICK x \in 1 .. n : r[i] = rs[x]
      BY DEF Reordered
    <3>2. PICK y \in 1 .. n : r[j] = rs[y]
      BY DEF Reordered
    <3>3. r[i].score # r[j].score
      <4>1. r[i] \in [doc : 1 .. n, score : Int] /\ r[j] \in [doc : 1 .. n, score : Int]
        BY DEF Reordered, Scored
      <4> QED
        BY <1>2, <4>1
    <3> QED
      BY <3>1, <3>2, <3>3
  <2> QED
    BY <2>2, <2>4, <2>5, <2>6, <2>7 DEF Reordered, t
<1> QED
  BY <1>1, <1>2

LEMMA RowsBefore ==
    ASSUME NEW n \in Nat, NEW a \in 1 .. n, NEW i \in 1 .. n,
           NEW b \in 1 .. n, NEW j \in 1 .. n
    PROVE  /\ a < i => (a - 1) * n + b <= (i - 1) * n + j
           /\ (a - 1) * n + b <= (i - 1) * n + j => a < i \/ (a = i /\ b <= j)
<1>1. ASSUME NEW c \in 1 .. n, NEW d \in 1 .. n, NEW e \in 1 .. n, NEW f \in 1 .. n, c < d
      PROVE  (c - 1) * n + e < (d - 1) * n + f
  <2>1. c * n <= (d - 1) * n
    BY <1>1
  <2>2. c * n = (c - 1) * n + n
    OBVIOUS
  <2>3. (c - 1) * n \in Int /\ (d - 1) * n \in Int
    OBVIOUS
  <2> QED
    BY <2>1, <2>2, <2>3
<1>2. (a - 1) * n \in Int /\ (i - 1) * n \in Int
  OBVIOUS
<1> DEFINE p == (a - 1) * n + b
           q == (i - 1) * n + j
<1>5. p \in Int /\ q \in Int
  BY <1>2
<1>6. a = i => p - b = q - j
  BY <1>2
<1>3. a < i => (a - 1) * n + b < (i - 1) * n + j
  BY <1>1
<1>4. i < a => (i - 1) * n + j < (a - 1) * n + b
  BY <1>1
<1>7. (a < i => p < q) /\ (i < a => q < p)
  BY <1>3, <1>4
<1> HIDE DEF p, q
<1>8. (a < i => p <= q) /\ (p <= q => a < i \/ (a = i /\ b <= j))
  BY <1>5, <1>6, <1>7
<1> QED
  BY <1>8, Zenon DEF p, q

(* A step puts its pair in order and leaves the earlier ones so. *)
LEMMA SwapOrders ==
    ASSUME NEW n \in Nat, NEW k \in 1 .. n * n, NEW r \in Scored(n),
           OrderedUpTo(n, r, k - 1)
    PROVE  OrderedUpTo(n, Swapped(r, Row(n, k), Column(n, k)), k)
<1> DEFINE i == Row(n, k)
           j == Column(n, k)
           t == Swapped(r, i, j)
<1>1. i \in 1 .. n /\ j \in 1 .. n /\ k = (i - 1) * n + j /\ n * n \in Nat
  BY StepIsPair, SquareNat
<1>0. i \in 1 .. n /\ j \in 1 .. n
  BY <1>1
<1> HIDE DEF i, j
<1>2. \A x \in 1 .. n : r[x].score \in Int
  BY DEF Scored
<1> SUFFICES ASSUME NEW a \in 1 .. n, NEW b \in 1 .. n, a < b, (a - 1) * n + b <= k
             PROVE  t[b].score <= t[a].score
  BY DEF OrderedUpTo, i, j
<1>3. a < i \/ (a = i /\ b <= j)
  BY <1>1, RowsBefore
<1>4. \A c, d \in 1 .. n : c < d /\ (c < i \/ (c = i /\ d < j)) => r[d].score <= r[c].score
  <2> SUFFICES ASSUME NEW c \in 1 .. n, NEW d \in 1 .. n, c < d, c < i \/ (c = i /\ d < j)
               PROVE  (c - 1) * n + d <= k - 1
    BY DEF OrderedUpTo
  <2>1. (c - 1) * n \in Int /\ (i - 1) * n \in Int
    BY <1>1
  <2>2. c = i => (c - 1) * n + d < (i - 1) * n + j
    BY <1>1, <2>1
  <2>3. c < i => (c - 1) * n + d < (i - 1) * n + j
    <3> SUFFICES ASSUME c < i PROVE (c - 1) * n + d < (i - 1) * n + j
      OBVIOUS
    <3>1. (c - 1) * n + d <= (i - 1) * n + j
      BY <1>1, RowsBefore
    <3>2. (c - 1) * n + d # (i - 1) * n + j
      <4> SUFFICES ASSUME (c - 1) * n + d = (i - 1) * n + j PROVE FALSE
        OBVIOUS
      <4>1. (i - 1) * n + j <= (c - 1) * n + d
        BY <1>1, <2>1
      <4> QED
        BY <1>1, <4>1, RowsBefore
    <3> QED
      BY <1>1, <2>1, <3>1, <3>2
  <2> QED
    BY <1>1, <2>1, <2>2, <2>3
<1>9. a \in 1 .. n /\ b \in 1 .. n /\ a < b /\ n \in Nat
  OBVIOUS
<1>5. CASE ~(i < j /\ r[j].score > r[i].score)
  <2>1. t = r
    BY <1>5 DEF Swapped
  <2> HIDE DEF t
  <2>2. CASE a < i \/ (a = i /\ b < j)
    BY <1>4, <2>1, <2>2
  <2>3. CASE a = i /\ b = j
    BY <1>2, <1>5, <2>1, <2>3
  <2> QED
    BY ONLY <1>0, <1>3, <1>9, <2>2, <2>3
<1>6. CASE i < j /\ r[j].score > r[i].score
  <2>1. \A x \in 1 .. n : t[x] = IF x = j THEN r[i] ELSE IF x = i THEN r[j] ELSE r[x]
    BY <1>0, <1>6 DEF Scored, Swapped
  <2> HIDE DEF t
  <2>2. CASE a < i
    <3>1. t[a] = r[a]
      BY <1>0, <1>6, <2>1, <2>2
    <3>2. r[b].score <= r[a].score /\ r[i].score <= r[a].score /\ r[j].score <= r[a].score
      BY ONLY <1>0, <1>4, <1>6, <1>9, <2>2
    <3>3. t[b] \in {r[b], r[i], r[j]}
      BY <2>1
    <3> QED
      BY <3>1, <3>2, <3>3
  <2>3. CASE a = i /\ b = j
    <3>1. t[a] = r[j] /\ t[b] = r[i]
      BY <1>0, <1>6, <2>1, <2>3
    <3> QED
      BY <1>0, <1>2, <1>6, <3>1
  <2>4. CASE a = i /\ b < j
    <3>1. t[a] = r[j] /\ t[b] = r[b] /\ r[b].score <= r[i].score
      BY <1>0, <1>4, <1>6, <2>1, <2>4
    <3> QED
      BY <1>0, <1>2, <1>6, <3>1
  <2> QED
    BY ONLY <1>0, <1>3, <1>9, <2>2, <2>3, <2>4
<1> QED
  BY <1>5, <1>6

(* sortResults sorts: the best first, none lost, none twice. *)
LEMMA SortSorts ==
    ASSUME NEW n \in Nat, NEW rs \in Scored(n),
           \A x, y \in 1 .. n : x # y => rs[x].doc # rs[y].doc
    PROVE  /\ Reordered(n, rs, SortResult(rs))
           /\ \A a, b \in 1 .. n : a < b =>
                 SortResult(rs)[b].score <= SortResult(rs)[a].score
<1>1. PICK f : /\ f[0] = rs
               /\ \A k \in 1 .. n * n :
                     f[k] = Swapped(f[k - 1], Row(n, k), Column(n, k))
               /\ SortResult(rs) = f[n * n]
  BY SortDefined
<1>2. n * n \in Nat
  BY SquareNat
<1> DEFINE Good == {k \in Nat : k <= n * n => /\ Reordered(n, rs, f[k])
                                            /\ OrderedUpTo(n, f[k], k)}
<1>3. 0 \in Good
  <2>1. Reordered(n, rs, rs)
    BY DEF Reordered
  <2>2. OrderedUpTo(n, rs, 0)
    <3> SUFFICES ASSUME NEW a \in 1 .. n, NEW b \in 1 .. n, (a - 1) * n + b <= 0
                 PROVE  FALSE
      BY DEF OrderedUpTo
    <3>1. (a - 1) * n \in Nat
      OBVIOUS
    <3> QED
      BY <3>1
  <2> QED
    BY <1>1, <2>1, <2>2
<1>4. ASSUME NEW k \in Good PROVE k + 1 \in Good
  <2>1. k \in Nat /\ k + 1 \in Nat /\ (k + 1) - 1 = k
    OBVIOUS
  <2> SUFFICES ASSUME k + 1 <= n * n
               PROVE  /\ Reordered(n, rs, f[k + 1])
                      /\ OrderedUpTo(n, f[k + 1], k + 1)
    BY <2>1
  <2>2. k + 1 \in 1 .. n * n /\ k <= n * n
    BY <1>2, <2>1
  <2>3. Reordered(n, rs, f[k]) /\ OrderedUpTo(n, f[k], k)
    BY <2>2
  <2> HIDE DEF Good
  <2>4. f[k + 1] = Swapped(f[k], Row(n, k + 1), Column(n, k + 1))
    BY <1>1, <2>1, <2>2
  <2>5. Row(n, k + 1) \in 1 .. n /\ Column(n, k + 1) \in 1 .. n
    BY <2>2, StepIsPair
  <2>6. Reordered(n, rs, f[k + 1])
    BY <2>3, <2>4, <2>5, SwapReorders
  <2>7. f[k] \in Scored(n)
    BY <2>3 DEF Reordered
  <2>8. OrderedUpTo(n, f[k + 1], k + 1)
    BY <2>1, <2>2, <2>3, <2>4, <2>7, SwapOrders
  <2> QED
    BY <2>6, <2>8
<1>5. n * n \in Good
  <2>1. Good \in SUBSET Nat
    OBVIOUS
  <2> HIDE DEF Good
  <2>2. Good = Nat
    BY ONLY <1>3, <1>4, <2>1, SetInduction
  <2> QED
    BY <1>2, <2>2
<1>6. Reordered(n, rs, SortResult(rs)) /\ OrderedUpTo(n, SortResult(rs), n * n)
  BY <1>1, <1>2, <1>5
<1>7. ASSUME NEW a \in 1 .. n, NEW b \in 1 .. n
      PROVE  (a - 1) * n + b <= n * n
  <2>1. n \in 1 .. n /\ n * n = (n - 1) * n + n /\ (n - 1) * n \in Int
    OBVIOUS
  <2>2. a < n => (a - 1) * n + b <= (n - 1) * n + n
    BY <2>1, RowsBefore
  <2>3. a = n => (a - 1) * n + b <= (n - 1) * n + n
    BY <2>1
  <2> QED
    BY <2>1, <2>2, <2>3
<1> QED
  BY <1>6, <1>7 DEF OrderedUpTo

SearchSteps == {"ask", "candidates", "sort", "cut", "answered", "failed"}

(* What a query has in hand at each step. *)
Nearest ==
    cstep \in {"candidates", "sort", "cut"} =>
        \E m \in Nat :
            /\ searchCount <= m /\ similarity \in [1 .. m -> Int]
            /\ \A i, j \in 1 .. m : i < j => similarity[i] >= similarity[j]

Reranked ==
    \E known \in SUBSET Candidates : ranked \in [known -> Int]

Judged ==
    cstep = "sort" =>
        results = ScoredBy([i \in Candidates |-> IF i \in DOMAIN ranked THEN ranked[i] ELSE 0])

(* Before the cut: all candidates, the best first, by the score that counts. *)
Complete ==
    cstep = "cut" =>
        /\ results \in Scored(searchCount)
        /\ \A x, y \in Candidates : x # y => results[x].doc # results[y].doc
        /\ \A d \in Candidates : \E x \in Candidates : results[x].doc = d
        /\ \A x, y \in Candidates : x < y => results[y].score <= results[x].score
        /\ ranked = <<>> =>
              \A x, y \in Candidates :
                 x < y => similarity[results[y].doc] <= similarity[results[x].doc]
        /\ ranked # <<>> =>
              \A x \in Candidates :
                 results[x].doc \in DOMAIN ranked =>
                     results[x].score = ranked[results[x].doc]

SearchInv ==
    /\ cstep \in SearchSteps /\ (cstep \in {"ask", "candidates"} => ranked = <<>>)
    /\ Nearest /\ Reranked /\ Judged /\ Complete /\ BestFirst

LEMMA ScoredByProperties ==
    ASSUME NEW score, \A i \in Candidates : score[i] \in Int
    PROVE  /\ ScoredBy(score) \in Scored(searchCount)
           /\ \A i \in Candidates : ScoredBy(score)[i].doc = i /\ ScoredBy(score)[i].score = score[i]
  BY DEF ScoredBy, Scored, Candidates

LEMMA NothingRanked ==
    ASSUME NEW known \in SUBSET Candidates, NEW r \in [known -> Int]
    PROVE  r = <<>> <=> known = {}
  OBVIOUS

LEMMA SearchInitially == SearchInit => SearchInv
<1> SUFFICES ASSUME SearchInit PROVE SearchInv
  OBVIOUS
<1>1. Reranked
  <2>1. <<>> \in [{} -> Int] /\ {} \in SUBSET Candidates
    OBVIOUS
  <2> QED
    BY <2>1 DEF SearchInit, Reranked
<1> QED
  BY <1>1 DEF SearchInit, SearchInv, SearchSteps, Nearest, Judged, Complete, BestFirst

LEMMA SearchKeeps == SearchInv /\ Search => SearchInv'
<1> SUFFICES ASSUME SearchInv, Search PROVE SearchInv'
  OBVIOUS
<1>1. PICK n \in 0 .. MaxDocs :
          /\ similarity' \in {s \in [1 .. n -> Scores] :
                                 \A i, j \in 1 .. n : i < j => s[i] >= s[j]}
          /\ \/ n >= searchCount /\ SearchGoto("ask", "candidates")
             \/ n < searchCount /\ SearchGoto("ask", "failed")
  BY DEF Search
<1>2. ranked' = ranked /\ results' = results /\ cstep = "ask"
      /\ cstep' \in {"candidates", "failed"}
  BY <1>1 DEF Search, SearchGoto
<1>3. Nearest'
  <2>1. n \in Nat /\ (cstep' = "candidates" => searchCount <= n)
    BY <1>1, SearchAssumption DEF SearchGoto
  <2>2. similarity' \in [1 .. n -> Int]
    BY <1>1, SearchAssumption
  <2>3. \A i, j \in 1 .. n : i < j => similarity'[i] >= similarity'[j]
    BY <1>1
  <2> QED
    BY <1>2, <2>1, <2>2, <2>3 DEF Nearest
<1>4. Reranked'
  BY <1>2 DEF SearchInv, Reranked
<1> QED
  BY <1>2, <1>3, <1>4 DEF SearchInv, SearchSteps, Judged, Complete, BestFirst

LEMMA SimilarityKeeps == SearchInv /\ KeepSimilarity => SearchInv'
<1> SUFFICES ASSUME SearchInv, KeepSimilarity PROVE SearchInv'
  OBVIOUS
<1>1. /\ cstep = "candidates" /\ cstep' = "cut" /\ results' = ScoredBy(similarity)
      /\ similarity' = similarity /\ ranked' = ranked /\ ranked = <<>>
  BY DEF KeepSimilarity, SearchGoto, SearchInv
<1>2. PICK m \in Nat :
            /\ searchCount <= m /\ similarity \in [1 .. m -> Int]
            /\ \A i, j \in 1 .. m : i < j => similarity[i] >= similarity[j]
  BY <1>1 DEF SearchInv, Nearest
<1>3. \A i \in Candidates : i \in 1 .. m /\ similarity[i] \in Int
  BY <1>2, SearchAssumption DEF Candidates
<1>4. /\ results' \in Scored(searchCount)
      /\ \A i \in Candidates : results'[i].doc = i /\ results'[i].score = similarity[i]
  BY <1>1, <1>3, ScoredByProperties
<1>5. Complete'
  <2>1. \A x, y \in Candidates : x < y => similarity[y] <= similarity[x]
    BY <1>2, <1>3
  <2> QED
    BY <1>1, <1>4, <2>1 DEF Complete, Candidates
<1>6. Nearest' /\ Reranked'
  BY <1>1, <1>2 DEF SearchInv, Nearest, Reranked
<1> QED
  BY <1>1, <1>5, <1>6 DEF SearchInv, SearchSteps, Judged, BestFirst

LEMMA RerankKeeps == SearchInv /\ Rerank => SearchInv'
<1> SUFFICES ASSUME SearchInv, Rerank PROVE SearchInv'
  OBVIOUS
<1>1. /\ cstep = "candidates" /\ cstep' = "sort" /\ similarity' = similarity
      /\ results' = ScoredBy([i \in Candidates |->
                               IF i \in DOMAIN ranked' THEN ranked'[i] ELSE 0])
  BY DEF Rerank, SearchGoto
<1>2. Reranked'
  BY SearchAssumption DEF Rerank, Reranked
<1>3. Nearest'
  BY <1>1 DEF SearchInv, Nearest
<1> QED
  BY <1>1, <1>2, <1>3 DEF SearchInv, SearchSteps, Judged, Complete, BestFirst

LEMMA SortKeeps == SearchInv /\ Sort => SearchInv'
<1> SUFFICES ASSUME SearchInv, Sort PROVE SearchInv'
  OBVIOUS
<1> DEFINE n == searchCount
           score == [i \in Candidates |-> IF i \in DOMAIN ranked THEN ranked[i] ELSE 0]
           rs == ScoredBy(score)
           ts == SortResult(rs)
<1>1. /\ cstep = "sort" /\ cstep' = "cut" /\ results = rs
      /\ similarity' = similarity /\ ranked' = ranked
  BY DEF Sort, SearchGoto, SearchInv, Judged
<1>2. results' = SortResult(results)
  BY DEF Sort, SortResult
<1>3. PICK known \in SUBSET Candidates : ranked \in [known -> Int]
  BY DEF SearchInv, Reranked
<1>4. \A i \in Candidates : score[i] \in Int
  BY <1>3
<1>5. n \in Nat /\ Candidates = 1 .. n
  BY SearchAssumption DEF Candidates
<1> HIDE DEF score
<1>6. /\ rs \in Scored(n)
      /\ \A i \in Candidates : rs[i].doc = i /\ rs[i].score = score[i]
  BY <1>4, ScoredByProperties
<1> HIDE DEF rs
<1>7. \A x, y \in 1 .. n : x # y => rs[x].doc # rs[y].doc
  BY <1>5, <1>6
<1>8. /\ Reordered(n, rs, ts)
      /\ \A a, b \in 1 .. n : a < b => ts[b].score <= ts[a].score
  BY <1>5, <1>6, <1>7, SortSorts
<1>9. results' = ts
  BY <1>1, <1>2
<1> HIDE DEF ts
<1>10. PICK m \in Nat :
            /\ searchCount <= m /\ similarity \in [1 .. m -> Int]
            /\ \A i, j \in 1 .. m : i < j => similarity[i] >= similarity[j]
  BY <1>1 DEF SearchInv, Nearest
<1>11. \A d \in Candidates : \E x \in Candidates : ts[x].doc = d
  <2> SUFFICES ASSUME NEW d \in Candidates PROVE \E x \in Candidates : ts[x].doc = d
    OBVIOUS
  <2>1. PICK x \in 1 .. n : ts[x] = rs[d]
    BY <1>5, <1>8 DEF Reordered
  <2> QED
    BY <1>5, <1>6, <2>1
<1>12. ASSUME ranked = <<>>, NEW x \in Candidates, NEW y \in Candidates, x < y
       PROVE  similarity[ts[y].doc] <= similarity[ts[x].doc]
  <2>1. \A i \in Candidates : score[i] = 0
    BY <1>12 DEF score
  <2>2. \A i, j \in 1 .. n : rs[i].score = rs[j].score
    BY <1>5, <1>6, <2>1
  <2>3. ts = rs
    BY <1>8, <2>2 DEF Reordered
  <2>4. ts[y].doc = y /\ ts[x].doc = x
    BY <1>6, <2>3
  <2>5. x \in 1 .. m /\ y \in 1 .. m
    BY <1>5, <1>10
  <2>6. similarity[x] >= similarity[y] /\ similarity[x] \in Int /\ similarity[y] \in Int
    BY <1>10, <1>12, <2>5
  <2> QED
    BY <2>4, <2>6
<1>13. ASSUME NEW x \in Candidates, ts[x].doc \in DOMAIN ranked
       PROVE  ts[x].score = ranked[ts[x].doc]
  <2>1. PICK y \in 1 .. n : ts[x] = rs[y]
    BY <1>5, <1>8 DEF Reordered
  <2>2. ts[x].doc = y /\ ts[x].score = score[y]
    BY <1>5, <1>6, <2>1
  <2>3. score[y] = ranked[y]
    BY <1>5, <1>13, <2>2 DEF score
  <2> QED
    BY <2>2, <2>3
<1>14. /\ ts \in Scored(n)
       /\ \A x, y \in Candidates : x # y => ts[x].doc # ts[y].doc
       /\ \A x, y \in Candidates : x < y => ts[y].score <= ts[x].score
  BY <1>5, <1>8 DEF Reordered
<1>15. Complete'
  BY <1>1, <1>9, <1>11, <1>12, <1>13, <1>14 DEF Complete, Candidates
<1>16. Nearest' /\ Reranked'
  BY <1>1, <1>3, <1>10 DEF Nearest, Reranked, Candidates
<1> QED
  BY <1>1, <1>15, <1>16 DEF SearchInv, SearchSteps, Judged, BestFirst

LEMMA LeastOfTwo ==
    ASSUME NEW a \in Nat, NEW b \in Nat
    PROVE  Min({a, b}) \in 0 .. b
<1>1. \E x \in {a, b} : \A y \in {a, b} : x <= y
  OBVIOUS
<1>2. Min({a, b}) \in {a, b} /\ \A y \in {a, b} : Min({a, b}) <= y
  BY <1>1 DEF Min
<1> QED
  BY <1>2

LEMMA CutKeeps == SearchInv /\ Cut => SearchInv'
<1> SUFFICES ASSUME SearchInv, Cut PROVE SearchInv'
  OBVIOUS
<1> DEFINE n == searchCount
           m == Min({resultCount, Len(results)})
           given == {results'[i].doc : i \in 1 .. Len(results')}
           judged == {d \in Candidates : ranked = <<>> \/ d \in DOMAIN ranked}
           score(d) == IF ranked = <<>> THEN similarity[d] ELSE ranked[d]
<1>1. /\ cstep = "cut" /\ cstep' = "answered" /\ results' = SubSeq(results, 1, m)
      /\ similarity' = similarity /\ ranked' = ranked
  BY DEF Cut, SearchGoto
<1>2. n \in Nat /\ Candidates = 1 .. n /\ resultCount \in Nat
  BY SearchAssumption DEF Candidates
<1>3. /\ results \in Scored(n)
      /\ \A x, y \in Candidates : x # y => results[x].doc # results[y].doc
      /\ \A d \in Candidates : \E x \in Candidates : results[x].doc = d
      /\ \A x, y \in Candidates : x < y => results[y].score <= results[x].score
      /\ ranked = <<>> =>
            \A x, y \in Candidates :
               x < y => similarity[results[y].doc] <= similarity[results[x].doc]
      /\ ranked # <<>> =>
            \A x \in Candidates :
               results[x].doc \in DOMAIN ranked =>
                   results[x].score = ranked[results[x].doc]
  BY <1>1 DEF SearchInv, Complete
<1>4. /\ Len(results) = n /\ results \in Seq([doc : 1 .. n, score : Int])
      /\ \A x \in Candidates : results[x].doc \in Candidates /\ results[x].score \in Int
  <2>1. results \in [1 .. n -> [doc : 1 .. n, score : Int]]
    BY <1>3 DEF Scored
  <2>2. Len(results) = n /\ results \in Seq([doc : 1 .. n, score : Int])
    BY <1>2, <2>1, LenOfFcn
  <2>3. \A x \in Candidates : results[x] \in [doc : 1 .. n, score : Int]
    BY <1>2, <2>1
  <2>4. \A x \in Candidates : results[x].doc \in 1 .. n /\ results[x].score \in Int
    BY <2>3
  <2> QED
    BY <1>2, <2>2, <2>4
<1>5. m \in 0 .. n
  BY <1>2, <1>4, LeastOfTwo
<1> HIDE DEF m
<1>6. /\ Len(results') = m
      /\ \A i \in 1 .. m : i \in Candidates /\ results'[i] = results[i]
  BY <1>1, <1>2, <1>4, <1>5, SubSeqProperties
<1>7. \A i, j \in 1 .. m : i < j => /\ results'[i].doc # results'[j].doc
                                    /\ results'[i].score >= results'[j].score
  <2> SUFFICES ASSUME NEW i \in 1 .. m, NEW j \in 1 .. m, i < j
               PROVE  results'[i].doc # results'[j].doc /\ results'[i].score >= results'[j].score
    OBVIOUS
  <2>1. i \in Candidates /\ j \in Candidates /\ i # j
    BY <1>2, <1>5, <1>6
  <2>2. results'[i] = results[i] /\ results'[j] = results[j]
    BY <1>6
  <2>3. results[i].doc # results[j].doc /\ results[j].score <= results[i].score
    BY <1>3, <2>1
  <2>4. results[i].score \in Int /\ results[j].score \in Int
    BY <1>4, <2>1
  <2> QED
    BY <2>2, <2>3, <2>4
<1>8. ASSUME NEW d \in judged \ given, NEW g \in judged \cap given
      PROVE  score(g) >= score(d)
  <2>1. PICK q \in 1 .. m : g = results[q].doc /\ q \in Candidates
    BY <1>6
  <2>2. PICK p \in Candidates : results[p].doc = d
    BY <1>3
  <2>3. q < p
    <3>1. p \notin 1 .. m
      BY <1>6, <2>2
    <3> QED
      BY <1>2, <1>5, <2>1, <3>1
  <2>4. CASE ranked = <<>>
    <3>1. similarity[d] <= similarity[g]
      BY <1>3, <2>1, <2>2, <2>3, <2>4
    <3> QED
      BY <2>4, <3>1
  <2>5. CASE ranked # <<>>
    <3>1. d \in DOMAIN ranked /\ g \in DOMAIN ranked
      BY <2>5
    <3>2. results[p].score = ranked[d] /\ results[q].score = ranked[g]
      BY <1>3, <2>1, <2>2, <2>5, <3>1
    <3>3. results[p].score <= results[q].score
      BY <1>3, <2>1, <2>3
    <3>4. results[p].score \in Int /\ results[q].score \in Int
      BY <1>4, <2>1
    <3> QED
      BY <2>5, <3>2, <3>3, <3>4
  <2> QED
    BY <2>4, <2>5
<1>9. BestFirst'
  <2>1. \A d \in judged \ given : \A g \in judged \cap given : score(g) >= score(d)
    BY <1>8
  <2> HIDE DEF m
  <2> QED
    BY <1>1, <1>6, <1>7, <2>1 DEF BestFirst, Candidates
<1>10. Reranked'
  BY <1>1 DEF SearchInv, Reranked, Candidates
<1> QED
  BY <1>1, <1>9, <1>10 DEF SearchInv, SearchSteps, Nearest, Judged, Complete

LEMMA SearchStays == SearchInv /\ [SearchNext]_searchVars => SearchInv'
<1> SUFFICES ASSUME SearchInv, [SearchNext]_searchVars PROVE SearchInv'
  OBVIOUS
<1>1. CASE UNCHANGED searchVars
  BY <1>1 DEF searchVars, SearchInv, Nearest, Reranked, Judged, Complete, BestFirst,
              Candidates, ScoredBy
<1> QED
  BY <1>1, SearchKeeps, SimilarityKeeps, RerankKeeps, SortKeeps, CutKeeps DEF SearchNext

(* The answer to a query has the best first, each document once, and leaves out
   nothing better, for any number of candidates and results, with or without a
   reranker and whatever it says. *)
THEOREM AnswersAreBest == SearchSpec => []BestFirst
<1>1. SearchInit => SearchInv
  BY SearchInitially
<1>2. SearchInv /\ [SearchNext]_searchVars => SearchInv'
  BY SearchStays
<1>3. SearchInv => BestFirst
  BY DEF SearchInv
<1> QED
  BY <1>1, <1>2, <1>3, PTL DEF SearchSpec

-----------------------------------------------------------------------------
(* What a file becomes. *)

FileOk == nodes \in Trees /\ rows \in RowSets /\ offset \in Offsets

(* A chunk that names the lines its text is on, and is of its node's own text. *)
ChunkOk(c) ==
    /\ c \in [node : DOMAIN nodes, first : PieceNumbers, last : PieceNumbers,
              from : PieceNumbers, to : PieceNumbers]
    /\ c.from <= c.to
    /\ c.first = rows[c.from] /\ c.last = rows[c.to]
    /\ Inside(c, nodes[c.node])

Holds(C, k) == \E c \in C : k \in c.from .. c.to

(* A piece that the store must know of: of a declaration, long enough, and with a
   node in every second parse. *)
Long(k) == Size(k, k) >= minChunkSize
Declared(k) == \E i \in DOMAIN nodes :
                  nodes[i].kind # "other" /\ k \in nodes[i].from .. nodes[i].to
Wanted(k) == Declared(k) /\ Long(k) /\ k \notin uncovered

(* Until the store has them the wanted pieces are in a chunk that ChunkFile
   returns or in one that is yet to be split. *)
FileInv ==
    /\ FileOk
    /\ \A c \in unsplit \cup chunks : ChunkOk(c)
    /\ \A k \in PieceNumbers : Wanted(k) => Holds(unsplit \cup chunks, k)
    /\ docs \subseteq chunks
    /\ docs # {} => unsplit = {} /\ \A c \in chunks : \E d \in docs : SameLines(c, d)

ChunkInv ==
    \/ nodes = <<>> /\ unsplit = {} /\ chunks = {} /\ docs = {} /\ uncovered = {}
    \/ FileInv

LEMMA FileParts ==
    ASSUME FileOk
    PROVE  /\ \E n \in Nat \ {0} : DOMAIN nodes = 1 .. n
           /\ \A i \in DOMAIN nodes :
                 /\ nodes[i].from \in PieceNumbers /\ nodes[i].to \in PieceNumbers
                 /\ nodes[i].from <= nodes[i].to
           /\ \A k \in PieceNumbers : rows[k] \in PieceNumbers
           /\ \A j, k \in PieceNumbers : j <= k => rows[j] <= rows[k]
           /\ \A k \in PieceNumbers :
                 k - 1 \in PieceNumbers => rows[k] <= rows[k - 1] + 1
           /\ \A k \in 0 .. MaxPiece : offset[k] \in Nat
           /\ \A j, k \in 0 .. MaxPiece : j <= k => offset[j] <= offset[k]
           /\ PieceNumbers \subseteq Nat \ {0}
<1>1. PICK n \in 1 .. MaxNodes : nodes \in [1 .. n -> Nodes]
  BY DEF FileOk, Trees
<1>2. DOMAIN nodes = 1 .. n /\ n \in Nat \ {0}
  BY <1>1, ChunkerAssumption
<1>3. \A i \in DOMAIN nodes :
          /\ nodes[i].from \in PieceNumbers /\ nodes[i].to \in PieceNumbers
          /\ nodes[i].from <= nodes[i].to
  BY <1>1 DEF Nodes
<1>4. MaxPiece \in Nat /\ MaxLength \in Nat
  BY ChunkerAssumption
<1>5. /\ rows \in [PieceNumbers -> PieceNumbers]
      /\ \A j, k \in PieceNumbers : j <= k => rows[j] <= rows[k]
      /\ \A k \in PieceNumbers : rows[k] = 1 \/ (k > 1 /\ rows[k] <= rows[k - 1] + 1)
  BY DEF FileOk, RowSets
<1>6. ASSUME NEW k \in PieceNumbers, k - 1 \in PieceNumbers PROVE rows[k] <= rows[k - 1] + 1
  BY <1>4, <1>5, <1>6, ChunkerAssumption DEF PieceNumbers
<1>7. /\ \A k \in 0 .. MaxPiece : offset[k] \in Nat
      /\ \A j, k \in 0 .. MaxPiece : j <= k => offset[j] <= offset[k]
  BY <1>4 DEF FileOk, Offsets
<1>8. PieceNumbers \subseteq Nat \ {0}
  BY <1>4 DEF PieceNumbers
<1>9. \A k \in PieceNumbers : rows[k] \in PieceNumbers
  BY <1>5
<1> QED
  BY <1>2, <1>3, <1>5, <1>6, <1>7, <1>8, <1>9, Zenon

(* A piece is no longer than the text it is in. *)
LEMMA SizeOfPart ==
    ASSUME FileOk, NEW from \in PieceNumbers, NEW to \in PieceNumbers,
           NEW k \in from .. to
    PROVE  Size(from, to) >= Size(k, k)
<1>1. /\ from - 1 \in 0 .. MaxPiece /\ to \in 0 .. MaxPiece
      /\ k - 1 \in 0 .. MaxPiece /\ k \in 0 .. MaxPiece
      /\ from - 1 <= k - 1 /\ k <= to
  BY ChunkerAssumption DEF PieceNumbers
<1>2. offset[from - 1] <= offset[k - 1] /\ offset[k] <= offset[to]
  BY <1>1, FileParts
<1>3. /\ offset[from - 1] \in Nat /\ offset[k - 1] \in Nat
      /\ offset[k] \in Nat /\ offset[to] \in Nat
  BY <1>1, FileParts
<1> QED
  BY <1>2, <1>3 DEF Size

-----------------------------------------------------------------------------
(* collectChunks: what is below a node that is left to splitting is in the chunk
   of the topmost one. *)
CollectedGood ==
    /\ \A c \in Collected : ChunkOk(c)
    /\ \A k : Declared(k) => Holds(Collected, k)

LEMMA CollectedIsGood == FileOk => CollectedGood
<1> SUFFICES ASSUME FileOk PROVE CollectedGood
  OBVIOUS
<1> DEFINE taken(i) == /\ nodes[i].kind # "other"
                       /\ \A j \in Ancestors(nodes, i) : nodes[j].kind # "whole"
           chunkOf(i) == [node |-> i, first |-> rows[nodes[i].from],
                          last |-> rows[nodes[i].to],
                          from |-> nodes[i].from, to |-> nodes[i].to]
<1>1. Collected = {chunkOf(i) : i \in {i \in DOMAIN nodes : taken(i)}}
  BY DEF Collected
<1>2. ASSUME NEW i \in DOMAIN nodes PROVE ChunkOk(chunkOf(i))
  BY FileParts DEF ChunkOk, Inside
<1>3. ASSUME NEW i \in DOMAIN nodes, taken(i), NEW k \in nodes[i].from .. nodes[i].to
      PROVE  Holds(Collected, k)
  <2>1. chunkOf(i) \in Collected
    BY <1>1, <1>3
  <2> QED
    BY <1>3, <2>1 DEF Holds
<1>4. ASSUME NEW k, NEW i \in DOMAIN nodes, nodes[i].kind # "other",
             k \in nodes[i].from .. nodes[i].to
      PROVE  Holds(Collected, k)
  <2>1. PICK n \in Nat \ {0} : DOMAIN nodes = 1 .. n
    BY FileParts
  <2>2. CASE \A j \in Ancestors(nodes, i) : nodes[j].kind # "whole"
    BY <1>3, <1>4, <2>2
  <2>3. CASE \E j \in Ancestors(nodes, i) : nodes[j].kind = "whole"
    <3> DEFINE wholes == {j \in Ancestors(nodes, i) : nodes[j].kind = "whole"}
    <3>1. wholes \in SUBSET Nat /\ wholes # {}
      BY <2>1, <2>3 DEF Ancestors
    <3>2. PICK w \in wholes : \A j \in wholes : w <= j
      BY <3>1, LeastElement
    <3>3. w \in DOMAIN nodes /\ nodes[w].kind = "whole" /\ w < i /\ Inside(nodes[i], nodes[w])
      BY <2>1, <3>2 DEF Ancestors
    <3>4. ASSUME NEW j \in Ancestors(nodes, w), nodes[j].kind = "whole" PROVE FALSE
      <4>1. j \in 1 .. w - 1 /\ Inside(nodes[w], nodes[j])
        BY <3>4 DEF Ancestors
      <4>2. j \in DOMAIN nodes /\ j \in 1 .. i - 1 /\ j < w
        BY <2>1, <3>3, <4>1
      <4>3. Inside(nodes[i], nodes[j])
        BY <3>3, <4>1, <4>2, FileParts DEF Inside
      <4> QED
        BY <2>1, <3>2, <3>3, <3>4, <4>2, <4>3 DEF Ancestors
    <3>5. taken(w)
      BY <3>3, <3>4
    <3>6. k \in nodes[w].from .. nodes[w].to
      BY <1>4, <3>3, FileParts DEF Inside
    <3> QED
      BY <1>3, <3>3, <3>5, <3>6
  <2> QED
    BY <2>2, <2>3
<1> QED
  BY <1>1, <1>2, <1>4 DEF CollectedGood, Declared

-----------------------------------------------------------------------------
(* A part of a chunk is as good as the chunk. *)
LEMMA PartIsOk ==
    ASSUME FileOk, NEW c, ChunkOk(c), NEW a \in c.from .. c.to, NEW b \in c.from .. c.to,
           a <= b
    PROVE  ChunkOk(Part(c, c.first + LineOf(c, a), c.first + LineOf(c, b), a, b))
<1>1. /\ c.from \in PieceNumbers /\ c.to \in PieceNumbers /\ c.first = rows[c.from]
      /\ c.node \in DOMAIN nodes
      /\ nodes[c.node].from <= c.from /\ c.to <= nodes[c.node].to
  BY DEF ChunkOk, Inside
<1>2. a \in PieceNumbers /\ b \in PieceNumbers
  BY <1>1, ChunkerAssumption DEF PieceNumbers
<1>3. /\ rows[a] \in Nat /\ rows[b] \in Nat /\ rows[c.from] \in Nat
      /\ rows[a] \in PieceNumbers /\ rows[b] \in PieceNumbers
  BY <1>1, <1>2, FileParts
<1>4. c.first + LineOf(c, a) = rows[a] /\ c.first + LineOf(c, b) = rows[b]
  BY <1>1, <1>3 DEF LineOf
<1>5. nodes[c.node].from \in Nat /\ nodes[c.node].to \in Nat
  BY <1>1, FileParts
<1>6. nodes[c.node].from <= a /\ b <= nodes[c.node].to
  BY <1>1, <1>5, ChunkerAssumption DEF PieceNumbers
<1> QED
  BY <1>1, <1>2, <1>3, <1>4, <1>6 DEF ChunkOk, Part, Inside

LEMMA SplitIsOk ==
    ASSUME FileOk, NEW c, ChunkOk(c), NEW p \in splitByLines(c)
    PROVE  ChunkOk(p)
<1>1. CASE LineOf(c, c.to) = 0
  BY <1>1 DEF splitByLines
<1>2. CASE LineOf(c, c.to) # 0
  <2>1. PICK s \in Segments(c) :
            p = Part(c, c.first + LineOf(c, s[1]), c.first + LineOf(c, s[2]), s[1], s[2])
    BY <1>2 DEF splitByLines
  <2>2. s[1] \in c.from .. c.to /\ s[2] \in c.from .. c.to /\ s[1] <= s[2]
    BY DEF Segments
  <2> QED
    BY <2>1, <2>2, PartIsOk
<1> QED
  BY <1>1, <1>2

(* The first piece of a text that is at or after a line is on it, and so is the
   last that is at or before one: lines have pieces. *)
LEMMA FirstOnLine ==
    ASSUME FileOk, NEW c, ChunkOk(c), NEW k \in c.from .. c.to,
           NEW r \in Nat, r <= LineOf(c, k)
    PROVE  \E a \in c.from .. k : LineOf(c, a) = r /\ LineBegins(c, a)
<1> DEFINE S == {m \in c.from .. k : r <= LineOf(c, m)}
<1>1. c.from \in PieceNumbers /\ c.to \in PieceNumbers /\ PieceNumbers \subseteq Nat
  BY FileParts DEF ChunkOk
<1>7. c.from \in Nat /\ c.to \in Nat
  BY <1>1
<1>0. k \in Nat /\ c.from <= k /\ k <= c.to /\ k \in c.from .. k
  BY <1>7
<1>2. k \in S /\ S \in SUBSET Nat
  BY <1>0, <1>7
<1>3. PICK a \in S : \A m \in S : a <= m
  BY <1>2, LeastElement
<1>4. /\ a \in c.from .. k /\ a \in PieceNumbers /\ a \in Nat /\ c.from \in Nat
      /\ rows[a] \in Nat /\ rows[c.from] \in Nat
  <2>1. a \in c.from .. k
    BY <1>3
  <2>2. a \in PieceNumbers
    BY <1>1, <2>1, ChunkerAssumption DEF PieceNumbers
  <2> QED
    BY <1>1, <2>1, <2>2, FileParts
<1>5. CASE a = c.from
  <2>1. LineOf(c, a) = 0
    BY <1>4, <1>5 DEF LineOf
  <2>2. r <= LineOf(c, a)
    BY <1>3
  <2> QED
    BY <1>4, <1>5, <2>1, <2>2 DEF LineBegins
<1>6. CASE a # c.from
  <2>1. a - 1 \in c.from .. k /\ a - 1 \in PieceNumbers
    BY <1>1, <1>2, <1>4, <1>6, ChunkerAssumption DEF PieceNumbers
  <2>2. a - 1 \notin S
    BY <1>3, <1>4
  <2>3. ~(r <= LineOf(c, a - 1)) /\ r <= LineOf(c, a)
    BY <1>3, <2>1, <2>2
  <2>4. rows[a - 1] \in Nat /\ rows[a] <= rows[a - 1] + 1
    BY <1>4, <2>1, FileParts
  <2>5. LineOf(c, a) = r /\ rows[a - 1] # rows[a]
    BY <1>4, <2>3, <2>4 DEF LineOf
  <2> QED
    BY <1>4, <2>5 DEF LineBegins
<1> QED
  BY <1>5, <1>6

LEMMA LastOnLine ==
    ASSUME FileOk, NEW c, ChunkOk(c), NEW k \in c.from .. c.to,
           NEW r \in Nat, LineOf(c, k) <= r, r <= LineOf(c, c.to)
    PROVE  \E b \in k .. c.to : LineOf(c, b) = r /\ LineEnds(c, b)
<1> DEFINE S == {m \in 0 .. c.to - k : LineOf(c, c.to - m) <= r}
<1>1. c.from \in PieceNumbers /\ c.to \in PieceNumbers /\ PieceNumbers \subseteq Nat
  BY FileParts DEF ChunkOk
<1>0. c.from \in Nat /\ c.to \in Nat
  BY <1>1
<1>2. /\ k \in Nat /\ c.to - (c.to - k) = k
      /\ c.from <= k /\ k <= c.to
      /\ c.to - k \in 0 .. c.to - k
  BY <1>0
<1>3. c.to - k \in S /\ S \in SUBSET Nat
  BY <1>0, <1>2
<1>4. PICK m \in S : \A l \in S : m <= l
  BY <1>3, LeastElement
<1> DEFINE b == c.to - m
<1>5. m \in 0 .. c.to - k /\ LineOf(c, b) <= r
  BY <1>4
<1>6. /\ b \in k .. c.to /\ b \in PieceNumbers /\ b \in Nat /\ c.to \in Nat /\ c.from \in Nat
      /\ rows[b] \in Nat /\ rows[c.from] \in Nat
  <2>1. b \in k .. c.to /\ b \in c.from .. c.to
    BY <1>0, <1>2, <1>5
  <2>2. b \in PieceNumbers
    BY <1>1, <2>1, ChunkerAssumption DEF PieceNumbers
  <2> QED
    BY <1>1, <2>1, <2>2, FileParts
<1>7. CASE b = c.to
  <2>1. LineOf(c, b) = r
    BY <1>5, <1>6, <1>7 DEF LineOf
  <2> QED
    BY <1>6, <1>7, <2>1 DEF LineEnds
<1>8. CASE b # c.to
  <2>1. m - 1 \in 0 .. c.to - k /\ c.to - (m - 1) = b + 1
    BY <1>1, <1>2, <1>5, <1>6, <1>8
  <2>2. m - 1 \notin S
    BY <1>3, <1>4, <1>5
  <2>3. ~(LineOf(c, b + 1) <= r)
    BY <2>1, <2>2
  <2>4. b + 1 \in PieceNumbers /\ (b + 1) - 1 = b
    BY <1>1, <1>6, <1>8, ChunkerAssumption DEF PieceNumbers
  <2>5. rows[b + 1] \in Nat /\ rows[b + 1] <= rows[b] + 1
    BY <1>6, <2>4, FileParts
  <2> HIDE DEF b
  <2>7. rows[b] - rows[c.from] <= r /\ ~(rows[b + 1] - rows[c.from] <= r)
    BY <1>5, <2>3 DEF LineOf
  <2>8. \A x, y, z \in Nat : x - z <= r /\ ~(y - z <= r) /\ y <= x + 1
                             => x - z = r /\ y # x
    OBVIOUS
  <2>6. rows[b] - rows[c.from] = r /\ rows[b + 1] # rows[b]
    BY <1>6, <2>5, <2>7, <2>8
  <2> QED
    BY <1>6, <2>6 DEF LineEnds, LineOf
<1> QED
  BY <1>7, <1>8

LEMMA SegmentStarts ==
    ASSUME NEW l \in Nat
    PROVE  \E r \in Nat : r <= l /\ l < r + linesPerChunk /\ r % linesPerChunk = 0
<1>1. linesPerChunk \in Nat \ {0}
  BY ChunkerAssumption
<1> DEFINE q == l \div linesPerChunk
<1>2. q \in Nat /\ q * linesPerChunk <= l /\ l < q * linesPerChunk + linesPerChunk
  BY <1>1
<1> HIDE DEF q
<1>3. q * linesPerChunk \in Nat /\ (q * linesPerChunk) % linesPerChunk = 0
  BY <1>1, <1>2
<1> QED
  BY <1>2, <1>3

(* splitByLines leaves no long piece out: its segment is as long, at least. *)
LEMMA SplitHolds ==
    ASSUME FileOk, NEW c, ChunkOk(c), NEW k \in c.from .. c.to, Long(k)
    PROVE  Holds(splitByLines(c), k)
<1>1. CASE LineOf(c, c.to) = 0
  BY <1>1 DEF splitByLines, Holds
<1>2. CASE LineOf(c, c.to) # 0
  <2> DEFINE l == LineOf(c, k)
             m == LineOf(c, c.to)
             L == linesPerChunk
  <2>1. /\ c.from \in PieceNumbers /\ c.to \in PieceNumbers
        /\ c.from \in Nat /\ c.to \in Nat
    BY FileParts DEF ChunkOk
  <2>2. k \in PieceNumbers /\ k \in Nat /\ c.from <= k /\ k <= c.to
    BY <2>1, ChunkerAssumption DEF PieceNumbers
  <2>3. l \in Nat /\ m \in Nat /\ l <= m
    <3>1. /\ rows[c.from] \in Nat /\ rows[k] \in Nat /\ rows[c.to] \in Nat
          /\ rows[c.from] <= rows[k] /\ rows[k] <= rows[c.to]
      BY <2>1, <2>2, FileParts
    <3> QED
      BY <3>1 DEF LineOf
  <2> HIDE DEF l, m
  <2>4. PICK r \in Nat : r <= l /\ l < r + L /\ r % L = 0
    BY <2>3, SegmentStarts
  <2> DEFINE e == IF r + L > m + 1 THEN m ELSE r + L - 1
  <2>5. e \in Nat /\ l <= e /\ e <= m
    BY <2>3, <2>4, ChunkerAssumption
  <2>6. PICK a \in c.from .. k : LineOf(c, a) = r /\ LineBegins(c, a)
    BY <2>4, FirstOnLine DEF l
  <2>7. PICK b \in k .. c.to : LineOf(c, b) = e /\ LineEnds(c, b)
    BY <2>5, LastOnLine DEF l, m
  <2>8. /\ a \in c.from .. c.to /\ b \in c.from .. c.to /\ a <= b /\ k \in a .. b
        /\ a \in PieceNumbers /\ b \in PieceNumbers
    BY <2>1, <2>2, ChunkerAssumption DEF PieceNumbers
  <2>9. Size(a, b) >= minChunkSize
    <3>1. Size(a, b) >= Size(k, k)
      BY <2>8, SizeOfPart
    <3>3. /\ a - 1 \in 0 .. MaxPiece /\ b \in 0 .. MaxPiece
          /\ k - 1 \in 0 .. MaxPiece /\ k \in 0 .. MaxPiece
      BY <2>2, <2>8, ChunkerAssumption DEF PieceNumbers
    <3>4. /\ offset[a - 1] \in Nat /\ offset[b] \in Nat
          /\ offset[k - 1] \in Nat /\ offset[k] \in Nat
      BY <3>3, FileParts
    <3>2. Size(a, b) \in Int /\ Size(k, k) \in Int
      BY <3>4 DEF Size
    <3> QED
      BY <3>1, <3>2, ChunkerAssumption DEF Long
  <2>10. \/ LineOf(c, b) = LineOf(c, a) + L - 1
         \/ LineOf(c, b) = (m + 1) - 1 /\ LineOf(c, a) + L > m + 1
    BY <2>3, <2>6, <2>7
  <2>11. <<a, b>> \in Segments(c)
    BY <2>4, <2>6, <2>7, <2>8, <2>9, <2>10 DEF Segments, m
  <2>12. Part(c, c.first + LineOf(c, a), c.first + LineOf(c, b), a, b) \in splitByLines(c)
    BY <1>2, <2>11 DEF splitByLines
  <2> QED
    BY <2>8, <2>12 DEF Holds, Part
<1> QED
  BY <1>1, <1>2

(* splitLargeChunk: a child of the second parse is a part, and split if it is
   large. *)
LEMMA LargeIsOk ==
    ASSUME FileOk, NEW c, ChunkOk(c), NEW children \in Reparsed(c)
    PROVE  /\ \A p \in splitLargeChunk(c, children) : ChunkOk(p)
           /\ \A k \in c.from .. c.to :
                 Long(k) /\ (children # {} => \E n \in children : k \in n.from .. n.to)
                     => Holds(splitLargeChunk(c, children), k)
<1> DEFINE part(n) == Part(c, c.first + LineOf(c, n.from), c.first + LineOf(c, n.to),
                           n.from, n.to)
           pieces(n) == IF Size(n.from, n.to) <= maxChunkSize THEN {part(n)}
                        ELSE splitByLines(part(n))
<1>1. CASE children = {}
  <2>1. splitLargeChunk(c, children) = splitByLines(c)
    BY <1>1 DEF splitLargeChunk
  <2> QED
    BY <1>1, <2>1, SplitIsOk, SplitHolds
<1>2. CASE children # {}
  <2>1. splitLargeChunk(c, children) = UNION {pieces(n) : n \in children}
    BY <1>2 DEF splitLargeChunk
  <2>2. ASSUME NEW n \in children PROVE ChunkOk(part(n))
    <3>1. /\ n.from \in PieceNumbers /\ n.to \in PieceNumbers /\ n.from <= n.to
          /\ c.from <= n.from /\ n.to <= c.to
      BY DEF Reparsed, Apart, Inside
    <3>2. c.from \in PieceNumbers /\ c.to \in PieceNumbers
      BY DEF ChunkOk
    <3>3. n.from \in c.from .. c.to /\ n.to \in c.from .. c.to
      BY <3>1, <3>2, ChunkerAssumption DEF PieceNumbers
    <3> QED
      BY <3>1, <3>3, PartIsOk
  <2>3. ASSUME NEW n \in children, NEW p \in pieces(n) PROVE ChunkOk(p)
    <3>1. CASE Size(n.from, n.to) <= maxChunkSize
      BY <2>2, <2>3, <3>1
    <3>2. CASE ~(Size(n.from, n.to) <= maxChunkSize)
      <4>1. p \in splitByLines(part(n)) /\ ChunkOk(part(n))
        BY <2>2, <2>3, <3>2
      <4> QED
        BY <4>1, SplitIsOk
    <3> QED
      BY <3>1, <3>2
  <2>4. ASSUME NEW n \in children, NEW k \in n.from .. n.to, Long(k)
        PROVE  Holds(pieces(n), k)
    <3>1. part(n).from = n.from /\ part(n).to = n.to /\ ChunkOk(part(n))
      BY <2>2 DEF Part
    <3> HIDE DEF part
    <3>2. CASE Size(n.from, n.to) <= maxChunkSize
      BY <2>4, <3>1, <3>2 DEF Holds
    <3>3. CASE ~(Size(n.from, n.to) <= maxChunkSize)
      BY <2>4, <3>1, <3>3, SplitHolds
    <3> QED
      BY <3>2, <3>3
  <2> HIDE DEF pieces
  <2>5. \A k : Long(k) /\ (\E n \in children : k \in n.from .. n.to)
                   => Holds(UNION {pieces(n) : n \in children}, k)
    <3> SUFFICES ASSUME NEW k, Long(k), NEW n \in children, k \in n.from .. n.to
                 PROVE  Holds(UNION {pieces(i) : i \in children}, k)
      OBVIOUS
    <3>1. PICK p \in pieces(n) : k \in p.from .. p.to
      BY <2>4 DEF Holds
    <3> QED
      BY <3>1 DEF Holds
  <2> QED
    BY <1>2, <2>1, <2>3, <2>5
<1> QED
  BY <1>1, <1>2

-----------------------------------------------------------------------------
LEMMA FileArrivesKeeps == ChunkInv /\ FileArrives => ChunkInv'
<1>1. FileOk => CollectedGood
  BY CollectedIsGood
<1>2. FileOk' => CollectedGood'
  BY <1>1, PTL
<1> SUFFICES ASSUME ChunkInv, FileArrives PROVE ChunkInv'
  OBVIOUS
<1>3. nodes = <<>> /\ FileOk' /\ unsplit' = Collected' /\ UNCHANGED <<chunks, docs, uncovered>>
  BY DEF FileArrives, FileOk
<1>4. ~FileInv
  <2>1. FileOk => nodes # <<>>
    <3> SUFFICES ASSUME FileOk PROVE nodes # <<>>
      OBVIOUS
    <3>1. PICK n \in Nat \ {0} : DOMAIN nodes = 1 .. n
      BY FileParts
    <3>2. 1 \in DOMAIN nodes
      BY <3>1
    <3> QED
      BY <3>2
  <2> QED
    BY <1>3, <2>1 DEF FileInv
<1>5. chunks' = {} /\ docs' = {}
  BY <1>3, <1>4 DEF ChunkInv
<1>6. CollectedGood'
  BY <1>2, <1>3
<1>7. (\A c \in unsplit \cup chunks : ChunkOk(c))'
  BY <1>3, <1>5, <1>6 DEF CollectedGood
<1>8. (\A k \in PieceNumbers : Wanted(k) => Holds(unsplit \cup chunks, k))'
  <2>1. (unsplit \cup chunks)' = Collected'
    BY <1>3, <1>5
  <2>2. (\A k : Declared(k) => Holds(Collected, k))'
    BY <1>6 DEF CollectedGood
  <2> QED
    BY <2>1, <2>2 DEF Wanted, Holds
<1> QED
  BY <1>3, <1>5, <1>7, <1>8 DEF ChunkInv, FileInv

(* Keeping and splitting at once: some chunks take the place of one. *)
LEMMA ChunkMoved ==
    ASSUME FileInv, NEW c \in unsplit, NEW parts,
           chunks' = chunks \cup parts, unsplit' = unsplit \ {c},
           UNCHANGED <<nodes, rows, offset, docs>>,
           uncovered \subseteq uncovered',
           \A p \in parts : ChunkOk(p),
           \A k \in c.from .. c.to : Long(k) /\ k \notin uncovered' => Holds(parts, k)
    PROVE  FileInv'
<1>1. docs = {}
  BY DEF FileInv
<1>2. /\ FileOk' = FileOk
      /\ \A p : ChunkOk(p)' <=> ChunkOk(p)
      /\ \A k : Long(k)' <=> Long(k)
      /\ \A k : Declared(k)' <=> Declared(k)
  BY DEF FileOk, ChunkOk, Long, Size, Declared
<1>3. \A p \in (unsplit \cup chunks)' : ChunkOk(p)'
  BY <1>2 DEF FileInv
<1>4. ASSUME NEW k \in PieceNumbers, Wanted(k)' PROVE Holds(unsplit' \cup chunks', k)
  <2>1. Declared(k) /\ Long(k) /\ k \notin uncovered'
    BY <1>2, <1>4 DEF Wanted
  <2>2. PICK d \in unsplit \cup chunks : k \in d.from .. d.to
    BY <2>1 DEF FileInv, Wanted, Holds
  <2>3. CASE d = c
    <3>1. Holds(parts, k)
      BY <2>1, <2>2, <2>3
    <3> QED
      BY <3>1 DEF Holds
  <2>4. CASE d # c
    BY <2>2, <2>4 DEF Holds
  <2> QED
    BY <2>3, <2>4
<1> QED
  BY <1>1, <1>2, <1>3, <1>4 DEF FileInv, Holds

LEMMA ChunkStays == ChunkInv /\ [ChunkerNext]_chunkVars => ChunkInv'
<1> SUFFICES ASSUME ChunkInv, [ChunkerNext]_chunkVars PROVE ChunkInv'
  OBVIOUS
<1>1. CASE FileArrives
  BY <1>1, FileArrivesKeeps
<1>2. ASSUME NEW c \in unsplit, KeepChunk(c) PROVE ChunkInv'
  <2>1. FileInv
    BY DEF ChunkInv
  <2>2. /\ chunks' = chunks \cup {c} /\ unsplit' = unsplit \ {c}
        /\ UNCHANGED <<nodes, rows, offset, docs, uncovered>>
    BY <1>2 DEF KeepChunk
  <2>3. ChunkOk(c)
    BY <2>1 DEF FileInv
  <2>4. \A k \in c.from .. c.to : Holds({c}, k)
    BY DEF Holds
  <2>5. FileInv'
    BY <2>1, <2>2, <2>3, <2>4, ChunkMoved
  <2> QED
    BY <2>5 DEF ChunkInv
<1>3. ASSUME NEW c \in unsplit, SplitChunk(c) PROVE ChunkInv'
  <2>1. FileInv /\ FileOk /\ ChunkOk(c)
    BY DEF ChunkInv, FileInv
  <2>2. PICK children \in Reparsed(c) :
            /\ chunks' = chunks \cup splitLargeChunk(c, children)
            /\ uncovered' = uncovered \cup
                  {k \in c.from .. c.to :
                      children # {} /\ \A n \in children : k \notin n.from .. n.to}
    BY <1>3 DEF SplitChunk
  <2>3. unsplit' = unsplit \ {c} /\ UNCHANGED <<nodes, rows, offset, docs>>
    BY <1>3 DEF SplitChunk
  <2>4. /\ \A p \in splitLargeChunk(c, children) : ChunkOk(p)
        /\ \A k \in c.from .. c.to :
              Long(k) /\ (children # {} => \E n \in children : k \in n.from .. n.to)
                  => Holds(splitLargeChunk(c, children), k)
    BY <2>1, LargeIsOk
  <2>5. \A k \in c.from .. c.to : Long(k) /\ k \notin uncovered'
                                  => Holds(splitLargeChunk(c, children), k)
    BY <2>2, <2>4
  <2>6. uncovered \subseteq uncovered'
    BY <2>2
  <2>7. FileInv'
    BY <2>1, <2>2, <2>3, <2>4, <2>5, <2>6, ChunkMoved
  <2> QED
    BY <2>7 DEF ChunkInv
<1>4. CASE AddChunks
  <2>1. FileInv
    BY <1>4 DEF AddChunks, ChunkInv
  <2>2. /\ docs' \subseteq chunks /\ unsplit = {}
        /\ \A c \in chunks : \E d \in docs' : SameLines(c, d)
        /\ UNCHANGED <<nodes, rows, offset, unsplit, chunks, uncovered>>
    BY <1>4 DEF AddChunks
  <2>3. FileInv'
    BY <2>1, <2>2 DEF FileInv, FileOk, ChunkOk, Wanted, Declared, Long, Size, Holds
  <2> QED
    BY <2>3 DEF ChunkInv
<1>5. CASE UNCHANGED chunkVars
  BY <1>5 DEF chunkVars, ChunkInv, FileInv, FileOk, ChunkOk, Wanted, Declared, Long, Size,
              Holds
<1> QED
  BY <1>1, <1>2, <1>3, <1>4, <1>5 DEF ChunkerNext

(* DocsTrue: what splitLargeChunk and splitByLines make of the chunks of a file
   names the lines its text is on and is the declaration's own, and text long
   enough is in a document, unless no node of a second parse covers it or a
   document of the same lines has taken its place.  For any file and tree, any
   limits and any number of nodes in a second parse. *)
THEOREM StoredIsTrue == ChunkerSpec => []DocsTrue
<1>1. ChunkerInit => ChunkInv
  BY DEF ChunkerInit, ChunkInv
<1>2. ChunkInv /\ [ChunkerNext]_chunkVars => ChunkInv'
  BY ChunkStays
<1>3. ChunkInv => DocsTrue
  <2> SUFFICES ASSUME ChunkInv, docs # {} PROVE DocsTrue
    BY DEF DocsTrue, RangesTrue, LongTextFound
  <2>1. FileInv /\ FileOk
    BY DEF ChunkInv, FileInv
  <2>2. \A c \in chunks : ChunkOk(c)
    BY <2>1 DEF FileInv
  <2>3. RangesTrue
    BY <2>1, <2>2 DEF RangesTrue, FileInv, ChunkOk
  <2>4. ASSUME NEW i \in DOMAIN nodes, NEW k \in nodes[i].from .. nodes[i].to,
               nodes[i].kind # "other", Size(k, k) >= minChunkSize, k \notin uncovered
        PROVE  \E d \in docs :
                  /\ rows[k] \in d.first .. d.last
                  /\ \/ k \in d.from .. d.to
                     \/ \E c \in chunks \ docs : SameLines(c, d) /\ k \in c.from .. c.to
    <3>1. Wanted(k)
      BY <2>4 DEF Wanted, Declared, Long
    <3>2. nodes[i].from \in PieceNumbers /\ nodes[i].to \in PieceNumbers
      BY <2>1, FileParts
    <3>3. k \in PieceNumbers
      BY <3>2, ChunkerAssumption DEF PieceNumbers
    <3>4. PICK c \in chunks : k \in c.from .. c.to
      BY <2>1, <3>1, <3>3 DEF FileInv, Holds
    <3>5. PICK d \in docs : SameLines(c, d) /\ (c \in docs => d = c)
      <4>1. SameLines(c, c)
        BY DEF SameLines
      <4> QED
        BY <2>1, <3>4, <4>1 DEF FileInv
    <3>6. /\ c.from \in PieceNumbers /\ c.to \in PieceNumbers
          /\ c.first = rows[c.from] /\ c.last = rows[c.to]
      BY <2>2, <3>4 DEF ChunkOk
    <3>7. c.from <= k /\ k <= c.to
      BY <3>4, <3>6, ChunkerAssumption DEF PieceNumbers
    <3>8. /\ rows[c.from] <= rows[k] /\ rows[k] <= rows[c.to]
          /\ rows[c.from] \in Nat /\ rows[k] \in Nat /\ rows[c.to] \in Nat
      BY <2>1, <3>3, <3>6, <3>7, FileParts
    <3>9. rows[k] \in d.first .. d.last
      BY <3>5, <3>6, <3>8 DEF SameLines
    <3> QED
      BY <3>4, <3>5, <3>9
  <2> QED
    BY <2>3, <2>4 DEF DocsTrue, LongTextFound
<1> QED
  BY <1>1, <1>2, <1>3, PTL DEF ChunkerSpec
=============================================================================
