----------------------------- MODULE MemoryStore -----------------------------
(***************************************************************************)
(* The memory of facts (internal/memory, internal/tools/memory.go): a      *)
(* collection on disk of which every process keeps the copy it has loaded  *)
(* when it started.  memory_put stores what it is given; memory_extract    *)
(* has a model split a text into facts and stores those that are not too   *)
(* close to a stored one, a test and a write with nothing between them     *)
(* that keeps others out: the store's mutex covers each of the two alone.  *)
(*                                                                         *)
(* Similarity is a constant relation in place of embeddings and cosines.   *)
(***************************************************************************)
EXTENDS Naturals, SequencesExt

CONSTANTS
    Facts,      \* the texts of facts
    Near,       \* pairs of facts with a similarity above 0.93
    Alike,      \* pairs of facts with a similarity between 0.85 and 0.93
    Extracts,   \* memory_extract calls that may be at work at the same time
    Homes,      \* processes
    HomeOf,     \* the process that serves each of the extractions
    MaxStores   \* bound: calls, and restarts

ASSUME MemAssumption ==
    /\ HomeOf \in [Extracts -> Homes]
    /\ MaxStores \in Nat
    /\ "hand" \notin Extracts

VARIABLES
    collection, \* the documents on disk: a record per fact, or Absent
    loaded,     \* per process: its copy of the collection
    epc,        \* per extraction: "idle", "llm", "query", "verdict", "put"
    extracted,  \* per extraction: the facts it has not dealt with yet
    calls,      \* number of calls and restarts so far
    unchecked,  \* history: facts stored by hand, or by an extraction whose
                \* test failed or was no longer true when it stored them
    blind       \* history, per extraction: its latest test is such a test

memVars == <<collection, loaded, epc, extracted, calls, unchecked, blind>>

Absent == [created |-> 0, recalls |-> 0]
Stored(docs) == {f \in Facts : docs[f] # Absent}
IsNear(f, g)  == f = g \/ <<f, g>> \in Near \/ <<g, f>> \in Near
IsAlike(f, g) == <<f, g>> \in Alike \/ <<g, f>> \in Alike

MemInit ==
    /\ collection = [f \in Facts |-> Absent]
    /\ loaded = [p \in Homes |-> collection]
    /\ epc = [e \in Extracts |-> "idle"]
    /\ extracted = [e \in Extracts |-> <<>>]
    /\ calls = 0
    /\ unchecked = {}
    /\ blind = [e \in Extracts |-> FALSE]

MemCall == calls < MaxStores /\ calls' = calls + 1
MemGoto(e, from, to) == epc[e] = from /\ epc' = [epc EXCEPT ![e] = to]

-----------------------------------------------------------------------------
(* Memory.Put: the document of a fact that is there already is replaced. *)
Put(p, f) ==
    LET doc == [created |-> calls + 1, recalls |-> 0]
    IN /\ collection' = [collection EXCEPT ![f] = doc]
       /\ loaded' = [loaded EXCEPT ![p][f] = doc]

Interferes(e) == [x \in Extracts |->
                     IF x # e /\ epc[x] \in {"verdict", "put"} THEN TRUE
                     ELSE blind[x]]

MemoryPut(p, f) ==
    /\ MemCall
    /\ Put(p, f)
    /\ unchecked' = unchecked \cup {f}
    /\ blind' = Interferes("hand")
    /\ UNCHANGED <<epc, extracted>>

(* Bug: what is recalled is stored as if it were new. *)
RetrieveAnew(p, kept) ==
    LET again == [f \in Facts |->
            IF f \in kept THEN [created |-> calls + 1, recalls |-> 1]
            ELSE loaded[p][f]]
    IN /\ loaded' = [loaded EXCEPT ![p] = again]
       /\ collection' = [f \in Facts |-> IF f \in kept THEN again[f]
                                         ELSE collection[f]]

(* Memory.Retrieve of at most ten facts: every one is added again with a
   recall more, and what cannot be (not in kept) is returned all the same. *)
Retrieve(p, kept) ==
    LET again == [f \in Facts |->
            IF f \in kept THEN [loaded[p][f] EXCEPT !.recalls = @ + 1]
            ELSE loaded[p][f]]
    IN /\ loaded' = [loaded EXCEPT ![p] = again]
       /\ collection' = [f \in Facts |-> IF f \in kept THEN again[f]
                                         ELSE collection[f]]

RelevantMemory(p) ==
    /\ MemCall
    /\ \E kept \in SUBSET Stored(loaded[p]) : Retrieve(p, kept)
    /\ UNCHANGED <<epc, extracted, unchecked, blind>>

-----------------------------------------------------------------------------
(* MemoryExtractHandler. *)

ExtractBegins(e) ==
    /\ MemCall
    /\ MemGoto(e, "idle", "llm")
    /\ UNCHANGED <<collection, loaded, extracted, unchecked, blind>>

(* The facts that the model makes out; it may fail, or find none. *)
ChatCompletion(e) ==
    /\ epc[e] = "llm"
    /\ \/ /\ \E fs \in BoundedSeq(Facts, 2) \ {<<>>} :
                extracted' = [extracted EXCEPT ![e] = fs]
          /\ epc' = [epc EXCEPT ![e] = "query"]
       \/ epc' = [epc EXCEPT ![e] = "idle"] /\ UNCHANGED extracted
    /\ UNCHANGED <<collection, loaded, calls, unchecked, blind>>

(* On to the next fact, or the answer. *)
NextFact(e) ==
    /\ extracted' = [extracted EXCEPT ![e] = Tail(@)]
    /\ epc' = [epc EXCEPT ![e] = IF Len(extracted[e]) = 1 THEN "idle"
                                 ELSE "query"]

(* Bug: only a fact that is very like a stored one is looked at. *)
QuerySimilarAlone(e) ==
    /\ epc[e] = "query"
    /\ LET p == HomeOf[e]
           f == Head(extracted[e])
           similar == {g \in Stored(loaded[p]) : IsNear(f, g) \/ IsAlike(f, g)}
       IN \/ /\ similar # {} /\ \A g \in similar : IsNear(f, g)
             /\ NextFact(e)
             /\ UNCHANGED blind
          \/ /\ \E g \in similar : IsAlike(f, g)
             /\ epc' = [epc EXCEPT ![e] = "verdict"]
             /\ blind' = [blind EXCEPT ![e] = loaded[p] # collection]
             /\ UNCHANGED extracted
          \/ /\ similar = {}
             /\ epc' = [epc EXCEPT ![e] = "put"]
             /\ blind' = [blind EXCEPT ![e] = loaded[p] # collection]
             /\ UNCHANGED extracted
    /\ UNCHANGED <<collection, loaded, calls, unchecked>>

(* QuerySimilar: the most similar fact is near, or alike, or there is none;
   an error leaves the list empty. *)
QuerySimilar(e) ==
    /\ epc[e] = "query"
    /\ LET p == HomeOf[e]
           f == Head(extracted[e])
           near  == \E g \in Stored(loaded[p]) : IsNear(f, g)
           alike == \E g \in Stored(loaded[p]) : IsAlike(f, g)
       IN \/ /\ near
             /\ NextFact(e)
             /\ UNCHANGED blind
          \/ /\ ~near
             /\ epc' = [epc EXCEPT ![e] = IF alike THEN "verdict" ELSE "put"]
             /\ blind' = [blind EXCEPT ![e] = loaded[p] # collection]
             /\ UNCHANGED extracted
          \/ /\ epc' = [epc EXCEPT ![e] = "put"]
             /\ blind' = [blind EXCEPT ![e] = TRUE]
             /\ UNCHANGED extracted
    /\ UNCHANGED <<collection, loaded, calls, unchecked>>

(* The model is asked whether the fact is new; no answer counts as new. *)
Verdict(e) ==
    /\ epc[e] = "verdict"
    /\ \/ NextFact(e)
       \/ epc' = [epc EXCEPT ![e] = "put"] /\ UNCHANGED extracted
    /\ UNCHANGED <<collection, loaded, calls, unchecked, blind>>

PutExtracted(e) ==
    /\ epc[e] = "put"
    /\ LET f == Head(extracted[e])
       IN \/ /\ Put(HomeOf[e], f)
             /\ unchecked' = IF blind[e] THEN unchecked \cup {f}
                             ELSE unchecked \ {f}
             /\ blind' = Interferes(e)
          \/ UNCHANGED <<collection, loaded, unchecked, blind>>
    /\ NextFact(e)
    /\ UNCHANGED calls

(* NewMemory in a process that starts again. *)
MemRestart(p) ==
    /\ MemCall
    /\ loaded' = [loaded EXCEPT ![p] = collection]
    /\ epc' = [e \in Extracts |-> IF HomeOf[e] = p THEN "idle" ELSE epc[e]]
    /\ extracted' = [e \in Extracts |-> IF HomeOf[e] = p THEN <<>>
                                        ELSE extracted[e]]
    /\ UNCHANGED <<collection, unchecked, blind>>

MemNext ==
    \/ \E p \in Homes :
          \/ RelevantMemory(p) \/ MemRestart(p)
          \/ \E f \in Facts : MemoryPut(p, f)
    \/ \E e \in Extracts :
          \/ ExtractBegins(e) \/ ChatCompletion(e) \/ QuerySimilar(e)
          \/ Verdict(e) \/ PutExtracted(e)

MemSpec == MemInit /\ [][MemNext]_memVars

-----------------------------------------------------------------------------
(* memory_extract never stores a fact beside one that is nearly identical to
   it, unless the test for one failed, or something was stored between the
   test and the write, or by another process since this one started.  Facts
   stored by hand are not tested.  (memory.go:170-208.) *)
TwinsOnlyUnchecked ==
    \A f, g \in Stored(collection) :
        f # g /\ IsNear(f, g) => {f, g} \cap unchecked # {}

(* Recalling a fact counts, and leaves its age and the counts of the facts
   alone that are not recalled; only storing a fact again, or a process that
   has not seen another's changes, makes it lose them.  (Retrieve adds every
   document again.) *)
RecallKeepsAge ==
    [][\A f \in Facts :
          collection[f] # Absent /\ collection'[f] # collection[f] =>
             \/ collection'[f] = [collection[f] EXCEPT !.recalls = @ + 1]
             \/ \E p \in Homes : MemoryPut(p, f)
             \/ \E e \in Extracts : PutExtracted(e)
             \/ \E p \in Homes : loaded[p][f] # collection[f]]_memVars

(* The types, that no document is of a later call than the next, and that an
   extraction has a fact in hand in each pass of the loop of
   MemoryExtractHandler. *)
MemTypeOK ==
    LET Doc == [created : 0 .. calls + 1, recalls : 0 .. calls]
    IN /\ calls \in 0 .. MaxStores
       /\ collection \in [Facts -> Doc]
       /\ loaded \in [Homes -> [Facts -> Doc]]
       /\ epc \in [Extracts -> {"idle", "llm", "query", "verdict", "put"}]
       /\ extracted \in [Extracts -> Seq(Facts)]
       /\ \A e \in Extracts :
             epc[e] \in {"query", "verdict", "put"} => extracted[e] # <<>>
       /\ unchecked \subseteq Facts
       /\ blind \in [Extracts -> BOOLEAN]
=============================================================================
