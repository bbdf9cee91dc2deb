----------------------------- MODULE CodeSearch -----------------------------
(***************************************************************************)
(* A query to the code index (HandleRetrieve in internal/indexer/          *)
(* indexer.go): the searchCount nearest documents, scored again by the     *)
(* reranker if there is one and it answers, sorted, and cut to             *)
(* resultCount.  The store and the reranker are not ours: the one fails    *)
(* when it is asked for more documents than it has, the other may leave    *)
(* documents out, and its scores may be below zero.                        *)
(***************************************************************************)
EXTENDS Integers, SequencesExt, FiniteSetsExt, Folds

CONSTANTS
    MaxDocs,        \* bound: documents in the store
    Scores,         \* bound: scores and similarities
    searchCount, resultCount

ASSUME SearchAssumption ==
    /\ MaxDocs \in Nat /\ searchCount \in Nat /\ resultCount \in Nat
    /\ Scores \subseteq Int

VARIABLES
    similarity,     \* per document, the nearest first
    ranked,         \* what the reranker gave: documents to scores
    results,        \* the candidates, [doc, score], in their order
    cstep           \* "ask", "candidates", "sort", "cut", "answered", "failed"

searchVars == <<similarity, ranked, results, cstep>>

SearchInit ==
    /\ similarity = <<>>
    /\ ranked = <<>>
    /\ results = <<>>
    /\ cstep = "ask"

SearchGoto(from, to) == cstep = from /\ cstep' = to

(* GetEmbeddingOpenAI, store.Search: the candidates, or an error. *)
Search ==
    /\ \E n \in 0 .. MaxDocs :
          /\ similarity' \in {s \in [1 .. n -> Scores] :
                                 \A i, j \in 1 .. n : i < j => s[i] >= s[j]}
          /\ \/ n >= searchCount /\ SearchGoto("ask", "candidates")
             \/ n < searchCount /\ SearchGoto("ask", "failed")
    /\ UNCHANGED <<ranked, results>>

Candidates == 1 .. searchCount

ScoredBy(score) == [i \in Candidates |-> [doc |-> i, score |-> score[i]]]

(* There is no reranker, or it fails: the order is the store's. *)
KeepSimilarity ==
    /\ SearchGoto("candidates", "cut")
    /\ results' = ScoredBy(similarity)
    /\ UNCHANGED <<similarity, ranked>>

(* A candidate the reranker says nothing of has score zero. *)
Rerank ==
    /\ SearchGoto("candidates", "sort")
    /\ \E known \in SUBSET Candidates : ranked' \in [known -> Scores]
    /\ results' = ScoredBy([i \in Candidates |->
                               IF i \in DOMAIN ranked' THEN ranked'[i] ELSE 0])
    /\ UNCHANGED similarity

(* Bug: one pass over neighbours. *)
SortOnce ==
    LET compare(rs, i) ==
            IF rs[i + 1].score > rs[i].score
            THEN [rs EXCEPT ![i] = rs[i + 1], ![i + 1] = rs[i]] ELSE rs
    IN /\ SearchGoto("sort", "cut")
       /\ results' = FoldLeft(compare, results, [i \in 1 .. Len(results) - 1 |-> i])
       /\ UNCHANGED <<similarity, ranked>>

(* sortResults: each place against all that come after it. *)
Sort ==
    LET n == Len(results)
        compare(rs, k) ==
            LET i == ((k - 1) \div n) + 1
                j == ((k - 1) % n) + 1
            IN IF i < j /\ rs[j].score > rs[i].score
               THEN [rs EXCEPT ![i] = rs[j], ![j] = rs[i]] ELSE rs
    IN /\ SearchGoto("sort", "cut")
       /\ results' = FoldLeft(compare, results, [k \in 1 .. n * n |-> k])
       /\ UNCHANGED <<similarity, ranked>>

Cut ==
    /\ SearchGoto("cut", "answered")
    /\ results' = SubSeq(results, 1, Min({resultCount, Len(results)}))
    /\ UNCHANGED <<similarity, ranked>>

SearchNext == Search \/ KeepSimilarity \/ Rerank \/ Sort \/ Cut

SearchSpec == SearchInit /\ [][SearchNext]_searchVars

-----------------------------------------------------------------------------
(* The answer has the best first, each document once, and nothing that was left
   out is better than what is in it, by the reranker's word where it gave one
   and by similarity where it gave none at all.  A candidate that it said
   nothing of may push out one it gave a score below zero.
   (indexer.go:291-330, 639-647.) *)
BestFirst ==
    cstep = "answered" =>
        LET n == Len(results)
            score(d) == IF ranked = <<>> THEN similarity[d] ELSE ranked[d]
            judged == {d \in Candidates : ranked = <<>> \/ d \in DOMAIN ranked}
            given == {results[i].doc : i \in 1 .. n}
        IN /\ \A i, j \in 1 .. n :
                 i < j => /\ results[i].doc # results[j].doc
                          /\ results[i].score >= results[j].score
           /\ \A d \in judged \ given : \A g \in judged \cap given :
                 score(g) >= score(d)
=============================================================================
