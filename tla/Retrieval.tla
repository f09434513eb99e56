----------------------------- MODULE Retrieval -----------------------------
(***************************************************************************)
(* The chunks of one chat turn, from the two searches to the excerpts that *)
(* the user sees behind the markers of the answer, while re-ingestion and  *)
(* deletion of documents remove chunk rows.                                *)
(*                                                                         *)
(* An excerpt goes by different keys on its way: its rank in a search, its *)
(* place among the candidates, the index the reranker returns, its number  *)
(* in the prompt, the marker of a citation row and the key of the client's *)
(* map.  What a search may list is the subject of Bm25Cache and Ingestion; *)
(* here it lists any chunks, with or without a row.                        *)
(*                                                                         *)
(* UnorderedRows and NumberedByPlace are no part of the specification:     *)
(* each stands before the definition it gets wrong.                        *)
(***************************************************************************)
EXTENDS RankFusion

CONSTANTS
  Chunks,      \* chunk ids
  SearchTopK,  \* RETRIEVAL_DENSE_TOP_K and RETRIEVAL_SPARSE_TOP_K
  FusedTopK,   \* RETRIEVAL_FUSED_TOP_K
  RerankTopN,  \* RETRIEVAL_RERANK_TOP_N
  MaxMarkers   \* bound on the markers of an answer

ASSUME RetrievalAssumption ==
  /\ IsFiniteSet(Chunks)
  /\ SearchTopK \in 1..MaxRank /\ FusedTopK \in Nat \ {0} /\ RerankTopN \in Nat \ {0}
  /\ MaxMarkers \in Nat

VARIABLES
  rows,       \* chunks that have a row
  pc,         \* the next step of the turn
  dense,      \* dense_ranking
  sparse,     \* sparse_ranking
  fused,      \* what hybrid_retrieve returns
  candidates, \* context_chunks after hybrid_retrieve_node
  context,    \* context_chunks after rerank_node, the excerpts of the prompt
  indices,    \* cited_indices
  citations,  \* rows <<marker_index, chunk_id>>
  live,       \* citationsByIndex after the done event
  reloaded    \* citationsByIndex after a reload of the conversation

searches == <<dense, sparse, fused>>
shown    == <<live, reloaded>>
vars     == <<rows, pc, searches, candidates, context, indices, citations, shown>>

Empty == [n \in {} |-> 0]

Init ==
  /\ rows \in SUBSET Chunks
  /\ pc = "search"
  /\ dense = <<>> /\ sparse = <<>> /\ fused = <<>>
  /\ candidates = <<>> /\ context = <<>> /\ indices = <<>>
  /\ citations = {}
  /\ live = Empty /\ reloaded = Empty

(* the rows or points that a search may list, the best SearchTopK of them *)
Listing(n) == Rankings(Chunks, n)

(* The searches run at once; neither reads what the other wrote. *)
Search ==
  /\ pc = "search"
  /\ \E n, m \in 0..SearchTopK : dense' \in Listing(n) /\ sparse' \in Listing(m)
  /\ fused' = Cut(Fuse(dense', sparse'), FusedTopK)
  /\ pc' = "lookup"
  /\ UNCHANGED <<rows, candidates, context, indices, citations, shown>>

(* mutant: the rows in the order the database returns them *)
UnorderedRows(s) == CHOOSE r \in Rankings(Items(s) \intersect rows, Cardinality(Items(s) \intersect rows)) : TRUE

(* the elements of s at the indices kept, in their order *)
At(s, kept) ==
  [n \in 1..Cardinality(kept) |-> s[CHOOSE i \in kept : Cardinality({j \in kept : j <= i}) = n]]

(* by_id: a chunk without a row is skipped. *)
WithRow(s) == At(s, {i \in DOMAIN s : s[i] \in rows})

HybridRetrieveNode ==
  /\ pc = "lookup"
  /\ candidates' = WithRow(fused)
  /\ pc' = "rerank"
  /\ UNCHANGED <<rows, searches, context, indices, citations, shown>>

(* What a provider returns: distinct indices into its documents, the best  *)
(* RerankTopN; without a provider, the first ones.                         *)
Reranking(n) == Rankings(1..n, IF n < RerankTopN THEN n ELSE RerankTopN)

(* The rankings and the candidates are local to the nodes, and gone. *)
RerankNode ==
  /\ pc = "rerank"
  /\ \E order \in Reranking(Len(candidates)) :
       context' = [i \in DOMAIN order |-> candidates[order[i]]]
  /\ dense' = <<>> /\ sparse' = <<>> /\ fused' = <<>> /\ candidates' = <<>>
  /\ pc' = "answer"
  /\ UNCHANGED <<rows, indices, citations, shown>>

(* _extract_cited_indices: the markers that number an excerpt, once each *)
ExtractCitedIndices(markers) ==
  LET new(i) == markers[i] \in DOMAIN context /\ \A j \in 1..(i - 1) : markers[j] # markers[i]
  IN  At(markers, {i \in DOMAIN markers : new(i)})

(* The model writes any numbers in brackets. *)
Answer ==
  /\ pc = "answer"
  /\ \E n \in 0..MaxMarkers : \E markers \in [1..n -> 0..(RerankTopN + 1)] :
       indices' = ExtractCitedIndices(markers)
  /\ pc' = "persist"
  /\ UNCHANGED <<rows, searches, candidates, context, citations, shown>>

(* mutant: a citation row is numbered by its place in the answer *)
NumberedByPlace(i) == <<i, context[indices[i]]>>

Citation(i) == <<indices[i], context[indices[i]]>>

(* The foreign key: every cited chunk still has its row. *)
Persist ==
  /\ pc = "persist"
  /\ \A i \in DOMAIN indices : context[indices[i]] \in rows
  /\ citations' = {Citation(i) : i \in DOMAIN indices}
  /\ pc' = "done"
  /\ UNCHANGED <<rows, searches, candidates, context, indices, shown>>

(* A cited chunk has no row any more, or the save fails otherwise. *)
PersistFail ==
  /\ pc = "persist"
  /\ pc' = "error"
  /\ UNCHANGED <<rows, searches, candidates, context, indices, citations, shown>>

Excerpt(n) == context[n]

(* The done event carries context_chunks and cited_indices. *)
ShowDone ==
  /\ pc = "done"
  /\ live' = [n \in Items(indices) |-> Excerpt(n)]
  /\ pc' = "shown"
  /\ UNCHANGED <<rows, searches, candidates, context, indices, citations, reloaded>>

(* citationsByIndexFromMessage *)
Reload ==
  /\ pc = "shown"
  /\ reloaded' = [n \in {c[1] : c \in citations} |-> (CHOOSE c \in citations : c[1] = n)[2]]
  /\ pc' = "reloaded"
  /\ UNCHANGED <<rows, searches, candidates, context, indices, citations, live>>

(* A document is re-ingested or deleted; citations of its chunks cascade. *)
RemoveChunk(x) ==
  /\ x \in rows
  /\ rows' = rows \ {x}
  /\ citations' = {c \in citations : c[2] # x}
  /\ UNCHANGED <<pc, searches, candidates, context, indices, shown>>

Next ==
  \/ Search \/ HybridRetrieveNode \/ RerankNode
  \/ Answer \/ Persist \/ PersistFail
  \/ ShowDone \/ Reload
  \/ \E x \in Chunks : RemoveChunk(x)

Spec == Init /\ [][Next]_vars

-----------------------------------------------------------------------------
Listed == Items(dense) \union Items(sparse)
Better(x) == {y \in Listed : Outranks(dense, sparse, y, x)}

(* A stale candidate costs one place and no more: a chunk that a search    *)
(* found and that has its row at the look-up is missing only if FusedTopK  *)
(* other chunks outrank it, and candidates keep their order.               *)
BestSurvive ==
  [][HybridRetrieveNode =>
       /\ \A x \in Listed \intersect rows :
            x \notin Items(candidates') => Cardinality(Better(x)) >= FusedTopK
       /\ \A i, j \in DOMAIN candidates' :
            i < j => Outranks(dense, sparse, candidates'[i], candidates'[j])
    ]_vars

(* The ranks decide: what one search ranks higher and the other not lower  *)
(* comes first, and what both searches found comes before what only one    *)
(* found.  (The second holds up to SearchTopK = RrfK + 1.)                 *)
AgreementWins ==
  \A i, j \in DOMAIN fused :
    LET Ahead(r) == \/ fused[j] \notin Items(r)
                    \/ fused[i] \in Items(r) /\ Rank(r, fused[i]) <= Rank(r, fused[j])
        both == Items(dense) \intersect Items(sparse)
    IN  (Ahead(dense) /\ Ahead(sparse)) \/ (fused[i] \in both /\ fused[j] \notin both) => i <= j

(* A marker of the answer means the same excerpt wherever it is shown: the *)
(* one of that number in the prompt, live after the stream, and after a    *)
(* reload unless its chunk is gone.  No excerpt appears under a number the *)
(* model did not read.                                                     *)
MarkersResolve ==
  /\ pc \in {"shown", "reloaded"} => DOMAIN live = Items(indices)
  /\ \A n \in DOMAIN live : n \in DOMAIN context /\ live[n] = context[n]
  /\ \A n \in DOMAIN reloaded : n \in DOMAIN live /\ reloaded[n] = live[n]
  /\ pc = "reloaded" =>
       \A n \in DOMAIN live : live[n] \in rows => n \in DOMAIN reloaded

=============================================================================
