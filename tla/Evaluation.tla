----------------------------- MODULE Evaluation -----------------------------
(***************************************************************************)
(* The evaluation harness: the lists that four retrieval strategies may    *)
(* return for the queries of the benchmark, and the metrics evaluate_all   *)
(* averages over them.                                                     *)
(*                                                                         *)
(* A scorer gives every document one score, so its ranking is any order of *)
(* the documents.  The metrics of a strategy are accumulated apart from    *)
(* those of the others: a behaviour evaluates one strategy.  Metrics are   *)
(* in ten-thousandths, as round(_, 4) leaves them.                         *)
(*                                                                         *)
(* FlatDiscount and MrrUncut are no part of the specification: each stands *)
(* before the definition it gets wrong.                                    *)
(***************************************************************************)
EXTENDS RankFusion, FiniteSetsExt

CONSTANTS
  Docs,      \* documents of the benchmark that an instance ranks
  Queries,   \* the dataset's items, in order
  KList      \* k_list

VARIABLES
  strategy,  \* the strategy evaluated
  done,      \* number of queries done
  retrieved, \* the list returned for the last one
  metrics,   \* its metrics
  accum      \* the sums of the metrics of all queries done

evaluation == <<strategy, done, retrieved, metrics, accum>>

(* The 20 documents, by domain and number. *)
Corpus == {"DIST", "FIN", "SEC", "MED"} \X (1..5)

(* ground_truth_relevance, doubled: documents 1 to 5 of a domain.  A       *)
(* document without a grade counts like one graded 0.                      *)
GroundTruth ==
  [DIST1 |-> [domain |-> "DIST", grades |-> <<6, 6, 0, 0, 2>>],
   FIN1  |-> [domain |-> "FIN",  grades |-> <<6, 6, 2, 2, 0>>],
   SEC1  |-> [domain |-> "SEC",  grades |-> <<6, 6, 2, 0, 0>>],
   MED1  |-> [domain |-> "MED",  grades |-> <<6, 6, 1, 1, 0>>],
   DIST2 |-> [domain |-> "DIST", grades |-> <<0, 0, 2, 6, 0>>],
   SEC2  |-> [domain |-> "SEC",  grades |-> <<0, 0, 2, 6, 0>>]]

Grade(q, d) == IF d[1] = GroundTruth[q].domain THEN GroundTruth[q].grades[d[2]] ELSE 0

Grades == {0, 1, 2, 6}

ASSUME EvaluationAssumption ==
  /\ Docs \subseteq Corpus /\ Cardinality(Docs) <= MaxRank
  /\ Queries \in Seq(DOMAIN GroundTruth)
  /\ KList \subseteq 1..10 /\ KList # {}

-----------------------------------------------------------------------------
(* The metrics of a list r for a query q.                                  *)

Rounded(n, m) == (20000 * n + m) \div (2 * m)

(* relevance_threshold = 1.0 *)
Relevant(q) == {d \in Corpus : Grade(q, d) >= 2}

HitRanks(q, r, k) == {i \in DOMAIN Cut(r, k) : r[i] \in Relevant(q)}

HitRate(q, r, k)   == IF HitRanks(q, r, k) = {} THEN 0 ELSE 10000
Precision(q, r, k) == Rounded(Cardinality(HitRanks(q, r, k)), k)
Recall(q, r, k)    == Rounded(Cardinality(HitRanks(q, r, k)), Cardinality(Relevant(q)))

(* mutant: the first relevant document of the whole list *)
MrrUncut(q, r, k) ==
  IF HitRanks(q, r, Len(r)) = {} THEN 0 ELSE Rounded(1, Min(HitRanks(q, r, Len(r))))

Mrr(q, r, k) == IF HitRanks(q, r, k) = {} THEN 0 ELSE Rounded(1, Min(HitRanks(q, r, k)))

(* 2^grade - 1, in tenths *)
Gain(grade) == CASE grade = 0 -> 0 [] grade = 1 -> 4 [] grade = 2 -> 10 [] grade = 6 -> 70

(* mutant: no discount *)
FlatDiscount(rank) == 100

(* 1 / log2(rank + 1), in hundredths *)
Discount(rank) == <<100, 63, 50, 43, 39, 36, 33, 32, 30, 29>>[rank]

(* the sum of the first n terms *)
SumTo(term, n) ==
  LET sum[i \in 0..n] == IF i = 0 THEN 0 ELSE sum[i - 1] + term[i]
  IN  sum[n]

Dcg(q, r, k) ==
  SumTo([i \in DOMAIN Cut(r, k) |-> Gain(Grade(q, r[i])) * Discount(i)], Len(Cut(r, k)))

(* sorted(relevance_scores.values(), reverse=True) *)
IdealGrade(q, i) ==
  Max({g \in Grades : g = 0 \/ Cardinality({d \in Corpus : Grade(q, d) >= g}) >= i})

Idcg(q, k) == SumTo([i \in 1..k |-> Gain(IdealGrade(q, i)) * Discount(i)], k)

Ndcg(q, r, k) == Min({10000, Rounded(Dcg(q, r, k), Idcg(q, k))})

MetricsOf(q, r) ==
  [k \in KList |->
    [recall |-> Recall(q, r, k), precision |-> Precision(q, r, k), mrr |-> Mrr(q, r, k),
     hit_rate |-> HitRate(q, r, k), ndcg |-> Ndcg(q, r, k)]]

-----------------------------------------------------------------------------
(* run_strategy and evaluate_all.                                          *)

Strategies == {"dense_only", "sparse_bm25", "hybrid_rrf", "hybrid_reranked"}

TopK   == Max(KList)
Scored == Rankings(Docs, Cardinality(Docs))  \* what a scorer may return

(* the lists of both scorers are cut at 20, and so are the candidates *)
Fused == {Cut(Fuse(Cut(d, 20), Cut(s, 20)), 20) : d \in Scored, s \in Scored}

Reranked == UNION {Rankings(S, Cardinality(S)) : S \in {Items(f) : f \in Fused}}

(* what run_strategy may return *)
Lists ==
  [s \in Strategies |->
    {Cut(r, TopK) : r \in CASE s \in {"dense_only", "sparse_bm25"} -> Scored
                            [] s = "hybrid_rrf"                     -> Fused
                            [] s = "hybrid_reranked"                -> Reranked}]

MetricNames == {"recall", "precision", "mrr", "hit_rate", "ndcg"}
Zero        == [k \in KList |-> [m \in MetricNames |-> 0]]

EvaluationInit ==
  /\ strategy \in Strategies
  /\ done = 0
  /\ retrieved = <<>>
  /\ metrics = Zero /\ accum = Zero

Evaluate ==
  /\ done < Len(Queries)
  /\ \E r \in Lists[strategy] :
       /\ retrieved' = r
       /\ metrics' = MetricsOf(Queries[done + 1], r)
       /\ accum' = [k \in KList |->
                     [m \in MetricNames |-> accum[k][m] + metrics'[k][m]]]
  /\ done' = done + 1
  /\ UNCHANGED strategy

EvaluationSpec == EvaluationInit /\ [][Evaluate]_evaluation

-----------------------------------------------------------------------------
(* The averages of one strategy agree with each other: none grows smaller  *)
(* with the cut-off but precision; the hit rate bounds recall, precision   *)
(* and MRR, which are 0 only together with it; at a cut-off of 1 hit rate, *)
(* precision and MRR are the same number.  Precision and recall count      *)
(* ranks, not documents, so this needs lists without repetitions.          *)
AveragesAgree ==
  \A k, l \in KList :
    LET a == accum[k]
        b == accum[l]
    IN  /\ k <= l => a.recall <= b.recall /\ a.mrr <= b.mrr /\ a.hit_rate <= b.hit_rate
        /\ \A m \in {"recall", "precision", "mrr"} :
             a[m] <= a.hit_rate /\ (a[m] = 0 => a.hit_rate = 0)
        /\ k = 1 => a.precision = a.hit_rate /\ a.mrr = a.hit_rate

(* The first k documents of the last list are in the order of their grades *)
(* and none left out has a higher one.                                     *)
Ideal(k) ==
  LET q == Queries[done]
      r == Cut(retrieved, k)
  IN  /\ \A i, j \in DOMAIN r : i < j => Grade(q, r[i]) >= Grade(q, r[j])
      /\ \A d \in Corpus \ Items(r) : \A i \in DOMAIN r : Grade(q, d) <= Grade(q, r[i])

(* NDCG is 1 for the ideal lists and for no other; and no list gains more  *)
(* than they do, so that the min of ndcg_at_k never hides a value above 1. *)
OnlyIdealIsPerfect ==
  done > 0 =>
    \A k \in KList :
      /\ Dcg(Queries[done], retrieved, k) <= Idcg(Queries[done], k)
      /\ metrics[k].ndcg = 10000 <=> Ideal(k)

=============================================================================
