----------------------------- MODULE RankFusion -----------------------------
(***************************************************************************)
(* Reciprocal rank fusion, as the retrieval of a chat turn and the         *)
(* evaluation harness compute it.  A ranking is a sequence without         *)
(* repetitions, best first.  The reciprocals are integers: Scale is a      *)
(* common multiple of the denominators RrfK + rank that occur.             *)
(*                                                                         *)
(* PointsFromZero is no part of the specification: it stands before the    *)
(* definition it gets wrong.                                               *)
(***************************************************************************)
EXTENDS Integers, Sequences, FiniteSets

CONSTANTS
  RrfK,     \* _RRF_K, 60 in the code
  MaxRank,  \* longest ranking
  Scale

ASSUME FusionAssumption ==
  /\ RrfK \in Nat /\ MaxRank \in Nat /\ Scale \in Nat \ {0}
  /\ \A i \in 1..MaxRank : Scale % (RrfK + i) = 0

Items(r) == {r[i] : i \in DOMAIN r}

Ranking(r) == \A i, j \in DOMAIN r : r[i] = r[j] => i = j

(* all orders of n elements of S *)
Rankings(S, n) == {r \in [1..n -> S] : Ranking(r)}

Rank(r, x) == CHOOSE i \in DOMAIN r : r[i] = x

(* r[:k] *)
Cut(r, k) == IF k < Len(r) THEN SubSeq(r, 1, k) ELSE r

(* mutant: ranks are counted from 0 *)
PointsFromZero(r, x) == IF x \in Items(r) THEN Scale \div (RrfK + Rank(r, x) - 1) ELSE 0

(* 1 / (RrfK + rank), by a ranking that has x *)
Points(r, x) == IF x \in Items(r) THEN Scale \div (RrfK + Rank(r, x)) ELSE 0

Score(dense, sparse, x) == Points(dense, x) + Points(sparse, x)

(* x was entered into the dictionary of scores before y *)
Entered(dense, sparse, x, y) ==
  IF x \in Items(dense) THEN y \notin Items(dense) \/ Rank(dense, x) < Rank(dense, y)
  ELSE y \notin Items(dense) /\ Rank(sparse, x) < Rank(sparse, y)

(* sorted(reverse=True) is stable: equal scores stay as they were entered. *)
Outranks(dense, sparse, x, y) ==
  \/ Score(dense, sparse, x) > Score(dense, sparse, y)
  \/ Score(dense, sparse, x) = Score(dense, sparse, y) /\ Entered(dense, sparse, x, y)

Fuse(dense, sparse) ==
  LET all == Items(dense) \union Items(sparse)
      Above(x) == Cardinality({y \in all : Outranks(dense, sparse, y, x)})
  IN  [i \in 1..Cardinality(all) |-> CHOOSE x \in all : Above(x) = i - 1]

=============================================================================
