-------------------------- MODULE RetrievalProofs --------------------------
(***************************************************************************)
(* Proofs about Retrieval, for any chunks, rankings, bounds and markers,   *)
(* and about Evaluation, for any documents, queries and cut-offs: both     *)
(* rest on what rank fusion does to two rankings.                          *)
(***************************************************************************)
EXTENDS Retrieval, Evaluation, FiniteSetTheorems, TLAPS

Early == {"search", "lookup", "rerank", "answer"}
Cited == {<<n, context[n]>> : n \in {m \in Items(indices) : context[m] \in rows}}

\* The cited indices number excerpts; citation rows and both views say so.
Inv ==
  /\ pc \in Early \union {"persist", "done", "error", "shown", "reloaded"}
  /\ pc \in Early => indices = <<>>
  /\ Items(indices) \subseteq DOMAIN context
  /\ pc \in {"done", "shown"} => citations = Cited
  /\ pc \in {"shown", "reloaded"} =>
       /\ DOMAIN live = Items(indices)
       /\ \A n \in DOMAIN live : live[n] = context[n]
  /\ pc \notin {"shown", "reloaded"} => live = Empty
  /\ pc # "reloaded" => reloaded = Empty
  /\ pc = "reloaded" =>
       \A n \in DOMAIN live : live[n] \in rows => n \in DOMAIN reloaded
  /\ \A n \in DOMAIN reloaded : n \in DOMAIN live /\ reloaded[n] = live[n]

-----------------------------------------------------------------------------
\* The number of elements up to one of them grows with it.
LEMMA CountUpTo ==
  ASSUME NEW S \in SUBSET Nat, IsFiniteSet(S)
  PROVE  /\ Cardinality(S) \in Nat
         /\ \A i \in S : Cardinality({j \in S : j <= i}) \in 1..Cardinality(S)
         /\ \A i, k \in S :
              i < k => Cardinality({j \in S : j <= i}) < Cardinality({j \in S : j <= k})
<1> DEFINE upTo(i) == {j \in S : j <= i}
<1>0. Cardinality(S) \in Nat
  BY FS_CardinalityType
<1>1. ASSUME NEW i \in S
      PROVE  IsFiniteSet(upTo(i)) /\ Cardinality(upTo(i)) \in 1..Cardinality(S)
  <2>1. IsFiniteSet(upTo(i)) /\ Cardinality(upTo(i)) <= Cardinality(S)
    BY FS_Subset
  <2>2. Cardinality(upTo(i)) # 0
    <3>1. i \in upTo(i)
      OBVIOUS
    <3> QED BY <2>1, <3>1, FS_EmptySet
  <2> QED BY <1>0, <2>1, <2>2, FS_CardinalityType
<1>2. ASSUME NEW i \in S, NEW k \in S, i < k PROVE Cardinality(upTo(i)) < Cardinality(upTo(k))
  <2>1. i \in Nat /\ k \in Nat /\ \A j \in S : j \in Nat
    OBVIOUS
  <2>2. \A j \in S : j <= i => j <= k
    BY <1>2, <2>1
  <2>3. k <= k /\ ~(k <= i)
    BY <1>2, <2>1
  <2>4. upTo(i) \in SUBSET upTo(k) /\ upTo(i) # upTo(k)
    BY <2>2, <2>3
  <2>5. Cardinality(upTo(i)) <= Cardinality(upTo(k)) /\ Cardinality(upTo(i)) # Cardinality(upTo(k))
    <3> HIDE DEF upTo
    <3> QED BY <1>1, <2>4, FS_Subset
  <2> HIDE DEF upTo
  <2> QED BY <1>0, <1>1, <2>5
<1> QED BY <1>0, <1>1, <1>2

\* A finite set of numbers has an n-th element for every n up to its size.
LEMMA NthElement ==
  ASSUME NEW S \in SUBSET Nat, IsFiniteSet(S), NEW n \in 1..Cardinality(S)
  PROVE  \E i \in S : Cardinality({j \in S : j <= i}) = n
<1> DEFINE f == [i \in S |-> Cardinality({j \in S : j <= i})]
<1>1. f \in Injection(S, 1..Cardinality(S))
  <2>1. f \in [S -> 1..Cardinality(S)]
    BY CountUpTo
  <2>2. \A i, k \in S : f[i] = f[k] => i = k
    <3> SUFFICES ASSUME NEW i \in S, NEW k \in S, i < k PROVE f[i] # f[k]
      OBVIOUS
    <3>1. f[i] < f[k] /\ f[i] \in Int /\ f[k] \in Int
      BY CountUpTo
    <3> HIDE DEF f
    <3> QED BY <3>1
  <2> HIDE DEF f
  <2> QED BY <2>1, <2>2 DEF Injection, IsInjective
<1>2. IsFiniteSet(1..Cardinality(S)) /\ Cardinality(1..Cardinality(S)) = Cardinality(S)
  <2> DEFINE c == Cardinality(S)
  <2>1. c \in Nat
    BY CountUpTo
  <2> HIDE DEF c
  <2>2. IsFiniteSet(1..c) /\ Cardinality(1..c) = c
    BY <2>1, FS_Interval
  <2> QED BY <2>2 DEF c
<1>3. f \in Surjection(S, 1..Cardinality(S))
  <2> HIDE DEF f
  <2> QED BY <1>1, <1>2, FS_Injection
<1>4. \E i \in S : f[i] = n
  <2> HIDE DEF f
  <2> QED BY <1>3 DEF Surjection
<1> QED BY <1>4

\* At keeps the elements at the indices it is given, all of them, in order.
LEMMA AtKeeps ==
  ASSUME NEW s, NEW kept \in SUBSET Nat, IsFiniteSet(kept)
  PROVE  /\ DOMAIN At(s, kept) = 1..Cardinality(kept)
         /\ \A n \in DOMAIN At(s, kept) : \E i \in kept : At(s, kept)[n] = s[i]
         /\ \A i \in kept : \E n \in DOMAIN At(s, kept) : At(s, kept)[n] = s[i]
         /\ \A m, n \in DOMAIN At(s, kept) : m < n =>
              \E i, k \in kept : i < k /\ At(s, kept)[m] = s[i] /\ At(s, kept)[n] = s[k]
<1> DEFINE count(i) == Cardinality({j \in kept : j <= i})
           nth(n) == CHOOSE i \in kept : count(i) = n
           c == Cardinality(kept)
<1>0. \A i : i \in kept => i \in Nat
  OBVIOUS
<1>1. c \in Nat /\ \A i \in kept : count(i) \in 1..c
  BY CountUpTo
<1>2. ASSUME NEW i \in kept, NEW k \in kept, i < k PROVE count(i) < count(k)
  BY <1>2, CountUpTo
<1>3. ASSUME NEW n \in 1..c PROVE nth(n) \in kept /\ count(nth(n)) = n
  <2>1. \E i \in kept : count(i) = n
    BY NthElement
  <2> HIDE DEF count
  <2> QED BY <2>1
<1>4. DOMAIN At(s, kept) = 1..c /\ \A n \in 1..c : At(s, kept)[n] = s[nth(n)]
  BY DEF At
<1> HIDE DEF count, nth, c
<1>5. ASSUME NEW i \in kept PROVE nth(count(i)) = i /\ count(i) \in 1..c
  <2>1. nth(count(i)) \in kept /\ count(nth(count(i))) = count(i)
    BY <1>1, <1>3
  <2>2. i \in Nat /\ nth(count(i)) \in Nat /\ count(i) \in Nat
    BY <1>0, <1>1, <2>1
  <2> QED BY <1>1, <1>2, <2>1, <2>2
<1>6. ASSUME NEW m \in 1..c, NEW n \in 1..c, m < n PROVE nth(m) < nth(n)
  <2>1. nth(m) \in kept /\ nth(n) \in kept /\ count(nth(m)) = m /\ count(nth(n)) = n
    BY <1>3
  <2>2. nth(m) \in Nat /\ nth(n) \in Nat /\ m \in Nat /\ n \in Nat
    BY <1>0, <1>1, <2>1
  <2> QED BY <1>2, <1>6, <2>1, <2>2
<1>7. \A n \in DOMAIN At(s, kept) : \E i \in kept : At(s, kept)[n] = s[i]
  BY <1>3, <1>4
<1>8. \A i \in kept : \E n \in DOMAIN At(s, kept) : At(s, kept)[n] = s[i]
  BY <1>4, <1>5
<1>9. \A m, n \in DOMAIN At(s, kept) : m < n =>
        \E i, k \in kept : i < k /\ At(s, kept)[m] = s[i] /\ At(s, kept)[n] = s[k]
  BY <1>3, <1>4, <1>6
<1> QED BY <1>4, <1>7, <1>8, <1>9 DEF c

\* Whatever the model writes, the cited indices number excerpts.
LEMMA IndicesNumberExcerpts ==
  ASSUME NEW k \in Nat, NEW markers \in [1..k -> 0..(RerankTopN + 1)]
  PROVE  Items(ExtractCitedIndices(markers)) \subseteq DOMAIN context
<1> DEFINE new(i) == markers[i] \in DOMAIN context /\ \A j \in 1..(i - 1) : markers[j] # markers[i]
           kept == {i \in DOMAIN markers : new(i)}
<1>1. kept \in SUBSET Nat /\ IsFiniteSet(kept)
  <2>1. kept \in SUBSET (1..k)
    OBVIOUS
  <2> QED BY <2>1, FS_Interval, FS_Subset
<1>2. \A i \in kept : markers[i] \in DOMAIN context
  OBVIOUS
<1>3. ExtractCitedIndices(markers) = At(markers, kept)
  BY DEF ExtractCitedIndices
<1> HIDE DEF kept
<1> QED BY <1>1, <1>2, <1>3, AtKeeps DEF Items

LEMMA InvInit == Init => Inv
BY DEF Init, Inv, Early, Items, Empty

LEMMA InvStep == Inv /\ [Next]_vars => Inv'
<1> SUFFICES ASSUME Inv, [Next]_vars PROVE Inv'
  OBVIOUS
<1> USE DEF Inv, Early
<1>1. CASE Search \/ HybridRetrieveNode
  BY <1>1 DEF Search, HybridRetrieveNode, searches, shown, Cited, Items
<1>2. CASE RerankNode
  BY <1>2 DEF RerankNode, shown, Cited, Items
<1>3. CASE Answer
  <2>1. Items(indices') \subseteq DOMAIN context
    BY <1>3, IndicesNumberExcerpts, RetrievalAssumption DEF Answer
  <2> QED BY <1>3, <2>1 DEF Answer, shown, searches, Items
<1>4. CASE Persist
  <2>1. citations' = Cited'
    BY <1>4 DEF Persist, Citation, Cited, Items
  <2> QED BY <1>4, <2>1 DEF Persist, shown, Items
<1>5. CASE PersistFail
  BY <1>5 DEF PersistFail, shown, Items
<1>6. CASE ShowDone
  <2>1. DOMAIN live' = Items(indices) /\ \A n \in DOMAIN live' : live'[n] = context[n]
    BY <1>6 DEF ShowDone, Excerpt
  <2>2. UNCHANGED <<rows, context, indices, citations, reloaded>> /\ pc = "done" /\ pc' = "shown"
    BY <1>6 DEF ShowDone
  <2>3. Items(indices') = Items(indices) /\ Cited' = Cited
    BY <2>2 DEF Items, Cited
  <2>4. DOMAIN reloaded = {}
    BY <2>2 DEF Empty
  <2> QED BY <2>1, <2>2, <2>3, <2>4
<1>7. CASE Reload
  <2>1. /\ \A c \in citations : c[1] \in DOMAIN live /\ c[2] = live[c[1]]
        /\ \A n \in DOMAIN live : live[n] \in rows => \E c \in citations : c[1] = n
    <3>1. /\ citations = Cited /\ DOMAIN live = Items(indices)
          /\ \A n \in DOMAIN live : live[n] = context[n]
      BY <1>7 DEF Reload
    <3>2. \A n : n \in Items(indices) /\ context[n] \in rows => <<n, context[n]>> \in citations
      BY <3>1 DEF Cited
    <3>3. \A c \in citations : \E n \in Items(indices) : c = <<n, context[n]>>
      BY <3>1 DEF Cited
    <3>4. \A n \in DOMAIN live : live[n] \in rows => <<n, context[n]>> \in citations
      BY <3>1, <3>2
    <3>5. \A n : <<n, context[n]>>[1] = n /\ <<n, context[n]>>[2] = context[n]
      OBVIOUS
    <3>6. ASSUME NEW c \in citations PROVE c[1] \in DOMAIN live /\ c[2] = live[c[1]]
      <4>1. PICK n \in Items(indices) : c = <<n, context[n]>>
        BY <3>3
      <4>2. c[1] = n /\ c[2] = context[n]
        BY <4>1, <3>5
      <4> QED BY <3>1, <4>2
    <3>7. ASSUME NEW n \in DOMAIN live, live[n] \in rows PROVE \E c \in citations : c[1] = n
      BY <3>4, <3>5, <3>7
    <3> QED BY <3>6, <3>7
  <2>2. \A n \in DOMAIN reloaded' : n \in DOMAIN live /\ reloaded'[n] = live[n]
    <3> SUFFICES ASSUME NEW n \in DOMAIN reloaded' PROVE n \in DOMAIN live /\ reloaded'[n] = live[n]
      OBVIOUS
    <3> DEFINE c == CHOOSE c \in citations : c[1] = n
    <3>1. reloaded'[n] = c[2] /\ \E d \in citations : d[1] = n
      BY <1>7 DEF Reload
    <3>2. c \in citations /\ c[1] = n
      BY <3>1
    <3> HIDE DEF c
    <3> QED BY <2>1, <3>1, <3>2
  <2>3. \A n \in DOMAIN live : live[n] \in rows => n \in DOMAIN reloaded'
    BY <1>7, <2>1 DEF Reload
  <2>4. /\ UNCHANGED <<rows, context, indices, citations, live>>
        /\ pc = "shown" /\ pc' = "reloaded"
    BY <1>7 DEF Reload
  <2>5. Items(indices') = Items(indices)
    BY <2>4 DEF Items
  <2> QED BY <2>2, <2>3, <2>4, <2>5
<1>8. ASSUME NEW x \in Chunks, RemoveChunk(x) PROVE Inv'
  <2>1. citations = Cited => citations' = Cited'
    BY <1>8 DEF RemoveChunk, Cited, Items
  <2>2. rows' \subseteq rows
    BY <1>8 DEF RemoveChunk
  <2> QED BY <1>8, <2>1, <2>2 DEF RemoveChunk, shown, Items
<1>9. CASE UNCHANGED vars
  BY <1>9 DEF vars, searches, shown, Cited, Items
<1> QED BY <1>1, <1>2, <1>3, <1>4, <1>5, <1>6, <1>7, <1>8, <1>9 DEF Next

\* A marker of the answer means the same excerpt in the prompt, in the stream
\* and after a reload.
THEOREM MarkersMeanTheirExcerpts == Spec => []MarkersResolve
<1>1. Inv => MarkersResolve
  BY DEF Inv, MarkersResolve, Empty
<1> QED BY <1>1, InvInit, InvStep, PTL DEF Spec

-----------------------------------------------------------------------------
(* Fusion ranks what the searches list by a strict total order.            *)

\* A sequence without repetitions.
Distinct(r) == r \in Seq(Items(r)) /\ Ranking(r)

\* A ranking of no more than MaxRank elements.
IsList(r) == Distinct(r) /\ Len(r) <= MaxRank

LEMMA ItemsAreFinite ==
  ASSUME NEW r, Distinct(r)
  PROVE  IsFiniteSet(Items(r)) /\ Cardinality(Items(r)) = Len(r)
<1> DEFINE n == Len(r)
<1>1. n \in Nat /\ r \in [1..n -> Items(r)]
  BY DEF Distinct
<1> HIDE DEF n
<1>2. r \in Surjection(1..n, Items(r))
  BY <1>1 DEF Items, Surjection
<1>3. IsFiniteSet(1..n) /\ Cardinality(1..n) = n
  <2>1. 1 \in Int /\ n \in Int /\ (1 > n => n = 0) /\ n - 1 + 1 = n
    BY <1>1
  <2> QED BY ONLY <2>1, FS_Interval
<1>4. r \in Injection(1..n, Items(r))
  BY <1>1 DEF Distinct, Ranking, Injection, IsInjective
<1> QED BY <1>2, <1>3, <1>4, FS_Surjection DEF n

LEMMA RankingsAreLists ==
  ASSUME NEW S, NEW n \in 0..MaxRank, NEW r \in Rankings(S, n)
  PROVE  IsList(r) /\ Len(r) = n /\ r \in Seq(S)
<1>1. n \in Nat /\ n <= MaxRank
  BY FusionAssumption
<1>2. r \in [1..n -> S] /\ Ranking(r)
  BY DEF Rankings
<1>3. r \in [1..n -> Items(r)]
  BY <1>2 DEF Items
<1> QED BY <1>1, <1>2, <1>3 DEF IsList, Distinct

\* What a list has, it has at one rank.
LEMMA ListFacts ==
  ASSUME NEW r, IsList(r)
  PROVE  /\ Len(r) \in 0..MaxRank /\ DOMAIN r = 1..Len(r)
         /\ IsFiniteSet(Items(r))
         /\ \A x \in Items(r) : Rank(r, x) \in 1..Len(r) /\ r[Rank(r, x)] = x
<1> DEFINE n == Len(r)
<1>1. n \in Nat /\ n <= MaxRank /\ DOMAIN r = 1..n 
  BY DEF IsList, Distinct
<1> HIDE DEF n
<1>2. IsFiniteSet(Items(r))
  BY ItemsAreFinite DEF IsList
<1>3. ASSUME NEW x \in Items(r) PROVE Rank(r, x) \in DOMAIN r /\ r[Rank(r, x)] = x
  <2>1. \E i \in DOMAIN r : r[i] = x
    BY DEF Items
  <2> QED BY <2>1 DEF Rank
<1>4. n \in 0..MaxRank
  BY <1>1, FusionAssumption
<1> QED BY <1>1, <1>2, <1>3, <1>4 DEF n

\* Points are numbers, and a better rank has no fewer of them.
LEMMA PointsFacts ==
  ASSUME NEW r, IsList(r)
  PROVE  /\ \A x : Points(r, x) \in Nat
         /\ \A x \in Items(r) :
              /\ Points(r, x) * (RrfK + Rank(r, x)) = Scale
              /\ RrfK + Rank(r, x) \in (RrfK + 1)..(RrfK + Len(r))
         /\ \A x, y \in Items(r) : Rank(r, x) <= Rank(r, y) => Points(r, y) <= Points(r, x)
<1>1. RrfK \in Nat /\ Scale \in Nat \ {0} /\ Len(r) \in Nat /\ Len(r) <= MaxRank
  BY FusionAssumption, ListFacts
<1>2. ASSUME NEW x \in Items(r)
      PROVE  /\ RrfK + Rank(r, x) \in Nat \ {0} /\ Scale % (RrfK + Rank(r, x)) = 0
             /\ RrfK + Rank(r, x) \in (RrfK + 1)..(RrfK + Len(r))
             /\ Points(r, x) = Scale \div (RrfK + Rank(r, x))
  <2>1. Rank(r, x) \in 1..Len(r)
    BY ListFacts
  <2>2. Rank(r, x) \in 1..MaxRank
    BY <1>1, <2>1, FusionAssumption
  <2>3. Scale % (RrfK + Rank(r, x)) = 0
    BY <2>2, FusionAssumption
  <2>4. Points(r, x) = Scale \div (RrfK + Rank(r, x))
    BY DEF Points
  <2>5. /\ RrfK + Rank(r, x) \in Nat \ {0}
        /\ RrfK + Rank(r, x) \in (RrfK + 1)..(RrfK + Len(r))
    BY <1>1, <2>1
  <2> QED BY <2>3, <2>4, <2>5
<1>3. \A x : Points(r, x) \in Nat
  <2> SUFFICES ASSUME NEW x PROVE Points(r, x) \in Nat
    OBVIOUS
  <2>1. CASE x \in Items(r)
    BY <1>1, <1>2, <2>1
  <2>2. CASE x \notin Items(r)
    BY <2>2 DEF Points
  <2> QED BY <2>1, <2>2
<1>4. ASSUME NEW x \in Items(r) PROVE Points(r, x) * (RrfK + Rank(r, x)) = Scale
  BY <1>1, <1>2
<1>5. ASSUME NEW x \in Items(r), NEW y \in Items(r), Rank(r, x) <= Rank(r, y)
      PROVE  Points(r, y) <= Points(r, x)
  <2>1. RrfK + Rank(r, x) <= RrfK + Rank(r, y)
    BY <1>1, <1>5, ListFacts
  <2> QED BY <1>1, <1>2, <2>1
<1> QED BY <1>2, <1>3, <1>4, <1>5

\* The place at which x is entered into the dictionary of scores.
Entry(d, s, x) == IF x \in Items(d) THEN Rank(d, x) ELSE Len(d) + Rank(s, x)

LEMMA EntryFacts ==
  ASSUME NEW d, NEW s, IsList(d), IsList(s),
         NEW x \in Items(d) \union Items(s), NEW y \in Items(d) \union Items(s)
  PROVE  /\ Entry(d, s, x) \in Nat
         /\ Entered(d, s, x, y) <=> Entry(d, s, x) < Entry(d, s, y)
         /\ Entry(d, s, x) = Entry(d, s, y) => x = y
<1>1. /\ Len(d) \in Nat
      /\ \A z \in Items(d) : Rank(d, z) \in 1..Len(d) /\ d[Rank(d, z)] = z
      /\ \A z \in Items(s) : Rank(s, z) \in Nat \ {0} /\ s[Rank(s, z)] = z
  BY ListFacts, RetrievalAssumption
<1> QED BY <1>1 DEF Entry, Entered

All(d, s) == Items(d) \union Items(s)
Above(d, s, x) == {y \in All(d, s) : Outranks(d, s, y, x)}

LEMMA OutranksIsAnOrder ==
  ASSUME NEW d, NEW s, IsList(d), IsList(s)
  PROVE  /\ \A x \in All(d, s) : ~Outranks(d, s, x, x)
         /\ \A x, y, z \in All(d, s) : Outranks(d, s, x, y) /\ Outranks(d, s, y, z) => Outranks(d, s, x, z)
         /\ \A x, y \in All(d, s) : x = y \/ Outranks(d, s, x, y) \/ Outranks(d, s, y, x)
<1>1. \A x : Score(d, s, x) \in Int
  BY PointsFacts DEF Score
<1>2. \A x, y \in All(d, s) :
        /\ Entry(d, s, x) \in Nat
        /\ Entered(d, s, x, y) <=> Entry(d, s, x) < Entry(d, s, y)
        /\ Entry(d, s, x) = Entry(d, s, y) => x = y
  BY EntryFacts DEF All
<1>3. \A x, y \in All(d, s) :
        Outranks(d, s, x, y) <=>
          \/ Score(d, s, x) > Score(d, s, y)
          \/ Score(d, s, x) = Score(d, s, y) /\ Entry(d, s, x) < Entry(d, s, y)
  BY <1>2 DEF Outranks
<1> QED BY <1>1, <1>2, <1>3

\* x is ranked by the number of those that outrank it.
LEMMA PlacesByRank ==
  ASSUME NEW d, NEW s, IsList(d), IsList(s)
  PROVE  /\ Cardinality(All(d, s)) \in Nat
         /\ \A x \in All(d, s) :
              Cardinality(Above(d, s, x)) \in 0..(Cardinality(All(d, s)) - 1)
         /\ \A x, z \in All(d, s) :
              Outranks(d, s, x, z) =>
                Cardinality(Above(d, s, x)) < Cardinality(Above(d, s, z))
         /\ \A k \in 0..(Cardinality(All(d, s)) - 1) : \E x \in All(d, s) :
              Cardinality(Above(d, s, x)) = k
<1> DEFINE f == [x \in All(d, s) |-> Cardinality(Above(d, s, x))]
           m == Cardinality(All(d, s))
<1>0. IsFiniteSet(All(d, s)) /\ m \in Nat
  BY ListFacts, FS_Union, FS_CardinalityType DEF All
<1>1. ASSUME NEW x \in All(d, s) PROVE IsFiniteSet(Above(d, s, x)) /\ Cardinality(Above(d, s, x)) \in 0..(m - 1)
  <2>1. /\ IsFiniteSet(Above(d, s, x)) /\ Cardinality(Above(d, s, x)) <= m
        /\ m = Cardinality(Above(d, s, x)) => All(d, s) = Above(d, s, x)
    BY <1>0, FS_Subset DEF Above
  <2>2. x \notin Above(d, s, x)
    BY OutranksIsAnOrder DEF Above
  <2>3. Cardinality(Above(d, s, x)) \in Nat
    BY <2>1, FS_CardinalityType
  <2> HIDE DEF m
  <2> QED BY <1>0, <2>1, <2>2, <2>3
<1>2. ASSUME NEW x \in All(d, s), NEW z \in All(d, s), Outranks(d, s, x, z)
      PROVE  Cardinality(Above(d, s, x)) < Cardinality(Above(d, s, z))
  <2>1. \A y \in Above(d, s, x) : y \in Above(d, s, z)
    BY <1>2, OutranksIsAnOrder DEF Above
  <2>2. x \in Above(d, s, z) /\ x \notin Above(d, s, x)
    BY <1>2, OutranksIsAnOrder DEF Above
  <2> HIDE DEF m
  <2>3. Above(d, s, x) \in SUBSET Above(d, s, z) /\ Above(d, s, x) # Above(d, s, z)
    BY <2>1, <2>2
  <2>4. Cardinality(Above(d, s, x)) <= Cardinality(Above(d, s, z)) /\ Cardinality(Above(d, s, x)) # Cardinality(Above(d, s, z))
    BY <1>1, <2>3, FS_Subset
  <2> QED BY <1>0, <1>1, <2>4
<1>3. f \in Injection(All(d, s), 0..(m - 1))
  <2>1. f \in [All(d, s) -> 0..(m - 1)]
    BY <1>1
  <2>2. ASSUME NEW x \in All(d, s), NEW z \in All(d, s), f[x] = f[z] PROVE x = z
    <3>1. f[x] = Cardinality(Above(d, s, x)) /\ f[z] = Cardinality(Above(d, s, z))
      OBVIOUS
    <3> HIDE DEF f, m
    <3>2. Cardinality(Above(d, s, x)) \in Int /\ Cardinality(Above(d, s, x)) = Cardinality(Above(d, s, z))
      <4>1. Cardinality(Above(d, s, x)) \in Int
        BY <1>0, <1>1
      <4> QED BY <2>2, <3>1, <4>1
    <3>3. x = z \/ Outranks(d, s, x, z) \/ Outranks(d, s, z, x)
      BY OutranksIsAnOrder
    <3> QED BY <1>2, <3>2, <3>3
  <2> HIDE DEF f, m
  <2> QED BY <2>1, <2>2 DEF Injection, IsInjective
<1>4. IsFiniteSet(0..(m - 1)) /\ Cardinality(0..(m - 1)) = m
  <2> HIDE DEF m
  <2> QED BY <1>0, FS_Interval
<1>5. f \in Surjection(All(d, s), 0..(m - 1))
  <2> HIDE DEF f
  <2> QED BY <1>3, <1>4, FS_Injection
<1>6. \A k \in 0..(m - 1) : \E x \in All(d, s) : f[x] = k
  <2> HIDE DEF f, m
  <2> QED BY <1>5 DEF Surjection
<1>7. \A k \in 0..(m - 1) : \E x \in All(d, s) : Cardinality(Above(d, s, x)) = k
  BY <1>6
<1> QED BY <1>0, <1>1, <1>2, <1>7

\* Fuse lists everything that the searches list, each once, in that order.
LEMMA FuseSorts ==
  ASSUME NEW d, NEW s, IsList(d), IsList(s)
  PROVE  /\ Fuse(d, s) \in Seq(All(d, s)) /\ Len(Fuse(d, s)) = Cardinality(All(d, s))
         /\ \A x \in All(d, s) : \E i \in DOMAIN Fuse(d, s) :
              Fuse(d, s)[i] = x /\ Cardinality(Above(d, s, x)) = i - 1
         /\ \A i, j \in DOMAIN Fuse(d, s) : i < j => Outranks(d, s, Fuse(d, s)[i], Fuse(d, s)[j])
<1> DEFINE above(x) == Cardinality(Above(d, s, x))
           m == Cardinality(All(d, s))
           at(i) == CHOOSE x \in All(d, s) : above(x) = i - 1
<1>1. /\ m \in Nat
      /\ \A x \in All(d, s) : above(x) \in 0..(m - 1)
      /\ \A x, z \in All(d, s) : Outranks(d, s, x, z) => above(x) < above(z)
      /\ \A k \in 0..(m - 1) : \E x \in All(d, s) : above(x) = k
  <2>1. m \in Nat /\ \A x \in All(d, s) : above(x) \in 0..(m - 1)
    BY PlacesByRank
  <2>2. \A x, z \in All(d, s) : Outranks(d, s, x, z) => above(x) < above(z)
    BY PlacesByRank
  <2>3. \A k \in 0..(m - 1) : \E x \in All(d, s) : above(x) = k
    BY PlacesByRank
  <2> QED BY <2>1, <2>2, <2>3
<1>2. \A x, y \in All(d, s) : x = y \/ Outranks(d, s, x, y) \/ Outranks(d, s, y, x)
  BY OutranksIsAnOrder
<1>3. Fuse(d, s) = [i \in 1..m |-> at(i)]
  BY DEF Fuse, All, Above
<1> HIDE DEF above, m
<1>4. \A i \in 1..m : at(i) \in All(d, s) /\ above(at(i)) = i - 1
  <2> SUFFICES ASSUME NEW i \in 1..m PROVE at(i) \in All(d, s) /\ above(at(i)) = i - 1
    OBVIOUS
  <2>1. i - 1 \in 0..(m - 1)
    BY <1>1
  <2>2. \E x \in All(d, s) : above(x) = i - 1
    BY <1>1, <2>1
  <2> QED BY <2>2
<1> HIDE DEF at
<1>5. Fuse(d, s) \in Seq(All(d, s)) /\ Len(Fuse(d, s)) = m /\ DOMAIN Fuse(d, s) = 1..m
  BY <1>1, <1>3, <1>4
<1>6. \A x \in All(d, s) : \E i \in 1..m : Fuse(d, s)[i] = x /\ above(x) = i - 1
  <2> SUFFICES ASSUME NEW x \in All(d, s) PROVE \E i \in 1..m : Fuse(d, s)[i] = x /\ above(x) = i - 1
    OBVIOUS
  <2> DEFINE i == above(x) + 1
  <2>1. i \in 1..m /\ above(x) = i - 1 /\ above(x) \in Int
    BY <1>1
  <2>2. at(i) \in All(d, s) /\ above(at(i)) = above(x)
    BY <1>4, <2>1
  <2>3. at(i) = x
    <3>1. above(at(i)) \in Int /\ above(x) \in Int
      BY <2>1, <2>2
    <3> QED BY <1>1, <1>2, <2>2, <3>1
  <2> QED BY <1>3, <2>1, <2>3
<1>7. \A i, j \in 1..m : i < j => Outranks(d, s, Fuse(d, s)[i], Fuse(d, s)[j])
  <2> SUFFICES ASSUME NEW i \in 1..m, NEW j \in 1..m, i < j
               PROVE  Outranks(d, s, at(i), at(j))
    BY <1>3
  <2>1. at(i) \in All(d, s) /\ at(j) \in All(d, s) /\ above(at(i)) = i - 1 /\ above(at(j)) = j - 1
    BY <1>4
  <2>2. i \in Int /\ j \in Int
    BY <1>1
  <2>3. at(i) # at(j) /\ ~(above(at(j)) < above(at(i)))
    BY <2>1, <2>2
  <2> QED BY <1>1, <1>2, <2>1, <2>3
<1> QED BY <1>5, <1>6, <1>7 DEF above, m

\* Cutting a sequence keeps its beginning.
LEMMA CutKeeps ==
  ASSUME NEW S, NEW r \in Seq(S), NEW k \in Nat
  PROVE  /\ DOMAIN Cut(r, k) = 1..Len(Cut(r, k)) /\ Len(Cut(r, k)) \in Nat
         /\ Len(Cut(r, k)) <= Len(r)
         /\ \A i \in DOMAIN Cut(r, k) : Cut(r, k)[i] = r[i]
         /\ \A i \in DOMAIN r : i <= k => i \in DOMAIN Cut(r, k)
BY DEF Cut

\* Half of what both searches give outweighs what one gives, if no rank has
\* twice the weight of another.
LEMMA Halves ==
  ASSUME NEW p \in Nat, NEW a \in Nat, NEW q \in Nat, NEW c \in Nat,
         p * a = q * c, p * a # 0, a < 2 * c
  PROVE  q < 2 * p
<1> SUFFICES ASSUME 2 * p <= q PROVE FALSE
  OBVIOUS
<1>1. p # 0 /\ c # 0
  OBVIOUS
<1>2. (2 * p) * c <= q * c
  OBVIOUS
<1>3. (2 * p) * c = p * (2 * c)
  OBVIOUS
<1>4. p * a < p * (2 * c)
  BY <1>1
<1> QED BY <1>2, <1>3, <1>4

\* x is ranked no lower than y by r.
Ahead(r, x, y) == y \notin Items(r) \/ (x \in Items(r) /\ Rank(r, x) <= Rank(r, y))

LEMMA AheadWins ==
  ASSUME NEW d, NEW s, IsList(d), IsList(s), NEW x \in All(d, s), NEW y \in All(d, s), x # y,
         Ahead(d, x, y), Ahead(s, x, y)
  PROVE  Outranks(d, s, x, y)
<1>1. ASSUME NEW r \in {d, s} PROVE Points(r, y) <= Points(r, x)
  <2>1. IsList(r) /\ Ahead(r, x, y)
    BY <1>1
  <2>2. CASE y \notin Items(r)
    BY <2>1, <2>2, PointsFacts DEF Points
  <2>3. CASE y \in Items(r)
    BY <2>1, <2>3, PointsFacts DEF Ahead
  <2> QED BY <2>2, <2>3
<1>2. \A z : Points(d, z) \in Nat /\ Points(s, z) \in Nat
  BY PointsFacts
<1>3. Score(d, s, y) <= Score(d, s, x) /\ Score(d, s, x) \in Nat /\ Score(d, s, y) \in Nat
  BY <1>1, <1>2 DEF Score
<1>4. Entered(d, s, x, y)
  <2>1. \A r \in {d, s} : \A z \in Items(r) : Rank(r, z) \in Int /\ r[Rank(r, z)] = z
    BY ListFacts
  <2>2. \A r \in {d, s} : y \in Items(r) => x \in Items(r) /\ Rank(r, x) < Rank(r, y)
    BY <2>1 DEF Ahead
  <2> QED BY <2>2 DEF Entered, All
<1> QED BY <1>3, <1>4 DEF Outranks

LEMMA BothWin ==
  ASSUME NEW d, NEW s, IsList(d), IsList(s), Len(d) <= RrfK + 1, Len(s) <= RrfK + 1,
         NEW x \in Items(d) \intersect Items(s),
         NEW y \in All(d, s), y \notin Items(d) \intersect Items(s)
  PROVE  Outranks(d, s, x, y)
<1>1. RrfK \in Nat /\ Scale \in Nat \ {0}
  BY FusionAssumption
<1>2. ASSUME NEW r \in {d, s}, NEW z \in Items(r)
      PROVE  /\ Points(r, z) \in Nat
             /\ \E a \in (RrfK + 1)..(2 * RrfK + 1) : Points(r, z) * a = Scale
  <2>1. IsList(r) /\ Len(r) <= RrfK + 1 /\ Len(r) \in Nat
    BY ListFacts, FusionAssumption
  <2>2. /\ Points(r, z) \in Nat
        /\ Points(r, z) * (RrfK + Rank(r, z)) = Scale
        /\ RrfK + Rank(r, z) \in (RrfK + 1)..(RrfK + Len(r))
    BY <1>2, <2>1, PointsFacts
  <2>3. RrfK + Rank(r, z) \in (RrfK + 1)..(2 * RrfK + 1)
    BY <1>1, <2>1, <2>2
  <2> QED BY <2>2, <2>3
<1>3. PICK r \in {d, s} : y \in Items(r) /\ Score(d, s, y) = Points(r, y)
  <2>1. \A r \in {d, s} : y \notin Items(r) => Points(r, y) = 0
    BY DEF Points
  <2>2. Points(d, y) \in Nat /\ Points(s, y) \in Nat
    BY PointsFacts
  <2> QED BY <2>1, <2>2 DEF Score, All
<1>4. ASSUME NEW q \in {d, s} PROVE Points(q, x) \in Nat /\ Points(r, y) < 2 * Points(q, x)
  <2>1. PICK a \in (RrfK + 1)..(2 * RrfK + 1) : Points(q, x) * a = Scale
    BY <1>2
  <2>2. PICK c \in (RrfK + 1)..(2 * RrfK + 1) : Points(r, y) * c = Scale
    BY <1>2, <1>3
  <2>3. a \in Nat /\ c \in Nat /\ a < 2 * c
    BY <1>1
  <2>4. Points(q, x) \in Nat /\ Points(r, y) \in Nat
    BY <1>2, <1>3
  <2> QED BY <1>1, <2>1, <2>2, <2>3, <2>4, Halves
<1>5. Points(r, y) \in Nat
  BY <1>2, <1>3
<1>6. Score(d, s, y) < Score(d, s, x)
  BY <1>3, <1>4, <1>5 DEF Score
<1>7. Score(d, s, x) \in Int /\ Score(d, s, y) \in Int
  BY <1>3, <1>4, <1>5 DEF Score
<1> QED BY <1>6, <1>7 DEF Outranks

-----------------------------------------------------------------------------
(* What becomes of the fused ranking.                                      *)

\* The rankings are lists and the fused one is theirs, cut; afterwards all
\* three are empty, which is a fusion too.
FusedInv ==
  /\ IsList(dense) /\ IsList(sparse)
  /\ Len(dense) <= SearchTopK /\ Len(sparse) <= SearchTopK
  /\ fused = Cut(Fuse(dense, sparse), FusedTopK)

LEMMA EmptyFusion ==
  /\ IsList(<<>>)
  /\ Cut(Fuse(<<>>, <<>>), FusedTopK) = <<>>
<1>1. IsList(<<>>)
  BY FusionAssumption DEF IsList, Distinct, Items, Ranking
<1>2. Fuse(<<>>, <<>>) = <<>>
  <2>1. All(<<>>, <<>>) = {}
    BY DEF All, Items
  <2>2. Len(Fuse(<<>>, <<>>)) = 0 /\ Fuse(<<>>, <<>>) \in Seq({})
    BY <1>1, <2>1, FuseSorts, FS_EmptySet
  <2> QED BY <2>2
<1> QED BY <1>1, <1>2, RetrievalAssumption DEF Cut

LEMMA FusedStep == FusedInv /\ [Next]_vars => FusedInv'
<1> SUFFICES ASSUME FusedInv, [Next]_vars PROVE FusedInv'
  OBVIOUS
<1>1. CASE Search
  <2>1. ASSUME NEW n \in 0..SearchTopK, NEW r \in Listing(n) PROVE IsList(r) /\ Len(r) <= SearchTopK
    <3>1. n \in 0..MaxRank /\ n <= SearchTopK
      BY RetrievalAssumption, FusionAssumption
    <3> QED BY <3>1, RankingsAreLists DEF Listing
  <2>3. /\ IsList(dense') /\ IsList(sparse')
        /\ Len(dense') <= SearchTopK /\ Len(sparse') <= SearchTopK
    BY <1>1, <2>1 DEF Search
  <2>2. fused' = Cut(Fuse(dense', sparse'), FusedTopK)
    BY <1>1 DEF Search
  <2> QED BY <2>2, <2>3 DEF FusedInv
<1>2. CASE RerankNode
  <2>1. dense' = <<>> /\ sparse' = <<>> /\ fused' = <<>>
    BY <1>2 DEF RerankNode
  <2>2. Len(<<>>) <= SearchTopK
    BY RetrievalAssumption
  <2> QED BY <2>1, <2>2, EmptyFusion DEF FusedInv
<1>3. CASE UNCHANGED searches
  BY <1>3 DEF FusedInv, searches
<1> QED
  BY <1>1, <1>2, <1>3 DEF Next, HybridRetrieveNode, Answer, Persist, PersistFail, ShowDone, Reload,
     RemoveChunk, vars

LEMMA FusedInvariant == Spec => []FusedInv
<1>1. Init => FusedInv
  BY EmptyFusion, RetrievalAssumption DEF Init, FusedInv
<1> QED BY <1>1, FusedStep, PTL DEF Spec

\* What FusedInv says of the elements of fused.
LEMMA FusedFacts ==
  ASSUME FusedInv
  PROVE  /\ DOMAIN fused = 1..Len(fused) /\ Len(fused) \in Nat
         /\ \A i \in DOMAIN fused : fused[i] \in All(dense, sparse)
         /\ \A i, j \in DOMAIN fused : i < j => Outranks(dense, sparse, fused[i], fused[j])
         /\ \A x \in All(dense, sparse) :
              \/ \E i \in DOMAIN fused : fused[i] = x
              \/ Cardinality(Above(dense, sparse, x)) >= FusedTopK
<1> DEFINE F == Fuse(dense, sparse)
<1>1. /\ F \in Seq(All(dense, sparse))
      /\ \A x \in All(dense, sparse) : \E i \in DOMAIN F :
           F[i] = x /\ Cardinality(Above(dense, sparse, x)) = i - 1
      /\ \A i, j \in DOMAIN F : i < j => Outranks(dense, sparse, F[i], F[j])
  BY FuseSorts DEF FusedInv
<1>2. FusedTopK \in Nat /\ fused = Cut(F, FusedTopK)
  BY RetrievalAssumption DEF FusedInv
<1> HIDE DEF F
<1>3. /\ DOMAIN fused = 1..Len(fused) /\ Len(fused) \in Nat /\ Len(fused) <= Len(F)
      /\ \A i \in DOMAIN fused : fused[i] = F[i]
      /\ \A i \in DOMAIN F : i <= FusedTopK => i \in DOMAIN fused
  BY <1>1, <1>2, CutKeeps
<1>4. DOMAIN F = 1..Len(F) /\ Len(F) \in Nat
  BY <1>1
<1>5. \A i \in DOMAIN fused : i \in DOMAIN F
  BY <1>3, <1>4
<1>6. ASSUME NEW x \in All(dense, sparse), \A i \in DOMAIN fused : fused[i] # x
      PROVE  Cardinality(Above(dense, sparse, x)) >= FusedTopK
  <2>1. PICK i \in DOMAIN F : F[i] = x /\ Cardinality(Above(dense, sparse, x)) = i - 1
    BY <1>1
  <2>2. ~(i <= FusedTopK) /\ i \in Nat
    BY <1>3, <1>4, <1>6, <2>1
  <2> QED BY <1>2, <2>1, <2>2
<1>7. \A i \in DOMAIN F : F[i] \in All(dense, sparse)
  BY <1>1
<1> QED BY <1>1, <1>3, <1>5, <1>6, <1>7

\* The ranks decide, with the weight 60 of _RRF_K and searches of up to 61.
THEOREM RanksDecide ==
  ASSUME SearchTopK <= RrfK + 1
  PROVE  Spec => []AgreementWins
<1>1. FusedInv => AgreementWins
  <2> SUFFICES ASSUME FusedInv, NEW i \in DOMAIN fused, NEW j \in DOMAIN fused,
                      \/ Ahead(dense, fused[i], fused[j]) /\ Ahead(sparse, fused[i], fused[j])
                      \/ /\ fused[i] \in Items(dense) \intersect Items(sparse)
                         /\ fused[j] \notin Items(dense) \intersect Items(sparse)
               PROVE  i <= j
    BY DEF AgreementWins, Ahead
  <2> SUFFICES ASSUME j < i PROVE FALSE
    BY FusedFacts
  <2>1. /\ fused[i] \in All(dense, sparse) /\ fused[j] \in All(dense, sparse)
        /\ Outranks(dense, sparse, fused[j], fused[i])
        /\ IsList(dense) /\ IsList(sparse)
        /\ Len(dense) <= RrfK + 1 /\ Len(sparse) <= RrfK + 1
    <3>1. Len(dense) \in Nat /\ Len(sparse) \in Nat /\ SearchTopK \in Nat /\ RrfK \in Nat
      BY RetrievalAssumption, FusionAssumption, ListFacts DEF FusedInv
    <3> QED BY <3>1, FusedFacts DEF FusedInv
  <2>2. fused[i] # fused[j] /\ ~Outranks(dense, sparse, fused[i], fused[j])
    BY <2>1, OutranksIsAnOrder
  <2> QED BY <2>1, <2>2, AheadWins, BothWin
<1> QED BY <1>1, FusedInvariant, PTL

\* A stale candidate costs one place and no more (hybrid_retrieve_node): what
\* has a row is missing only behind FusedTopK others, and the order is kept.
THEOREM StaleCostsOnePlace == Spec => BestSurvive
<1> DEFINE Survives ==
             /\ \A x \in Listed \intersect rows :
                  x \notin Items(candidates') => Cardinality(Better(x)) >= FusedTopK
             /\ \A i, j \in DOMAIN candidates' :
                  i < j => Outranks(dense, sparse, candidates'[i], candidates'[j])
<1>1. ASSUME FusedInv, HybridRetrieveNode PROVE Survives
  <2> DEFINE kept == {i \in DOMAIN fused : fused[i] \in rows}
  <2>1. candidates' = At(fused, kept)
    BY <1>1 DEF HybridRetrieveNode, WithRow
  <2>2. DOMAIN fused = 1..Len(fused) /\ Len(fused) \in Nat
    BY <1>1, FusedFacts
  <2>3. kept \in SUBSET Nat /\ IsFiniteSet(kept)
    <3>1. kept \in SUBSET (1..Len(fused)) /\ IsFiniteSet(1..Len(fused))
      BY <2>2, FS_Interval
    <3> QED BY <2>2, <3>1, FS_Subset
  <2>4. \A i : i \in kept <=> i \in DOMAIN fused /\ fused[i] \in rows
    OBVIOUS
  <2> HIDE DEF kept
  <2>5. /\ \A i \in kept : \E n \in DOMAIN candidates' : candidates'[n] = fused[i]
        /\ \A m, n \in DOMAIN candidates' : m < n =>
             \E i, k \in kept : i < k /\ candidates'[m] = fused[i] /\ candidates'[n] = fused[k]
    <3> DEFINE c == At(fused, kept)
    <3>1. \A i \in kept : \E n \in DOMAIN c : c[n] = fused[i]
      BY <2>3, AtKeeps
    <3>2. \A m, n \in DOMAIN c : m < n =>
            \E i, k \in kept : i < k /\ c[m] = fused[i] /\ c[n] = fused[k]
      BY <2>3, AtKeeps
    <3> HIDE DEF c
    <3>3. candidates' = c
      BY <2>1 DEF c
    <3> QED BY <3>1, <3>2, <3>3
  <2>6. Listed = All(dense, sparse) /\ \A x : Better(x) = Above(dense, sparse, x)
    BY DEF Listed, All, Better, Above
  <2>7. ASSUME NEW x \in Listed \intersect rows, x \notin Items(candidates')
        PROVE  Cardinality(Better(x)) >= FusedTopK
    <3>1. \A i \in DOMAIN fused : fused[i] # x
      BY <2>4, <2>5, <2>7 DEF Items
    <3> QED BY <1>1, <2>6, <2>7, <3>1, FusedFacts
  <2>8. ASSUME NEW m \in DOMAIN candidates', NEW n \in DOMAIN candidates', m < n
        PROVE  Outranks(dense, sparse, candidates'[m], candidates'[n])
    <3>1. PICK i, k \in kept : i < k /\ candidates'[m] = fused[i] /\ candidates'[n] = fused[k]
      BY <2>5, <2>8
    <3> QED BY <1>1, <2>4, <3>1, FusedFacts
  <2> QED BY <2>7, <2>8
<1>2. FusedInv /\ [Next]_vars => [HybridRetrieveNode => Survives]_vars
  BY <1>1
<1> QED BY <1>2, FusedInvariant, PTL DEF Spec, BestSurvive

-----------------------------------------------------------------------------
(* The lists that the strategies of the harness return, and their metrics. *)

LEMMA CutsAreDistinct ==
  ASSUME NEW r, Distinct(r), NEW k \in Nat
  PROVE  /\ Distinct(Cut(r, k)) /\ Len(Cut(r, k)) <= Len(r)
         /\ Items(Cut(r, k)) \subseteq Items(r)
         /\ Len(Cut(r, k)) = IF k < Len(r) THEN k ELSE Len(r)
<1> DEFINE c == Cut(r, k)
<1>1. /\ DOMAIN c = 1..Len(c) /\ Len(c) \in Nat /\ Len(c) <= Len(r)
      /\ \A i \in DOMAIN c : c[i] = r[i]
  BY CutKeeps DEF Distinct
<1>2. c \in Seq(Items(r)) /\ DOMAIN r = 1..Len(r) /\ Len(r) \in Nat
  BY DEF Distinct, Cut
<1> HIDE DEF c
<1>3. c \in Seq(Items(c))
  BY <1>1, <1>2 DEF Items
<1>4. Ranking(c)
  BY <1>1, <1>2 DEF Distinct, Ranking
<1>5. Items(c) \subseteq Items(r)
  BY <1>1, <1>2 DEF Items
<1>6. Len(c) = IF k < Len(r) THEN k ELSE Len(r)
  BY <1>2 DEF Cut, c
<1> QED BY <1>1, <1>3, <1>4, <1>5, <1>6 DEF Distinct, c

LEMMA FusionsAreDistinct ==
  ASSUME NEW d, NEW s, IsList(d), IsList(s)
  PROVE  /\ Distinct(Fuse(d, s)) /\ Items(Fuse(d, s)) \subseteq All(d, s)
         /\ Len(d) <= Len(Fuse(d, s))
<1> DEFINE F == Fuse(d, s)
<1>1. /\ F \in Seq(All(d, s)) /\ Len(F) = Cardinality(All(d, s))
      /\ \A i, j \in DOMAIN F : i < j => Outranks(d, s, F[i], F[j])
      /\ \A x \in All(d, s) : ~Outranks(d, s, x, x)
  BY FuseSorts, OutranksIsAnOrder
<1> HIDE DEF F
<1>2. F \in Seq(Items(F)) /\ DOMAIN F = 1..Len(F) /\ Len(F) \in Nat /\ \A i \in DOMAIN F : F[i] \in All(d, s)
  BY <1>1 DEF Items
<1>3. Ranking(F)
  BY <1>1, <1>2 DEF Ranking
<1>4. Items(F) \subseteq All(d, s)
  BY <1>2 DEF Items
<1>5. Len(d) <= Len(F)
  <2>1. /\ IsFiniteSet(Items(d)) /\ IsFiniteSet(Items(s)) /\ Len(d) = Cardinality(Items(d))
        /\ Items(d) \in SUBSET All(d, s)
    BY ItemsAreFinite DEF IsList, All
  <2>2. IsFiniteSet(All(d, s))
    BY <2>1, FS_Union DEF All
  <2> QED BY <1>1, <2>1, <2>2, FS_Subset
<1> QED BY <1>2, <1>3, <1>4, <1>5 DEF Distinct, F

\* A set of numbers has a smallest and a greatest element.
LEMMA Bounds ==
  ASSUME NEW S \in SUBSET Nat, IsFiniteSet(S), S # {}
  PROVE  /\ Min(S) \in S /\ \A j \in S : Min(S) <= j
         /\ Max(S) \in S /\ \A j \in S : Max(S) >= j
<1> DEFINE upTo(i) == Cardinality({j \in S : j <= i})
           c == Cardinality(S)
<1>1. c \in Nat /\ c # 0 /\ \A i \in S : upTo(i) \in 1..c
  BY CountUpTo, FS_EmptySet
<1>2. \A i, k \in S : i < k => upTo(i) < upTo(k)
  BY CountUpTo
<1>3. \A n \in 1..c : \E i \in S : upTo(i) = n
  BY NthElement
<1>4. \A i \in S : i \in Nat
  OBVIOUS
<1> HIDE DEF upTo, c
<1>5. \E i \in S : \A j \in S : i <= j
  <2>1. PICK i \in S : upTo(i) = 1
    BY <1>1, <1>3
  <2>2. \A j \in S : ~(j < i)
    BY <1>1, <1>2, <2>1
  <2> QED BY <1>4, <2>2
<1>6. \E i \in S : \A j \in S : i >= j
  <2>1. PICK i \in S : upTo(i) = c
    BY <1>1, <1>3
  <2>2. \A j \in S : ~(i < j)
    BY <1>1, <1>2, <2>1
  <2> QED BY <1>4, <2>2
<1> QED BY <1>5, <1>6 DEF Min, Max

LEMMA TopKIsACutOff == TopK \in 1..10 /\ \A k \in KList : k <= TopK
<1>1. IsFiniteSet(1..10)
  <2>1. 1 \in Int /\ 10 \in Int
    OBVIOUS
  <2> QED BY ONLY <2>1, FS_Interval
<1>2. KList \in SUBSET (1..10) /\ KList # {}
  BY EvaluationAssumption
<1>3. KList \in SUBSET Nat /\ IsFiniteSet(KList)
  <2>1. KList \in SUBSET Nat
    BY <1>2
  <2>2. IsFiniteSet(KList)
    BY ONLY <1>1, <1>2, FS_Subset
  <2> QED BY <2>1, <2>2
<1>4. TopK \in KList /\ \A k \in KList : TopK >= k
  BY <1>2, <1>3, Bounds DEF TopK
<1>5. TopK \in 1..10 /\ \A k \in KList : k \in Nat
  BY <1>2, <1>4
<1> QED BY <1>4, <1>5

LEMMA CorpusIsFinite == IsFiniteSet(Corpus)
<1>1. IsFiniteSet({"DIST", "FIN", "SEC", "MED"})
  <2>1. IsFiniteSet({"DIST"}) /\ IsFiniteSet({"FIN"}) /\ IsFiniteSet({"SEC"}) /\ IsFiniteSet({"MED"})
    BY FS_Singleton
  <2>2. IsFiniteSet({"DIST"} \union {"FIN"}) /\ IsFiniteSet({"SEC"} \union {"MED"})
    BY <2>1, FS_Union
  <2>3. IsFiniteSet(({"DIST"} \union {"FIN"}) \union ({"SEC"} \union {"MED"}))
    BY <2>2, FS_Union
  <2>4. {"DIST", "FIN", "SEC", "MED"} = ({"DIST"} \union {"FIN"}) \union ({"SEC"} \union {"MED"})
    OBVIOUS
  <2> QED BY <2>3, <2>4
<1>2. IsFiniteSet(1..5)
  <2>1. 1 \in Int /\ 5 \in Int
    OBVIOUS
  <2> QED BY ONLY <2>1, FS_Interval
<1> QED BY <1>1, <1>2, FS_Product DEF Corpus

\* Documents without repetitions, and enough for the highest cut-off if there are.
IsFull(r) ==
  /\ Distinct(r) /\ Items(r) \subseteq Docs
  /\ TopK <= Cardinality(Docs) => TopK <= Len(r)

\* Whatever the scorers and the cross-encoder do, lists have no document twice
\* and are as long as they can be.
LEMMA ListsAreFull ==
  ASSUME NEW s \in Strategies, NEW r \in Lists[s]
  PROVE  IsFull(r)
<1> DEFINE n == Cardinality(Docs)
<1>0. TopK \in 1..10
  BY TopKIsACutOff
<1>1. n \in 0..MaxRank
  BY CorpusIsFinite, FS_Subset, FS_CardinalityType, EvaluationAssumption, FusionAssumption
<1> HIDE DEF n
<1>2. ASSUME NEW x \in Scored
      PROVE  IsList(x) /\ Distinct(x) /\ Len(x) = n /\ Items(x) \subseteq Docs
  <2>1. IsList(x) /\ Len(x) = n /\ x \in Seq(Docs)
    BY <1>1, <1>2, RankingsAreLists DEF Scored, n
  <2> QED BY <2>1 DEF IsList, Items
<1>3. ASSUME NEW x \in Scored
      PROVE  /\ IsList(Cut(x, 20)) /\ Items(Cut(x, 20)) \subseteq Docs
             /\ Len(Cut(x, 20)) = IF 20 < n THEN 20 ELSE n
  <2>1. /\ Distinct(Cut(x, 20)) /\ Len(Cut(x, 20)) <= Len(x) /\ Items(Cut(x, 20)) \subseteq Items(x)
        /\ Len(Cut(x, 20)) = IF 20 < Len(x) THEN 20 ELSE Len(x)
    BY <1>2, CutsAreDistinct
  <2>2. Len(x) <= MaxRank /\ Len(x) \in Nat /\ Len(Cut(x, 20)) \in Nat /\ MaxRank \in Nat
    BY <1>2, <2>1, FusionAssumption DEF IsList, Distinct
  <2> QED BY <1>2, <2>1, <2>2 DEF IsList
<1>4. ASSUME NEW f \in Fused PROVE IsFull(f)
  <2>1. PICK x \in Scored, y \in Scored : f = Cut(Fuse(Cut(x, 20), Cut(y, 20)), 20)
    BY DEF Fused
  <2> DEFINE a == Cut(x, 20)
             b == Cut(y, 20)
             g == Fuse(a, b)
  <2>2. /\ IsList(a) /\ Items(a) \subseteq Docs /\ IsList(b) /\ Items(b) \subseteq Docs
        /\ Len(a) = IF 20 < n THEN 20 ELSE n
    BY <1>3
  <2> HIDE DEF a, b
  <2>3. Distinct(g) /\ Items(g) \subseteq All(a, b) /\ Len(a) <= Len(g)
    BY <2>2, FusionsAreDistinct
  <2> HIDE DEF g
  <2>6. Len(g) \in Nat
    BY <2>3 DEF Distinct
  <2>4. /\ Distinct(f) /\ Items(f) \subseteq Items(g)
        /\ Len(f) = IF 20 < Len(g) THEN 20 ELSE Len(g)
    BY <2>1, <2>3, CutsAreDistinct DEF g, a, b
  <2>5. Items(f) \subseteq Docs
    BY <2>2, <2>3, <2>4 DEF All
  <2>7. TopK <= n => TopK <= Len(f)
    BY <1>0, <1>1, <2>2, <2>3, <2>4, <2>6, FusionAssumption
  <2> QED BY <2>4, <2>5, <2>7 DEF IsFull, n
<1>5. ASSUME NEW x \in Reranked PROVE IsFull(x)
  <2>1. PICK f \in Fused : x \in Rankings(Items(f), Cardinality(Items(f)))
    BY DEF Reranked
  <2>2. IsFiniteSet(Items(f)) /\ Cardinality(Items(f)) = Len(f)
    BY <1>4, ItemsAreFinite DEF IsFull
  <2> DEFINE k == Cardinality(Items(f))
  <2>3. k \in Nat
    BY <2>2, FS_CardinalityType
  <2>4. x \in [1..k -> Items(f)] /\ Ranking(x)
    BY <2>1 DEF Rankings
  <2>5. k = Len(f)
    BY <2>2
  <2> HIDE DEF k
  <2>6. x \in [1..k -> Items(x)] /\ Items(x) \subseteq Items(f)
    BY <2>4 DEF Items
  <2>7. x \in Seq(Items(x)) /\ Len(x) = k
    BY <2>3, <2>6
  <2> QED BY <1>4, <2>4, <2>5, <2>6, <2>7 DEF Distinct, IsFull
<1>6. ASSUME NEW x \in Scored PROVE IsFull(x)
  BY <1>2 DEF IsFull, n
<1>7. \E x : r = Cut(x, TopK) /\ IsFull(x)
  BY <1>4, <1>5, <1>6 DEF Lists, Strategies
<1> QED
  <2>1. PICK x : r = Cut(x, TopK) /\ IsFull(x)
    BY <1>7
  <2>2. /\ Distinct(r) /\ Items(r) \subseteq Items(x)
        /\ Len(r) = IF TopK < Len(x) THEN TopK ELSE Len(x)
    BY <1>0, <2>1, CutsAreDistinct DEF IsFull
  <2>3. Len(x) \in Nat
    BY <2>1 DEF IsFull, Distinct
  <2>4. TopK <= Cardinality(Docs) => TopK <= Len(r)
    BY <1>0, <2>1, <2>2, <2>3 DEF IsFull
  <2> QED BY <2>1, <2>2, <2>4 DEF IsFull

\* round(n / m, 4), in ten-thousandths.
LEMMA RoundedFacts ==
  ASSUME NEW m, NEW n, m \in 1..10, n \in 0..m
  PROVE  /\ Rounded(n, m) \in 0..10000 /\ (n = 0 <=> Rounded(n, m) = 0)
         /\ n = m => Rounded(n, m) = 10000
<1>1. Rounded(n, m) \in 0..10000
  BY DEF Rounded
<1>2. n = 0 <=> Rounded(n, m) = 0
  BY DEF Rounded
<1>3. n = m => Rounded(n, m) = 10000
  BY DEF Rounded
<1> QED BY <1>1, <1>2, <1>3

LEMMA RoundedGrows ==
  ASSUME NEW m, NEW n, NEW l, m \in 1..10, n \in 0..m, l \in 0..m, n <= l
  PROVE  Rounded(n, m) <= Rounded(l, m)
BY DEF Rounded

\* Each query of the benchmark has from one to five relevant documents.
LEMMA RelevantFacts ==
  ASSUME NEW q \in DOMAIN GroundTruth
  PROVE  IsFiniteSet(Relevant(q)) /\ Cardinality(Relevant(q)) \in 1..5
<1> DEFINE D == GroundTruth[q].domain
<1>1. Relevant(q) \in SUBSET ({D} \X (1..5))
  BY DEF Relevant, Grade, Corpus
<1>2. IsFiniteSet({D} \X (1..5)) /\ Cardinality({D} \X (1..5)) = 5
  <2> HIDE DEF D
  <2>1. IsFiniteSet({D}) /\ Cardinality({D}) = 1
    BY FS_Singleton
  <2>2. IsFiniteSet(1..5) /\ Cardinality(1..5) = 5
    <3>1. 1 \in Int /\ 5 \in Int /\ ~(1 > 5) /\ 5 - 1 + 1 = 5
      OBVIOUS
    <3> QED BY ONLY <3>1, FS_Interval
  <2> QED BY <2>1, <2>2, FS_Product
<1>3. Relevant(q) # {}
  <2>1. \E i \in 1..5 : GroundTruth[q].grades[i] >= 2
    <3>1. DOMAIN GroundTruth = {"DIST1", "FIN1", "SEC1", "MED1", "DIST2", "SEC2"}
      BY DEF GroundTruth
    <3>2. ASSUME NEW p \in {"DIST1", "FIN1", "SEC1", "MED1"} PROVE GroundTruth[p].grades[1] = 6
      BY <3>2 DEF GroundTruth
    <3>3. ASSUME NEW p \in {"DIST2", "SEC2"} PROVE GroundTruth[p].grades[4] = 6
      BY <3>3 DEF GroundTruth
    <3> QED BY <3>1, <3>2, <3>3
  <2>2. D \in {"DIST", "FIN", "SEC", "MED"}
    BY DEF GroundTruth
  <2>3. PICK i \in 1..5 : GroundTruth[q].grades[i] >= 2
    BY <2>1
  <2> DEFINE d == <<D, i>>
  <2>4. d \in Corpus /\ d[1] = D /\ d[2] = i
    BY <2>2 DEF Corpus
  <2> HIDE DEF d
  <2>5. Grade(q, d) = GroundTruth[q].grades[i]
    BY <2>4 DEF Grade
  <2> QED BY <2>3, <2>4, <2>5 DEF Relevant
<1> HIDE DEF D
<1>4. IsFiniteSet(Relevant(q)) /\ Cardinality(Relevant(q)) <= 5
  BY <1>1, <1>2, FS_Subset
<1>5. Cardinality(Relevant(q)) \in Nat /\ Cardinality(Relevant(q)) # 0
  BY <1>3, <1>4, FS_CardinalityType, FS_EmptySet
<1> QED BY <1>4, <1>5

\* The ranks of relevant documents up to a cut-off.
LEMMA HitFacts ==
  ASSUME NEW q \in DOMAIN GroundTruth, NEW r, Distinct(r), NEW k \in 1..10
  PROVE  /\ HitRanks(q, r, k) \in SUBSET (1..k) /\ IsFiniteSet(HitRanks(q, r, k))
         /\ Cardinality(HitRanks(q, r, k)) \in 0..k
         /\ Cardinality(HitRanks(q, r, k)) \in 0..Cardinality(Relevant(q))
         /\ \A l \in 1..10 : k <= l =>
              /\ HitRanks(q, r, k) \in SUBSET HitRanks(q, r, l)
              /\ \A i \in HitRanks(q, r, l) : i <= k => i \in HitRanks(q, r, k)
<1> DEFINE H(l) == HitRanks(q, r, l)
<1>1. DOMAIN r = 1..Len(r) /\ Len(r) \in Nat
  BY DEF Distinct
<1>2. ASSUME NEW l \in 1..10 PROVE H(l) = {i \in DOMAIN r : i <= l /\ r[i] \in Relevant(q)}
  <2>1. DOMAIN Cut(r, l) = {i \in DOMAIN r : i <= l}
    <3>1. /\ DOMAIN Cut(r, l) = 1..Len(Cut(r, l)) /\ Len(Cut(r, l)) \in Nat /\ Len(Cut(r, l)) <= Len(r)
          /\ \A i \in DOMAIN r : i <= l => i \in DOMAIN Cut(r, l)
      BY CutKeeps DEF Distinct
    <3>2. Len(Cut(r, l)) <= l
      BY <1>1 DEF Cut
    <3> QED BY <1>1, <3>1, <3>2
  <2> QED BY <2>1 DEF HitRanks
<1>3. H(k) \in SUBSET (1..k)
  BY <1>1, <1>2
<1> HIDE DEF H
<1>4. IsFiniteSet(H(k)) /\ Cardinality(H(k)) \in 0..k
  <2>1. k \in Int /\ 1 \in Int /\ ~(1 > k) /\ k - 1 + 1 = k
    OBVIOUS
  <2>2. IsFiniteSet(1..k) /\ Cardinality(1..k) = k
    BY ONLY <2>1, FS_Interval
  <2>3. IsFiniteSet(H(k)) /\ Cardinality(H(k)) <= k
    BY <1>3, <2>2, FS_Subset
  <2> QED BY <2>3, FS_CardinalityType
<1>5. Cardinality(H(k)) \in 0..Cardinality(Relevant(q))
  <2> DEFINE f == [i \in H(k) |-> r[i]]
  <2>1. \A i \in H(k) : i \in DOMAIN r /\ r[i] \in Relevant(q)
    BY <1>2
  <2>2. f \in Injection(H(k), Relevant(q))
    BY <2>1 DEF Distinct, Ranking, Injection, IsInjective
  <2>3. IsFiniteSet(Relevant(q)) /\ Cardinality(Relevant(q)) \in Nat
    BY RelevantFacts
  <2> HIDE DEF f
  <2>4. Cardinality(H(k)) <= Cardinality(Relevant(q))
    BY <2>2, <2>3, FS_Injection
  <2> QED BY <1>4, <2>3, <2>4
<1>6. ASSUME NEW l \in 1..10, k <= l
      PROVE  H(k) \in SUBSET H(l) /\ \A i \in H(l) : i <= k => i \in H(k)
  <2>1. \A i : i \in H(k) <=> i \in DOMAIN r /\ i <= k /\ r[i] \in Relevant(q)
    BY <1>2
  <2>2. \A i : i \in H(l) <=> i \in DOMAIN r /\ i <= l /\ r[i] \in Relevant(q)
    BY <1>2
  <2>3. \A i \in DOMAIN r : i \in Nat
    BY <1>1
  <2>4. \A i : i \in H(k) => i \in H(l)
    BY <1>6, <2>1, <2>2, <2>3
  <2> QED BY <2>1, <2>2, <2>4
<1> QED BY <1>3, <1>4, <1>5, <1>6 DEF H


\* What AveragesAgree says of sums, said of the metrics a of one list, too.
Names == {"recall", "precision", "mrr", "hit_rate"}
Agree(a) ==
  /\ \A k \in KList : \A m \in Names : a[k][m] \in Nat
  /\ \A k, l \in KList : k <= l => \A m \in Names \ {"precision"} : a[k][m] <= a[l][m]
  /\ \A k \in KList : \A m \in Names :
       a[k][m] <= a[k]["hit_rate"] /\ (a[k][m] = 0 => a[k]["hit_rate"] = 0)
  /\ 1 \in KList => a[1]["precision"] = a[1]["hit_rate"] /\ a[1]["mrr"] = a[1]["hit_rate"]

\* A metric x of a list with hit rate h.
Within(x, h) == x \in Nat /\ x <= h /\ (x = 0 => h = 0)

LEMMA MetricsBounded ==
  ASSUME NEW q \in DOMAIN GroundTruth, NEW r, Distinct(r), NEW k \in 1..10
  PROVE  /\ Within(Recall(q, r, k), HitRate(q, r, k))
         /\ Within(Precision(q, r, k), HitRate(q, r, k))
         /\ Within(Mrr(q, r, k), HitRate(q, r, k))
         /\ Within(HitRate(q, r, k), HitRate(q, r, k))
         /\ k = 1 => Precision(q, r, k) = HitRate(q, r, k) /\ Mrr(q, r, k) = HitRate(q, r, k)
<1> DEFINE H == HitRanks(q, r, k)
           n == Cardinality(H)
           v == Cardinality(Relevant(q))
<1>1. /\ H \in SUBSET (1..k) /\ IsFiniteSet(H) /\ n \in 0..k /\ n \in 0..v
      /\ v \in 1..5
  BY HitFacts, RelevantFacts
<1>2. n = 0 <=> H = {}
  BY <1>1, FS_EmptySet
<1>3. HitRate(q, r, k) = IF n = 0 THEN 0 ELSE 10000
  BY <1>2 DEF HitRate
<1>4. Precision(q, r, k) = Rounded(n, k) /\ Recall(q, r, k) = Rounded(n, v)
  BY DEF Precision, Recall
<1>5. n # 0 => Mrr(q, r, k) = Rounded(1, Min(H)) /\ Min(H) \in 1..k
  <2>1. H \in SUBSET Nat
    BY <1>1
  <2> HIDE DEF H
  <2>2. H # {} => Min(H) \in H
    BY <1>1, <2>1, Bounds
  <2>3. H # {} => Min(H) \in 1..k
    BY <1>1, <2>2
  <2>4. H # {} => Mrr(q, r, k) = Rounded(1, Min(H))
    BY DEF Mrr, H
  <2> QED BY <1>2, <2>3, <2>4
<1>6. n = 0 => Mrr(q, r, k) = 0
  BY <1>2 DEF Mrr
<1> DEFINE mm == Min(H)
<1> HIDE DEF n, v, H, mm
<1>7. /\ Rounded(n, k) \in 0..10000 /\ (n = 0 <=> Rounded(n, k) = 0)
      /\ Rounded(n, v) \in 0..10000 /\ (n = 0 <=> Rounded(n, v) = 0)
  <2>1. k \in 1..10 /\ v \in 1..10 /\ n \in 0..k /\ n \in 0..v
    BY <1>1
  <2> QED BY <2>1, RoundedFacts
<1>8. Mrr(q, r, k) \in 0..10000 /\ (n = 0 <=> Mrr(q, r, k) = 0)
  <2>1. CASE n = 0
    BY <1>6, <2>1
  <2>2. CASE n # 0
    <3>1. mm \in 1..10 /\ 1 \in 0..mm /\ Mrr(q, r, k) = Rounded(1, mm)
      BY <1>5, <2>2 DEF mm
    <3> QED BY <2>2, <3>1, RoundedFacts
  <2> QED BY <2>1, <2>2
<1>9. ASSUME NEW x, x \in 0..10000, n = 0 <=> x = 0 PROVE Within(x, HitRate(q, r, k))
  BY <1>3, <1>9 DEF Within
<1>10. HitRate(q, r, k) \in 0..10000 /\ (n = 0 <=> HitRate(q, r, k) = 0)
  BY <1>3
<1>11. ASSUME k = 1 PROVE Precision(q, r, k) = HitRate(q, r, k) /\ Mrr(q, r, k) = HitRate(q, r, k)
  <2>1. Rounded(1, 1) = 10000 /\ Rounded(0, 1) = 0
    <3>1. 1 \in 1..10 /\ 0 \in 0..1 /\ 1 \in 0..1
      OBVIOUS
    <3> QED BY <3>1, RoundedFacts
  <2>2. n \in {0, 1}
    BY <1>1, <1>11
  <2>3. n # 0 => mm = 1
    BY <1>5, <1>11 DEF mm
  <2> QED BY <1>3, <1>4, <1>5, <1>6, <1>11, <2>1, <2>2, <2>3 DEF mm
<1>12. /\ Within(Recall(q, r, k), HitRate(q, r, k))
       /\ Within(Precision(q, r, k), HitRate(q, r, k))
  BY <1>4, <1>7, <1>9
<1> QED BY <1>8, <1>9, <1>10, <1>11, <1>12

\* A larger cut-off loses none of them but precision.
LEMMA MetricsGrow ==
  ASSUME NEW q \in DOMAIN GroundTruth, NEW r, Distinct(r), NEW k \in 1..10, NEW l \in 1..10, k <= l
  PROVE  /\ Recall(q, r, k) <= Recall(q, r, l) /\ HitRate(q, r, k) <= HitRate(q, r, l)
         /\ Mrr(q, r, k) <= Mrr(q, r, l)
<1> DEFINE H == HitRanks(q, r, k)
           G == HitRanks(q, r, l)
           v == Cardinality(Relevant(q))
<1>1. /\ H \in SUBSET (1..k) /\ IsFiniteSet(H) /\ Cardinality(H) \in 0..v
      /\ G \in SUBSET (1..l) /\ IsFiniteSet(G) /\ Cardinality(G) \in 0..v
      /\ H \in SUBSET G /\ \A i \in G : i <= k => i \in H
      /\ v \in 1..5
  BY HitFacts, RelevantFacts
<1>2. Recall(q, r, k) = Rounded(Cardinality(H), v) /\ Recall(q, r, l) = Rounded(Cardinality(G), v)
  BY DEF Recall
<1>3. /\ HitRate(q, r, k) = (IF H = {} THEN 0 ELSE 10000)
      /\ HitRate(q, r, l) = (IF G = {} THEN 0 ELSE 10000)
  BY DEF HitRate
<1>4. /\ Mrr(q, r, k) = (IF H = {} THEN 0 ELSE Rounded(1, Min(H)))
      /\ Mrr(q, r, l) = (IF G = {} THEN 0 ELSE Rounded(1, Min(G)))
  BY DEF Mrr
<1>5. Mrr(q, r, k) \in Nat /\ Mrr(q, r, l) \in Nat
  BY MetricsBounded DEF Within
<1>0. H \in SUBSET Nat /\ G \in SUBSET Nat
  BY <1>1
<1> HIDE DEF H, G, v
<1>6. Recall(q, r, k) <= Recall(q, r, l)
  <2>1. Cardinality(H) <= Cardinality(G)
    BY <1>1, FS_Subset
  <2>2. v \in 1..10 /\ Cardinality(H) \in 0..v /\ Cardinality(G) \in 0..v
    BY <1>1
  <2>3. Rounded(Cardinality(H), v) <= Rounded(Cardinality(G), v)
    BY <2>1, <2>2, RoundedGrows
  <2> QED BY <1>2, <2>3
<1>7. HitRate(q, r, k) <= HitRate(q, r, l)
  BY <1>1, <1>3
<1>8. Mrr(q, r, k) <= Mrr(q, r, l)
  <2>1. CASE H = {}
    BY <1>4, <1>5, <2>1
  <2>2. CASE H # {}
    <3>1. G # {}
      BY <1>1, <2>2
    <3>2. Min(H) \in H /\ \A j \in H : Min(H) <= j
      BY <1>0, <1>1, <2>2, Bounds
    <3>3. Min(G) \in G /\ \A j \in G : Min(G) <= j
      BY <1>0, <1>1, <3>1, Bounds
    <3> DEFINE a == Min(H)
               b == Min(G)
    <3>4. a \in Nat /\ b \in Nat /\ k \in Nat
      <4>1. \A j : j \in H \/ j \in G => j \in Nat
        BY <1>0
      <4> QED BY <3>2, <3>3, <4>1
    <3>5. a \in 1..k /\ a \in G
      BY <1>1, <3>2
    <3>6. b <= a
      BY <3>3, <3>5
    <3> HIDE DEF a, b
    <3>7. b <= k
      BY <3>4, <3>5, <3>6
    <3>8. b \in H
      BY <1>1, <3>3, <3>7 DEF b
    <3>9. a <= b
      BY <3>2, <3>8 DEF a
    <3>10. a = b
      BY <3>4, <3>6, <3>9
    <3> QED BY <1>4, <1>5, <2>2, <3>1, <3>10 DEF a, b
  <2> QED BY <2>1, <2>2
<1> QED BY <1>6, <1>7, <1>8


LEMMA MetricsAgree ==
  ASSUME NEW q \in DOMAIN GroundTruth, NEW r, Distinct(r)
  PROVE  Agree(MetricsOf(q, r))
<1> DEFINE a == MetricsOf(q, r)
<1>1. KList \in SUBSET (1..10)
  BY EvaluationAssumption
<1>2. ASSUME NEW k \in KList
      PROVE  /\ a[k]["recall"] = Recall(q, r, k) /\ a[k]["precision"] = Precision(q, r, k)
             /\ a[k]["mrr"] = Mrr(q, r, k) /\ a[k]["hit_rate"] = HitRate(q, r, k)
  BY DEF MetricsOf
<1> HIDE DEF a
<1>3. ASSUME NEW k \in KList, NEW m \in Names PROVE Within(a[k][m], a[k]["hit_rate"])
  <2>1. k \in 1..10
    BY <1>1
  <2> QED BY <1>2, <2>1, MetricsBounded DEF Names
<1>4. ASSUME NEW k \in KList, NEW l \in KList, k <= l, NEW m \in Names \ {"precision"}
      PROVE  a[k][m] <= a[l][m]
  <2>1. k \in 1..10 /\ l \in 1..10
    BY <1>1
  <2>2. /\ a[k]["recall"] <= a[l]["recall"] /\ a[k]["mrr"] <= a[l]["mrr"]
        /\ a[k]["hit_rate"] <= a[l]["hit_rate"]
    BY <1>2, <1>4, <2>1, MetricsGrow
  <2> QED BY <2>2 DEF Names
<1>5. 1 \in KList => a[1]["precision"] = a[1]["hit_rate"] /\ a[1]["mrr"] = a[1]["hit_rate"]
  BY <1>1, <1>2, MetricsBounded
<1> QED BY <1>3, <1>4, <1>5 DEF Agree, Within, a

\* The sums of metrics that agree.
LEMMA SumsAgree ==
  ASSUME NEW a, NEW b, NEW c, Agree(a), Agree(b),
         \A k \in KList : \A m \in Names : c[k][m] = a[k][m] + b[k][m]
  PROVE  Agree(c)
<1>1. \A k \in KList : \A m \in Names : a[k][m] \in Nat /\ b[k][m] \in Nat /\ c[k][m] \in Nat
  BY DEF Agree
<1>2. "hit_rate" \in Names /\ "precision" \in Names /\ "mrr" \in Names
  BY DEF Names
<1>3. ASSUME NEW k \in KList, NEW l \in KList, k <= l, NEW m \in Names \ {"precision"}
      PROVE  c[k][m] <= c[l][m]
  BY <1>1, <1>3 DEF Agree
<1>4. ASSUME NEW k \in KList, NEW m \in Names
      PROVE  c[k][m] <= c[k]["hit_rate"] /\ (c[k][m] = 0 => c[k]["hit_rate"] = 0)
  <2>1. /\ a[k][m] <= a[k]["hit_rate"] /\ (a[k][m] = 0 => a[k]["hit_rate"] = 0)
        /\ b[k][m] <= b[k]["hit_rate"] /\ (b[k][m] = 0 => b[k]["hit_rate"] = 0)
    BY DEF Agree
  <2> QED BY <1>1, <1>2, <2>1
<1>5. 1 \in KList => c[1]["precision"] = c[1]["hit_rate"] /\ c[1]["mrr"] = c[1]["hit_rate"]
  BY <1>2 DEF Agree
<1> QED BY <1>1, <1>3, <1>4, <1>5 DEF Agree

EvaluationInv ==
  /\ strategy \in Strategies /\ done \in Nat
  /\ Agree(accum)

LEMMA EvaluationStart == EvaluationInit => EvaluationInv
BY DEF EvaluationInit, EvaluationInv, Agree, Zero, Names, MetricNames

LEMMA EvaluationStep == EvaluationInv /\ [Evaluate]_evaluation => EvaluationInv'
<1> SUFFICES ASSUME EvaluationInv, [Evaluate]_evaluation PROVE EvaluationInv'
  OBVIOUS
<1>1. CASE Evaluate
  <2>1. PICK r \in Lists[strategy] :
          /\ metrics' = MetricsOf(Queries[done + 1], r)
          /\ accum' = [k \in KList |-> [m \in MetricNames |-> accum[k][m] + metrics'[k][m]]]
    BY <1>1 DEF Evaluate
  <2>2. Queries[done + 1] \in DOMAIN GroundTruth
    <3>1. done \in Nat /\ done < Len(Queries)
      BY <1>1 DEF Evaluate, EvaluationInv
    <3> QED BY <3>1, EvaluationAssumption
  <2>3. Agree(metrics')
    BY <2>1, <2>2, ListsAreFull, MetricsAgree DEF EvaluationInv, IsFull
  <2>4. \A k \in KList : \A m \in Names : accum'[k][m] = accum[k][m] + metrics'[k][m]
    BY <2>1 DEF Names, MetricNames
  <2>5. Agree(accum')
    BY <2>3, <2>4, SumsAgree DEF EvaluationInv
  <2>6. strategy' = strategy /\ done' = done + 1
    BY <1>1 DEF Evaluate
  <2> QED BY <2>5, <2>6 DEF EvaluationInv, Agree
<1>2. CASE UNCHANGED evaluation
  BY <1>2 DEF evaluation, EvaluationInv, Agree
<1> QED BY <1>1, <1>2

\* Whatever the scorers return for whichever queries, the averages that the
\* harness reports of one strategy agree with each other (evaluate_all).
THEOREM AveragesAlwaysAgree == EvaluationSpec => []AveragesAgree
<1>1. EvaluationInv => AveragesAgree
  <2> SUFFICES ASSUME EvaluationInv PROVE AveragesAgree
    OBVIOUS
  <2>1. ASSUME NEW k \in KList, NEW l \in KList, k <= l
        PROVE  /\ accum[k]["recall"] <= accum[l]["recall"] /\ accum[k]["mrr"] <= accum[l]["mrr"]
               /\ accum[k]["hit_rate"] <= accum[l]["hit_rate"]
    BY <2>1 DEF EvaluationInv, Agree, Names
  <2>2. ASSUME NEW k \in KList, NEW m \in {"recall", "precision", "mrr"}
        PROVE  accum[k][m] <= accum[k]["hit_rate"] /\ (accum[k][m] = 0 => accum[k]["hit_rate"] = 0)
    BY DEF EvaluationInv, Agree, Names
  <2>3. ASSUME NEW k \in KList, k = 1
        PROVE  accum[k]["precision"] = accum[k]["hit_rate"] /\ accum[k]["mrr"] = accum[k]["hit_rate"]
    BY <2>3 DEF EvaluationInv, Agree
  <2> QED BY <2>1, <2>2, <2>3 DEF AveragesAgree
<1> QED BY <1>1, EvaluationStart, EvaluationStep, PTL DEF EvaluationSpec

-----------------------------------------------------------------------------
(* NDCG is 1 for ideal lists only.                                         *)

\* Induction up to a bound, over a set.
LEMMA UpTo ==
  ASSUME NEW k \in Nat, NEW S, 0 \in S, \A n \in 1..k : n - 1 \in S => n \in S
  PROVE  \A n \in 0..k : n \in S
<1> DEFINE bad == {n \in 0..k : n \notin S}
<1> SUFFICES ASSUME bad # {} PROVE FALSE
  OBVIOUS
<1>1. bad \in SUBSET Nat /\ IsFiniteSet(bad)
  <2>1. 0 \in Int /\ k \in Int /\ bad \in SUBSET (0..k)
    OBVIOUS
  <2>2. IsFiniteSet(bad)
    BY ONLY <2>1, FS_Interval, FS_Subset
  <2> QED BY <2>1, <2>2
<1> DEFINE n == Min(bad)
<1>2. n \in bad /\ \A j \in bad : n <= j
  <2> HIDE DEF bad
  <2> QED BY <1>1, Bounds
<1> HIDE DEF n
<1>3. n \in 1..k /\ n - 1 \notin bad
  BY <1>2
<1> QED BY <1>2, <1>3

\* sums(0), ..., sums(n) of the terms of a function.
SumsOf(f, n, s) == s = [i \in 0..n |-> IF i = 0 THEN 0 ELSE s[i - 1] + f[i]]

LEMMA SumsExist ==
  ASSUME NEW f, NEW n \in Nat
  PROVE  \E s : SumsOf(f, n, s)
<1> DEFINE S == {m \in Nat : \E s : SumsOf(f, m, s)}
<1>1. 0 \in S
  <2>1. SumsOf(f, 0, [i \in 0..0 |-> 0])
    BY DEF SumsOf
  <2> QED BY <2>1
<1>2. ASSUME NEW m \in Nat, NEW s, SumsOf(f, m, s) PROVE \E u : SumsOf(f, m + 1, u)
  <2> DEFINE u == [i \in 0..(m + 1) |-> IF i <= m THEN s[i] ELSE s[m] + f[m + 1]]
  <2>1. s[0] = 0 /\ \A i \in 1..m : s[i] = s[i - 1] + f[i]
    BY <1>2 DEF SumsOf
  <2>2. ASSUME NEW i \in 0..(m + 1) PROVE u[i] = IF i = 0 THEN 0 ELSE u[i - 1] + f[i]
    <3>1. CASE i = 0
      BY <2>1, <3>1
    <3>2. CASE i \in 1..m
      <4>1. i - 1 \in 0..(m + 1) /\ i - 1 <= m /\ i <= m /\ i # 0
        BY <3>2
      <4>2. u[i] = s[i] /\ u[i - 1] = s[i - 1]
        BY <4>1
      <4> QED BY <2>1, <3>2, <4>1, <4>2
    <3>3. CASE i = m + 1
      <4>1. i - 1 = m /\ m \in 0..(m + 1) /\ ~(i <= m) /\ i # 0
        BY <3>3
      <4>2. u[i] = s[m] + f[m + 1] /\ u[m] = s[m]
        BY <4>1
      <4> QED BY <3>3, <4>1, <4>2
    <3> QED BY <3>1, <3>2, <3>3
  <2>3. u = [i \in 0..(m + 1) |-> IF i = 0 THEN 0 ELSE u[i - 1] + f[i]]
    <3>1. u = [i \in 0..(m + 1) |-> u[i]]
      OBVIOUS
    <3> HIDE DEF u
    <3> QED BY <2>2, <3>1
  <2> HIDE DEF u
  <2> QED BY <2>3 DEF SumsOf
<1>3. \A m \in 1..n : m - 1 \in S => m \in S
  <2> SUFFICES ASSUME NEW m \in 1..n, NEW s, m - 1 \in Nat, SumsOf(f, m - 1, s)
               PROVE  \E u : SumsOf(f, m, u)
    OBVIOUS
  <2>1. \E u : SumsOf(f, (m - 1) + 1, u)
    BY <1>2
  <2>2. (m - 1) + 1 = m
    OBVIOUS
  <2> QED BY <2>1, <2>2
<1> HIDE DEF S
<1>4. \A m \in 0..n : m \in S
  BY <1>1, <1>3, UpTo
<1>5. n \in S
  BY <1>4
<1> QED BY <1>5 DEF S

LEMMA SumSteps ==
  ASSUME NEW f, NEW n \in Nat
  PROVE  \E s : SumTo(f, n) = s[n] /\ s[0] = 0 /\ \A i \in 1..n : s[i] = s[i - 1] + f[i]
<1> DEFINE s == CHOOSE s : SumsOf(f, n, s)
<1>1. SumTo(f, n) = s[n]
  BY DEF SumTo, SumsOf
<1>2. SumsOf(f, n, s)
  BY SumsExist
<1> HIDE DEF s
<1>3. s = [i \in 0..n |-> IF i = 0 THEN 0 ELSE s[i - 1] + f[i]]
  BY <1>2 DEF SumsOf
<1>4. s[0] = 0 /\ \A i \in 1..n : s[i] = s[i - 1] + f[i]
  BY <1>3
<1> QED BY <1>1, <1>4

\* What a list lacks at some rank costs it more than it can make good later.
LEMMA Weighing ==
  ASSUME NEW x \in Int, NEW c \in Nat, NEW e \in Nat, NEW a \in Nat, NEW b \in Nat,
         x >= c * a, c > e, e # 0
  PROVE  /\ x + e * (b - a) >= e * b
         /\ x + e * (b - a) = 0 => x = 0 /\ a = 0 /\ b = 0
<1>1. c * a >= e * a /\ (c * a = e * a => a = 0)
  OBVIOUS
<1>2. e * (b - a) = e * b - e * a
  OBVIOUS
<1>3. e * b >= 0 /\ (e * b = 0 => b = 0) /\ e * a >= 0 /\ c * a >= 0
  OBVIOUS
<1> DEFINE ca == c * a
           ea == e * a
           eb == e * b
           y  == e * (b - a)
<1>4. ca \in Int /\ ea \in Int /\ eb \in Int /\ y \in Int
  OBVIOUS
<1>5. ca >= ea /\ (ca = ea => a = 0) /\ y = eb - ea /\ eb >= 0 /\ (eb = 0 => b = 0) /\ x >= ca
  BY <1>1, <1>2, <1>3
<1>6. ca = ea /\ a = 0 => ea = 0 /\ ca = 0
  OBVIOUS
<1> HIDE DEF ca, ea, eb, y
<1>7. x + y >= eb /\ (x + y = 0 => x = 0 /\ a = 0 /\ b = 0)
  BY <1>4, <1>5, <1>6
<1> QED BY <1>7 DEF y, eb

\* E[n] is what lacks L[1], ..., L[n] cost with decreasing weights.
Costs(k, E, L, c) ==
  /\ \A n \in 0..k : E[n] \in Int /\ L[n] \in Nat
  /\ \A n \in 1..k : c[n] \in Nat /\ c[n] # 0
  /\ \A n \in 2..k : c[n - 1] > c[n]
  /\ E[0] = 0 /\ L[0] = 0
  /\ \A n \in 1..k : E[n] = E[n - 1] + c[n] * (L[n] - L[n - 1])

\* Whatever is lacking at some rank is never repaid.
LEMMA Losses ==
  ASSUME NEW k \in Nat, NEW E, NEW L, NEW c, Costs(k, E, L, c)
  PROVE  E[k] >= 0 /\ (E[k] = 0 <=> \A n \in 0..k : L[n] = 0)
<1> USE DEF Costs
<1> DEFINE Good(n) == /\ n = 0 \/ E[n] >= c[n] * L[n]
                      /\ E[n] = 0 <=> \A j \in 0..n : L[j] = 0
           S == {n \in 0..k : Good(n)}
<1>1. 0 \in S
  <2>1. \A j \in 0..0 : j = 0
    OBVIOUS
  <2> QED BY <2>1
<1>2. ASSUME NEW n \in 1..k, n - 1 \in S PROVE n \in S
  <2> DEFINE x == E[n - 1]
             a == L[n - 1]
             b == L[n]
             e == c[n]
             w == IF n = 1 THEN c[1] + 1 ELSE c[n - 1]
  <2>1. n - 1 \in 0..k /\ n \in 0..k /\ Good(n - 1)
    BY <1>2
  <2>2. x \in Int /\ a \in Nat /\ b \in Nat /\ e \in Nat /\ e # 0 /\ E[n] = x + e * (b - a)
    BY <2>1
  <2>3. w \in Nat /\ w > e
    <3>1. CASE n = 1
      BY <2>2, <3>1
    <3>2. CASE n # 1
      <4>1. n \in 2..k /\ n - 1 \in 1..k
        BY <3>2
      <4> QED BY <3>2, <4>1
    <3> QED BY <3>1, <3>2
  <2>4. x >= w * a
    <3>1. CASE n = 1
      <4>1. x = 0 /\ a = 0
        BY <3>1
      <4> QED BY <2>3, <4>1
    <3>2. CASE n # 1
      <4>1. n - 1 # 0
        BY <3>2
      <4>2. E[n - 1] >= c[n - 1] * L[n - 1]
        BY <2>1, <4>1
      <4> QED BY <3>2, <4>2
    <3> QED BY <3>1, <3>2
  <2>5. x = 0 <=> \A j \in 0..(n - 1) : L[j] = 0
    BY <2>1
  <2>6. \A j \in 0..n : j \in 0..(n - 1) \/ j = n
    OBVIOUS
  <2>7. n - 1 \in 0..(n - 1) /\ n \in 0..n /\ \A j \in 0..(n - 1) : j \in 0..n
    OBVIOUS
  <2>8. L[n] = b /\ L[n - 1] = a /\ c[n] = e
    OBVIOUS
  <2> HIDE DEF x, a, b, e, w
  <2>9. /\ x + e * (b - a) >= e * b
        /\ x + e * (b - a) = 0 => x = 0 /\ a = 0 /\ b = 0
    BY <2>2, <2>3, <2>4, Weighing
  <2>10. x = 0 /\ a = 0 /\ b = 0 => x + e * (b - a) = 0
    BY <2>2
  <2>11. E[n] >= c[n] * L[n]
    BY <2>2, <2>8, <2>9
  <2>12. E[n] = 0 => \A j \in 0..n : L[j] = 0
    BY <2>2, <2>5, <2>6, <2>8, <2>9
  <2>13. (\A j \in 0..n : L[j] = 0) => E[n] = 0
    BY <2>2, <2>5, <2>7, <2>8, <2>10
  <2> QED BY <2>1, <2>11, <2>12, <2>13
<1> HIDE DEF S
<1>3. \A n \in 0..k : n \in S
  BY <1>1, <1>2, UpTo
<1>4. Good(k)
  <2>1. k \in S
    BY <1>3
  <2> QED BY <2>1 DEF S
<1>5. E[k] >= 0
  <2>1. CASE k = 0
    BY <2>1
  <2>2. CASE k # 0
    <3>1. E[k] >= c[k] * L[k] /\ E[k] \in Int /\ c[k] \in Nat /\ L[k] \in Nat
      BY <1>4, <2>2
    <3> DEFINE p == c[k] * L[k]
    <3>2. p >= 0 /\ p \in Int
      BY <3>1
    <3>3. E[k] >= p
      BY <3>1
    <3> HIDE DEF p
    <3> QED BY <3>1, <3>2, <3>3
  <2> QED BY <2>1, <2>2
<1> QED BY <1>4, <1>5

\* The documents of a grade of at least t, how many of the first n of r are
\* among them, and how many of them a list can have there.
AtLeast(q, t)       == {d \in Corpus : Grade(q, d) >= t}
Supply(q, t)        == Cardinality(AtLeast(q, t))
Reached(q, r, t, n) == Cardinality({i \in 1..n : Grade(q, r[i]) >= t})
Best(q, t, n)       == IF n <= Supply(q, t) THEN n ELSE Supply(q, t)
Short(q, r, t, n)   == Best(q, t, n) - Reached(q, r, t, n)

\* A list of documents without repetitions.
DocList(r) == Distinct(r) /\ Items(r) \subseteq Corpus

LEMMA GradeFacts ==
  ASSUME NEW q \in DOMAIN GroundTruth, NEW d \in Corpus
  PROVE  Grade(q, d) \in Grades
<1>1. d[2] \in 1..5
  BY DEF Corpus
<1>2. \A i \in 1..5 : GroundTruth[q].grades[i] \in {0, 1, 2, 6}
  <2>1. DOMAIN GroundTruth = {"DIST1", "FIN1", "SEC1", "MED1", "DIST2", "SEC2"}
    BY DEF GroundTruth
  <2>2. \A i \in 1..5 : GroundTruth["DIST1"].grades[i] \in {0, 1, 2, 6}
    BY DEF GroundTruth
  <2>3. \A i \in 1..5 : GroundTruth["FIN1"].grades[i] \in {0, 1, 2, 6}
    BY DEF GroundTruth
  <2>4. \A i \in 1..5 : GroundTruth["SEC1"].grades[i] \in {0, 1, 2, 6}
    BY DEF GroundTruth
  <2>5. \A i \in 1..5 : GroundTruth["MED1"].grades[i] \in {0, 1, 2, 6}
    BY DEF GroundTruth
  <2>6. \A i \in 1..5 : GroundTruth["DIST2"].grades[i] \in {0, 1, 2, 6}
    BY DEF GroundTruth
  <2>7. \A i \in 1..5 : GroundTruth["SEC2"].grades[i] \in {0, 1, 2, 6}
    BY DEF GroundTruth
  <2> QED BY <2>1, <2>2, <2>3, <2>4, <2>5, <2>6, <2>7
<1> QED BY <1>1, <1>2 DEF Grade, Grades

LEMMA SupplyFacts ==
  ASSUME NEW q \in DOMAIN GroundTruth, NEW t \in 1..6
  PROVE  /\ IsFiniteSet(AtLeast(q, t)) /\ Supply(q, t) \in Nat
         /\ \A u \in 1..6 : t <= u => Supply(q, u) <= Supply(q, t)
<1>1. AtLeast(q, t) \in SUBSET Corpus
  BY DEF AtLeast
<1>2. IsFiniteSet(AtLeast(q, t))
  BY <1>1, CorpusIsFinite, FS_Subset
<1>3. Supply(q, t) \in Nat
  BY <1>2, FS_CardinalityType DEF Supply
<1>4. ASSUME NEW u \in 1..6, t <= u PROVE Supply(q, u) <= Supply(q, t)
  <2>1. \A d \in Corpus : Grade(q, d) \in Int
    BY GradeFacts DEF Grades
  <2>2. AtLeast(q, u) \in SUBSET AtLeast(q, t)
    BY <1>4, <2>1 DEF AtLeast
  <2> QED BY <1>2, <2>2, FS_Subset DEF Supply
<1> QED BY <1>2, <1>3, <1>4

\* What a list reaches of a grade.
LEMMA ReachFacts ==
  ASSUME NEW q \in DOMAIN GroundTruth, NEW r, DocList(r), NEW t \in 1..6, NEW n \in 0..Len(r)
  PROVE  /\ Reached(q, r, t, n) \in Nat
         /\ Reached(q, r, t, n) <= n /\ Reached(q, r, t, n) <= Supply(q, t)
         /\ Reached(q, r, t, n) = n <=> \A i \in 1..n : Grade(q, r[i]) >= t
         /\ Reached(q, r, t, n) = Supply(q, t) <=>
              \A d \in AtLeast(q, t) : \E i \in 1..n : r[i] = d
         /\ n # 0 => Reached(q, r, t, n) =
              Reached(q, r, t, n - 1) + IF Grade(q, r[n]) >= t THEN 1 ELSE 0
<1> DEFINE H(m) == {i \in 1..m : Grade(q, r[i]) >= t}
           f == [i \in H(n) |-> r[i]]
<1>1. /\ Len(r) \in Nat /\ DOMAIN r = 1..Len(r) /\ n \in Nat
      /\ \A i \in 1..n : i \in DOMAIN r /\ r[i] \in Corpus
      /\ \A i, j \in 1..n : r[i] = r[j] => i = j
  <2>1. Len(r) \in Nat /\ DOMAIN r = 1..Len(r) /\ n \in Nat
    BY DEF DocList, Distinct
  <2>2. \A i \in 1..n : i \in DOMAIN r
    BY <2>1
  <2> QED BY <2>1, <2>2 DEF DocList, Distinct, Ranking, Items
<1>2. \A m : H(m) \in SUBSET (1..m) /\ Reached(q, r, t, m) = Cardinality(H(m))
  BY DEF Reached
<1>3. IsFiniteSet(1..n) /\ Cardinality(1..n) = n
  <2>1. n \in Int /\ 1 \in Int /\ (1 > n => n = 0) /\ n - 1 + 1 = n
    BY <1>1
  <2> QED BY ONLY <2>1, FS_Interval
<1>4. /\ IsFiniteSet(H(n)) /\ Reached(q, r, t, n) \in Nat /\ Reached(q, r, t, n) <= n
      /\ Reached(q, r, t, n) = n <=> H(n) = 1..n
  <2> HIDE DEF H
  <2>1. /\ IsFiniteSet(H(n)) /\ Cardinality(H(n)) <= n
        /\ n = Cardinality(H(n)) => 1..n = H(n)
    BY <1>2, <1>3, FS_Subset
  <2>2. Cardinality(H(n)) \in Nat
    BY <2>1, FS_CardinalityType
  <2> QED BY <1>2, <1>3, <2>1, <2>2
<1>5. f \in Injection(H(n), AtLeast(q, t))
  <2>1. \A i \in H(n) : i \in 1..n /\ r[i] \in AtLeast(q, t)
    BY <1>1 DEF AtLeast
  <2> HIDE DEF H
  <2> QED BY <1>1, <2>1 DEF Injection, IsInjective
<1>6. IsFiniteSet(AtLeast(q, t)) /\ Supply(q, t) = Cardinality(AtLeast(q, t))
  BY SupplyFacts DEF Supply
<1>7. /\ Reached(q, r, t, n) <= Supply(q, t)
      /\ Reached(q, r, t, n) = Supply(q, t) <=> f \in Surjection(H(n), AtLeast(q, t))
  <2> HIDE DEF f, H
  <2> QED BY <1>2, <1>5, <1>6, FS_Injection
<1>8. f \in Surjection(H(n), AtLeast(q, t)) <=> \A d \in AtLeast(q, t) : \E i \in 1..n : r[i] = d
  <2>1. ASSUME f \in Surjection(H(n), AtLeast(q, t)), NEW d \in AtLeast(q, t)
        PROVE  \E i \in 1..n : r[i] = d
    <3>1. \E i \in H(n) : f[i] = d
      BY <2>1 DEF Surjection
    <3> QED BY <3>1
  <2>2. ASSUME \A d \in AtLeast(q, t) : \E i \in 1..n : r[i] = d
        PROVE  f \in Surjection(H(n), AtLeast(q, t))
    <3>1. f \in [H(n) -> AtLeast(q, t)]
      BY <1>5 DEF Injection
    <3>2. \A d \in AtLeast(q, t) : \E i \in H(n) : f[i] = d
      <4> SUFFICES ASSUME NEW d \in AtLeast(q, t) PROVE \E i \in H(n) : f[i] = d
        OBVIOUS
      <4>1. PICK i \in 1..n : r[i] = d
        BY <2>2
      <4>2. i \in H(n)
        BY <4>1 DEF AtLeast
      <4> QED BY <4>1, <4>2
    <3> HIDE DEF f, H
    <3> QED BY <3>1, <3>2 DEF Surjection
  <2> QED BY <2>1, <2>2
<1>9. ASSUME n # 0
      PROVE  Reached(q, r, t, n) = Reached(q, r, t, n - 1) + IF Grade(q, r[n]) >= t THEN 1 ELSE 0
  <2>1. n \in 1..n /\ n \notin 1..(n - 1) /\ n \notin H(n - 1)
    BY <1>1, <1>9
  <2>2. H(n) = IF Grade(q, r[n]) >= t THEN H(n - 1) \union {n} ELSE H(n - 1)
    <3>1. \A i : i \in 1..n <=> i \in 1..(n - 1) \/ i = n
      BY <1>1, <1>9
    <3> QED BY <3>1
  <2>3. \A i \in 1..(n - 1) : i \in 1..n
    BY <1>1
  <2>4. H(n - 1) \in SUBSET H(n)
    BY <2>3
  <2> HIDE DEF H
  <2>5. IsFiniteSet(H(n - 1)) /\ Cardinality(H(n - 1)) \in Nat
    BY <1>4, <2>4, FS_Subset, FS_CardinalityType
  <2>6. Cardinality(H(n - 1) \union {n}) = Cardinality(H(n - 1)) + 1
    BY <2>1, <2>5, FS_AddElement
  <2>7. Reached(q, r, t, n) = Cardinality(H(n)) /\ Reached(q, r, t, n - 1) = Cardinality(H(n - 1))
    BY <1>2
  <2>8. CASE Grade(q, r[n]) >= t
    BY <2>2, <2>5, <2>6, <2>7, <2>8
  <2>9. CASE ~(Grade(q, r[n]) >= t)
    BY <2>2, <2>5, <2>7, <2>9
  <2> QED BY <2>8, <2>9
<1>10. H(n) = 1..n <=> \A i \in 1..n : Grade(q, r[i]) >= t
  OBVIOUS
<1> QED BY <1>4, <1>7, <1>8, <1>9, <1>10

\* The i-th best grade is at least t if there are i documents of such a grade.
LEMMA IdealFacts ==
  ASSUME NEW q \in DOMAIN GroundTruth, NEW i \in 1..10
  PROVE  /\ IdealGrade(q, i) \in Grades
         /\ \A t \in {1, 2, 6} : IdealGrade(q, i) >= t <=> i <= Supply(q, t)
<1> DEFINE G == {g \in Grades : g = 0 \/ Cardinality({d \in Corpus : Grade(q, d) >= g}) >= i}
<1>1. \A g \in Grades : g \in G <=> g = 0 \/ Supply(q, g) >= i
  BY DEF Supply, AtLeast
<1>2. IdealGrade(q, i) = Max(G)
  BY DEF IdealGrade
<1>3. G \in SUBSET Grades
  OBVIOUS
<1> HIDE DEF G
<1>4. 0 \in G /\ G \in SUBSET (0..6) /\ G \in SUBSET Nat /\ G # {}
  BY <1>1, <1>3 DEF Grades
<1>5. IsFiniteSet(G)
  <2>1. 0 \in Int /\ 6 \in Int
    OBVIOUS
  <2> QED BY ONLY <1>4, <2>1, FS_Interval, FS_Subset
<1>6. Max(G) \in G /\ \A g \in G : Max(G) >= g
  BY <1>4, <1>5, Bounds
<1> DEFINE m == Max(G)
<1> HIDE DEF m
<1>7. m \in Grades /\ IdealGrade(q, i) = m /\ m \in G /\ \A g \in G : m >= g
  BY <1>2, <1>3, <1>6 DEF m
<1>8. ASSUME NEW t \in {1, 2, 6} PROVE m >= t <=> i <= Supply(q, t)
  <2>1. t \in 1..6 /\ t \in Grades /\ t # 0 /\ Supply(q, t) \in Nat
    BY SupplyFacts DEF Grades
  <2>2. i <= Supply(q, t) => m >= t
    BY <1>1, <1>7, <2>1
  <2>3. ASSUME m >= t PROVE i <= Supply(q, t)
    <3>1. m \in 1..6 /\ m # 0 /\ t <= m
      BY <1>7, <2>1, <2>3 DEF Grades
    <3>2. Supply(q, m) >= i
      BY <1>1, <1>7, <3>1
    <3>3. Supply(q, m) <= Supply(q, t) /\ Supply(q, m) \in Nat
      BY <2>1, <3>1, SupplyFacts
    <3> QED BY <2>1, <3>2, <3>3
  <2> QED BY <2>2, <2>3
<1> QED BY <1>7, <1>8

\* A gain is what the steps up to its grade are worth, so that gains up to a
\* rank are short of the best ones by what is short of each grade.
Lack(q, r, n) == 4 * Short(q, r, 1, n) + 6 * Short(q, r, 2, n) + 60 * Short(q, r, 6, n)

LEMMA ShortFacts ==
  ASSUME NEW q \in DOMAIN GroundTruth, NEW r, DocList(r), NEW t \in {1, 2, 6}, NEW n \in 0..Len(r)
  PROVE  /\ Short(q, r, t, n) \in Nat
         /\ n = 0 => Short(q, r, t, n) = 0
         /\ n \in 1..10 =>
              Short(q, r, t, n) = Short(q, r, t, n - 1)
                + (IF IdealGrade(q, n) >= t THEN 1 ELSE 0) - (IF Grade(q, r[n]) >= t THEN 1 ELSE 0)
<1>0. t \in 1..6 /\ n \in Nat
  BY DEF DocList, Distinct
<1>1. Supply(q, t) \in Nat
  BY <1>0, SupplyFacts
<1>2. /\ Reached(q, r, t, n) \in Nat /\ Reached(q, r, t, n) <= n
      /\ Reached(q, r, t, n) <= Supply(q, t)
      /\ n # 0 => Reached(q, r, t, n) =
           Reached(q, r, t, n - 1) + IF Grade(q, r[n]) >= t THEN 1 ELSE 0
  BY <1>0, ReachFacts
<1>3. n # 0 => Reached(q, r, t, n - 1) \in Nat
  <2> DEFINE m == n - 1
  <2>1. n # 0 => m \in 0..Len(r)
    BY <1>0
  <2> HIDE DEF m
  <2>2. n # 0 => Reached(q, r, t, m) \in Nat
    BY <1>0, <2>1, ReachFacts
  <2> QED BY <2>2 DEF m
<1>4. Short(q, r, t, n) \in Nat /\ (n = 0 => Short(q, r, t, n) = 0)
  BY <1>0, <1>1, <1>2 DEF Short, Best
<1>5. ASSUME n \in 1..10
      PROVE  Short(q, r, t, n) = Short(q, r, t, n - 1)
                + (IF IdealGrade(q, n) >= t THEN 1 ELSE 0) - (IF Grade(q, r[n]) >= t THEN 1 ELSE 0)
  <2>1. IdealGrade(q, n) >= t <=> n <= Supply(q, t)
    BY <1>5, IdealFacts
  <2> DEFINE a == IdealGrade(q, n) >= t
             b == Grade(q, r[n]) >= t
             s == Supply(q, t)
             x == Reached(q, r, t, n)
             y == Reached(q, r, t, n - 1)
  <2>2. a <=> n <= s
    BY <2>1
  <2>3. x = y + (IF b THEN 1 ELSE 0) /\ y \in Nat /\ x \in Nat /\ s \in Nat
    BY <1>1, <1>2, <1>3, <1>5
  <2>4. /\ Short(q, r, t, n) = (IF n <= s THEN n ELSE s) - x
        /\ Short(q, r, t, n - 1) = (IF n - 1 <= s THEN n - 1 ELSE s) - y
    BY DEF Short, Best
  <2>5. (IF n <= s THEN n ELSE s) = (IF n - 1 <= s THEN n - 1 ELSE s) + IF a THEN 1 ELSE 0
    <3>1. s \in Nat /\ n \in Nat
      BY <1>0, <1>1
    <3> HIDE DEF a, s
    <3> QED BY <2>2, <3>1
  <2> DEFINE p == IF n <= s THEN n ELSE s
             o == IF n - 1 <= s THEN n - 1 ELSE s
             u == IF a THEN 1 ELSE 0
             v == IF b THEN 1 ELSE 0
  <2>6. p \in Int /\ o \in Int /\ u \in Int /\ v \in Int
    BY <1>0, <1>1
  <2>7. p = o + u /\ x = y + v /\ Short(q, r, t, n) = p - x /\ Short(q, r, t, n - 1) = o - y
    BY <2>3, <2>4, <2>5
  <2> HIDE DEF p, o, x, y, u, v
  <2>8. x \in Int /\ y \in Int
    BY <2>3
  <2>9. Short(q, r, t, n) = Short(q, r, t, n - 1) + u - v
    BY <2>6, <2>7, <2>8
  <2> QED BY <2>9 DEF u, v
<1> QED BY <1>4, <1>5

LEMMA Worth ==
  ASSUME NEW x \in Int, NEW y \in Int, NEW z \in Int, NEW u \in Int, NEW v \in Int, NEW w \in Int
  PROVE  (4 * x + 6 * y + 60 * z) - (4 * u + 6 * v + 60 * w) =
           4 * (x - u) + 6 * (y - v) + 60 * (z - w)
OBVIOUS

LEMMA LackFacts ==
  ASSUME NEW q \in DOMAIN GroundTruth, NEW r, DocList(r), NEW n \in 0..Len(r)
  PROVE  /\ Lack(q, r, n) \in Nat
         /\ Lack(q, r, n) = 0 <=> \A t \in {1, 2, 6} : Short(q, r, t, n) = 0
         /\ n = 0 => Lack(q, r, n) = 0
         /\ n \in 1..10 =>
              /\ Gain(IdealGrade(q, n)) \in {0, 4, 10, 70} /\ Gain(Grade(q, r[n])) \in {0, 4, 10, 70}
              /\ Lack(q, r, n) - Lack(q, r, n - 1) = Gain(IdealGrade(q, n)) - Gain(Grade(q, r[n]))
<1>1. \A t \in {1, 2, 6} : Short(q, r, t, n) \in Nat /\ (n = 0 => Short(q, r, t, n) = 0)
  BY ShortFacts
<1>2. ASSUME n \in 1..10
      PROVE  /\ Gain(IdealGrade(q, n)) \in {0, 4, 10, 70} /\ Gain(Grade(q, r[n])) \in {0, 4, 10, 70}
             /\ Lack(q, r, n) - Lack(q, r, n - 1) = Gain(IdealGrade(q, n)) - Gain(Grade(q, r[n]))
  <2> DEFINE a == IdealGrade(q, n)
             b == Grade(q, r[n])
             step(g, t) == IF g >= t THEN 1 ELSE 0
  <2>1. a \in Grades /\ b \in Grades
    <3>1. n \in DOMAIN r
      BY <1>2 DEF DocList, Distinct
    <3>2. r[n] \in Corpus
      BY <3>1 DEF DocList, Items
    <3> QED BY <1>2, <3>2, IdealFacts, GradeFacts
  <2>2. \A t \in {1, 2, 6} :
          /\ Short(q, r, t, n) \in Nat /\ Short(q, r, t, n - 1) \in Nat
          /\ Short(q, r, t, n) = Short(q, r, t, n - 1) + step(a, t) - step(b, t)
    <3>1. n - 1 \in 0..Len(r)
      BY <1>2 DEF DocList, Distinct
    <3> QED BY <1>2, <3>1, ShortFacts
  <2> HIDE DEF a, b
  <2>3. \A g \in Grades : Gain(g) = 4 * step(g, 1) + 6 * step(g, 2) + 60 * step(g, 6)
    BY DEF Gain, Grades
  <2>4. \A g \in Grades : Gain(g) \in {0, 4, 10, 70}
    BY DEF Gain, Grades
  <2>5. \A g \in Grades : \A t \in {1, 2, 6} : step(g, t) \in Int
    OBVIOUS
  <2> HIDE DEF step
  <2> DEFINE x == Short(q, r, 1, n)
             y == Short(q, r, 2, n)
             z == Short(q, r, 6, n)
             u == Short(q, r, 1, n - 1)
             v == Short(q, r, 2, n - 1)
             w == Short(q, r, 6, n - 1)
             a1 == step(a, 1)
             a2 == step(a, 2)
             a6 == step(a, 6)
             b1 == step(b, 1)
             b2 == step(b, 2)
             b6 == step(b, 6)
  <2>6. /\ a1 \in Int /\ a2 \in Int /\ a6 \in Int /\ b1 \in Int /\ b2 \in Int /\ b6 \in Int
    BY <2>1, <2>5
  <2>7. /\ x \in Int /\ u \in Int /\ x = u + a1 - b1
        /\ y \in Int /\ v \in Int /\ y = v + a2 - b2
        /\ z \in Int /\ w \in Int /\ z = w + a6 - b6
    BY <2>2
  <2>8. /\ Lack(q, r, n) = 4 * x + 6 * y + 60 * z
        /\ Lack(q, r, n - 1) = 4 * u + 6 * v + 60 * w
    BY DEF Lack
  <2>9. Gain(a) = 4 * a1 + 6 * a2 + 60 * a6 /\ Gain(b) = 4 * b1 + 6 * b2 + 60 * b6
    BY <2>1, <2>3
  <2> HIDE DEF x, y, z, u, v, w, a1, a2, a6, b1, b2, b6
  <2>10. x - u = a1 - b1 /\ y - v = a2 - b2 /\ z - w = a6 - b6
    BY <2>6, <2>7
  <2>11. Lack(q, r, n) - Lack(q, r, n - 1) = 4 * (x - u) + 6 * (y - v) + 60 * (z - w)
    <3>1. (4 * x + 6 * y + 60 * z) - (4 * u + 6 * v + 60 * w) =
            4 * (x - u) + 6 * (y - v) + 60 * (z - w)
      <4>1. x \in Int /\ y \in Int /\ z \in Int /\ u \in Int /\ v \in Int /\ w \in Int
        BY <2>7
      <4> QED BY ONLY <4>1, Worth
    <3> QED BY ONLY <2>8, <3>1
  <2>12. Gain(a) - Gain(b) = 4 * (a1 - b1) + 6 * (a2 - b2) + 60 * (a6 - b6)
    BY <2>6, <2>9, Worth
  <2> QED BY <2>1, <2>4, <2>10, <2>11, <2>12 DEF a, b
<1>3. Lack(q, r, n) \in Nat /\ (n = 0 => Lack(q, r, n) = 0)
  BY <1>1 DEF Lack
<1>4. Lack(q, r, n) = 0 <=> \A t \in {1, 2, 6} : Short(q, r, t, n) = 0
  BY <1>1 DEF Lack
<1> QED BY <1>2, <1>3, <1>4

LEMMA DiscountFacts ==
  ASSUME NEW n \in 1..10
  PROVE  /\ Discount(n) \in Nat /\ Discount(n) # 0
         /\ n # 1 => Discount(n - 1) > Discount(n)
<1>1. n \in {1, 2, 3, 4, 5, 6, 7, 8, 9, 10}
  OBVIOUS
<1>2. /\ Discount(1) = 100 /\ Discount(2) = 63 /\ Discount(3) = 50 /\ Discount(4) = 43
      /\ Discount(5) = 39 /\ Discount(6) = 36 /\ Discount(7) = 33 /\ Discount(8) = 32
      /\ Discount(9) = 30 /\ Discount(10) = 29
  BY DEF Discount
<1> QED BY <1>1, <1>2

LEMMA CutFacts ==
  ASSUME NEW r, DocList(r), NEW k \in 1..10, k <= Len(r)
  PROVE  /\ Len(Cut(r, k)) = k /\ DOMAIN Cut(r, k) = 1..k
         /\ \A i \in 1..k : Cut(r, k)[i] = r[i] /\ r[i] \in Corpus /\ i \in DOMAIN r
<1>1. Len(r) \in Nat /\ DOMAIN r = 1..Len(r) /\ r \in Seq(Items(r))
  BY DEF DocList, Distinct
<1>2. \A i \in 1..k : i \in DOMAIN r
  BY <1>1
<1>3. \A i \in 1..k : r[i] \in Corpus
  BY <1>2 DEF DocList, Items
<1>4. CASE k < Len(r)
  <2>1. Cut(r, k) = SubSeq(r, 1, k)
    BY <1>4 DEF Cut
  <2>2. Len(Cut(r, k)) = k /\ \A i \in 1..k : Cut(r, k)[i] = r[i]
    BY <1>1, <1>4, <2>1
  <2>3. DOMAIN Cut(r, k) = 1..k
    BY <1>1, <1>4, <2>1
  <2> QED BY <1>2, <1>3, <2>2, <2>3
<1>5. CASE k = Len(r)
  BY <1>1, <1>2, <1>3, <1>5 DEF Cut
<1>6. k < Len(r) \/ k = Len(r)
  <2> DEFINE m == Len(r)
  <2>1. m \in Nat /\ k <= m /\ k \in Nat
    BY <1>1
  <2> HIDE DEF m
  <2>2. k < m \/ k = m
    BY ONLY <2>1
  <2> QED BY <2>2 DEF m
<1> QED BY <1>4, <1>5, <1>6

\* No list gains more than the ideal, and one that gains as much lacks nothing
\* at any rank: what it lacks at one costs more than a later one can repay.
LEMMA GainsFallShort ==
  ASSUME NEW q \in DOMAIN GroundTruth, NEW r, DocList(r), NEW k \in 1..10, k <= Len(r)
  PROVE  /\ Dcg(q, r, k) \in Int /\ Idcg(q, k) \in Int /\ Dcg(q, r, k) <= Idcg(q, k)
         /\ Dcg(q, r, k) = Idcg(q, k) <=> \A n \in 0..k : Lack(q, r, n) = 0
<1> DEFINE f == [i \in 1..k |-> Gain(Grade(q, r[i])) * Discount(i)]
           g == [i \in 1..k |-> Gain(IdealGrade(q, i)) * Discount(i)]
           L == [n \in 0..k |-> Lack(q, r, n)]
           c == [n \in 1..k |-> Discount(n)]
<1>0. k \in Nat
  OBVIOUS
<1>1. Dcg(q, r, k) = SumTo(f, k) /\ Idcg(q, k) = SumTo(g, k)
  <2>1. Len(Cut(r, k)) = k /\ DOMAIN Cut(r, k) = 1..k
    BY CutFacts
  <2> QED BY <2>1 DEF Dcg, Idcg
<1>2. ASSUME NEW n \in 1..k
      PROVE  /\ f[n] \in Int /\ g[n] \in Int /\ c[n] \in Nat /\ c[n] # 0 /\ L[n] \in Nat
             /\ g[n] - f[n] = c[n] * (L[n] - L[n - 1])
             /\ n # 1 => c[n - 1] > c[n]
  <2>1. n \in 1..10 /\ n \in 0..Len(r) /\ n - 1 \in 0..k /\ n \in 0..k
    BY DEF DocList, Distinct
  <2> DEFINE a == Gain(IdealGrade(q, n))
             b == Gain(Grade(q, r[n]))
             d == Discount(n)
             x == L[n]
             y == L[n - 1]
  <2>2. d \in Nat /\ d # 0 /\ (n # 1 => Discount(n - 1) > d)
    BY <2>1, DiscountFacts
  <2>3. /\ x \in Nat /\ a \in {0, 4, 10, 70} /\ b \in {0, 4, 10, 70} /\ x - y = a - b
    BY <2>1, LackFacts
  <2>4. f[n] = b * d /\ g[n] = a * d /\ c[n] = d
    OBVIOUS
  <2>5. n # 1 => c[n - 1] = Discount(n - 1)
    OBVIOUS
  <2>6. L[n] = x /\ L[n - 1] = y
    OBVIOUS
  <2> HIDE DEF a, b, d, x, y, f, g, c, L
  <2>7. a \in Nat /\ b \in Nat
    BY <2>3
  <2>8. a * d - b * d = d * (a - b) /\ a * d \in Int /\ b * d \in Int
    BY <2>2, <2>7
  <2>9. g[n] - f[n] = c[n] * (L[n] - L[n - 1])
    BY <2>3, <2>4, <2>6, <2>8
  <2> QED BY <2>2, <2>3, <2>4, <2>5, <2>6, <2>8, <2>9
<1>3. L[0] = 0
  <2>1. 0 \in 0..Len(r)
    BY DEF DocList, Distinct
  <2> QED BY <2>1, LackFacts
<1>4. \A n \in 0..k : L[n] = Lack(q, r, n)
  OBVIOUS
<1> HIDE DEF f, g, L, c
<1>5. PICK s : SumTo(f, k) = s[k] /\ s[0] = 0 /\ \A i \in 1..k : s[i] = s[i - 1] + f[i]
  BY <1>0, SumSteps
<1>6. PICK t : SumTo(g, k) = t[k] /\ t[0] = 0 /\ \A i \in 1..k : t[i] = t[i - 1] + g[i]
  BY <1>0, SumSteps
<1>7. \A n \in 0..k : s[n] \in Int /\ t[n] \in Int
  <2> DEFINE S == {n \in 0..k : s[n] \in Int /\ t[n] \in Int}
  <2>1. 0 \in S
    BY <1>5, <1>6
  <2>2. \A n \in 1..k : n - 1 \in S => n \in S
    <3> SUFFICES ASSUME NEW n \in 1..k, s[n - 1] \in Int, t[n - 1] \in Int
                 PROVE  n \in 0..k /\ s[n] \in Int /\ t[n] \in Int
      OBVIOUS
    <3>1. s[n] = s[n - 1] + f[n] /\ t[n] = t[n - 1] + g[n] /\ f[n] \in Int /\ g[n] \in Int
      BY <1>2, <1>5, <1>6
    <3> QED BY <3>1
  <2> HIDE DEF S
  <2>3. \A n \in 0..k : n \in S
    BY <1>0, <2>1, <2>2, UpTo
  <2> QED BY <2>3 DEF S
<1> DEFINE E == [n \in 0..k |-> t[n] - s[n]]
<1>8. \A n \in 0..k : E[n] \in Int /\ L[n] \in Nat
  <2>1. \A n \in 0..k : E[n] \in Int
    BY <1>7
  <2>2. \A n \in 0..k : n = 0 \/ n \in 1..k
    OBVIOUS
  <2> QED BY <1>2, <1>3, <2>1, <2>2
<1>9. E[0] = 0
  BY <1>5, <1>6
<1>10. ASSUME NEW n \in 1..k PROVE E[n] = E[n - 1] + c[n] * (L[n] - L[n - 1])
  <2>1. n - 1 \in 0..k /\ n \in 0..k
    OBVIOUS
  <2> DEFINE w == c[n] * (L[n] - L[n - 1])
  <2>2. E[n] = t[n] - s[n] /\ E[n - 1] = t[n - 1] - s[n - 1]
    BY <2>1
  <2>3. t[n] = t[n - 1] + g[n] /\ s[n] = s[n - 1] + f[n] /\ g[n] - f[n] = w
    BY <1>2, <1>5, <1>6
  <2>4. t[n - 1] \in Int /\ s[n - 1] \in Int /\ g[n] \in Int /\ f[n] \in Int
    BY <1>2, <1>7, <2>1
  <2> HIDE DEF w, E
  <2>5. E[n] = E[n - 1] + w
    BY <2>2, <2>3, <2>4
  <2> QED BY <2>5 DEF w
<1>11. E[k] = t[k] - s[k]
  OBVIOUS
<1> HIDE DEF E
<1>12. \A n \in 2..k : c[n - 1] > c[n]
  BY <1>2
<1>13. E[k] >= 0 /\ (E[k] = 0 <=> \A n \in 0..k : L[n] = 0)
  <2>1. \A n \in 1..k : c[n] \in Nat /\ c[n] # 0
    BY <1>2
  <2>2. \A n \in 1..k : E[n] = E[n - 1] + c[n] * (L[n] - L[n - 1])
    BY <1>10
  <2>3. Costs(k, E, L, c)
    BY ONLY <1>3, <1>8, <1>9, <1>12, <2>1, <2>2 DEF Costs
  <2> QED BY <1>0, <2>3, Losses
<1>14. t[k] \in Int /\ s[k] \in Int
  BY <1>7
<1>15. s[k] <= t[k] /\ (s[k] = t[k] <=> \A n \in 0..k : L[n] = 0)
  BY <1>11, <1>13, <1>14
<1> QED BY <1>1, <1>4, <1>5, <1>6, <1>14, <1>15

\* Nothing is lacking of grade t if all have it, or if none that has it is left.
LEMMA NothingShort ==
  ASSUME NEW q \in DOMAIN GroundTruth, NEW r, DocList(r), NEW t \in {1, 2, 6}, NEW n \in 0..Len(r)
  PROVE  Short(q, r, t, n) = 0 <=>
           \/ \A i \in 1..n : Grade(q, r[i]) >= t
           \/ \A d \in AtLeast(q, t) : \E i \in 1..n : r[i] = d
<1> DEFINE x == Reached(q, r, t, n)
           s == Supply(q, t)
<1>0. t \in 1..6 /\ n \in Nat
  BY DEF DocList, Distinct
<1>1. /\ x \in Nat /\ x <= n /\ x <= s
      /\ x = n <=> \A i \in 1..n : Grade(q, r[i]) >= t
      /\ x = s <=> \A d \in AtLeast(q, t) : \E i \in 1..n : r[i] = d
  BY <1>0, ReachFacts
<1>2. s \in Nat
  BY <1>0, SupplyFacts
<1>3. Short(q, r, t, n) = (IF n <= s THEN n ELSE s) - x
  BY DEF Short, Best
<1> HIDE DEF x, s
<1>4. (IF n <= s THEN n ELSE s) - x = 0 <=> x = n \/ x = s
  <2>1. x \in Nat /\ x <= n /\ x <= s
    BY <1>1
  <2>2. CASE n <= s
    BY <1>0, <1>2, <2>1, <2>2
  <2>3. CASE ~(n <= s)
    BY <1>0, <1>2, <2>1, <2>3
  <2> QED BY <2>2, <2>3
<1> QED BY <1>1, <1>3, <1>4

\* A list that lacks nothing up to rank i has what is better than its i-th
\* document before it.
LEMMA BetterComesEarlier ==
  ASSUME NEW q \in DOMAIN GroundTruth, NEW r, DocList(r), NEW i \in 1..Len(r), Lack(q, r, i) = 0,
         NEW d \in Corpus, Grade(q, d) > Grade(q, r[i])
  PROVE  \E j \in 1..i : r[j] = d
<1> DEFINE t == Grade(q, d)
<1>1. i \in 0..Len(r) /\ i \in 1..i /\ r[i] \in Corpus
  <2>1. Len(r) \in Nat /\ DOMAIN r = 1..Len(r)
    BY DEF DocList, Distinct
  <2> QED BY <2>1 DEF DocList, Items
<1>2. t \in {1, 2, 6} /\ Grade(q, r[i]) \in {0, 1, 2, 6}
  BY <1>1, GradeFacts DEF Grades
<1>3. Short(q, r, t, i) = 0
  BY <1>1, <1>2, LackFacts
<1>4. ~(Grade(q, r[i]) >= t)
  BY <1>2
<1>5. \A e \in AtLeast(q, t) : \E j \in 1..i : r[j] = e
  BY <1>1, <1>2, <1>3, <1>4, NothingShort
<1>6. d \in AtLeast(q, t)
  BY <1>2 DEF AtLeast
<1> QED BY <1>5, <1>6

\* What Ideal says of the last list, said of any.
BestFirst(q, r, k) ==
  /\ \A i, j \in DOMAIN Cut(r, k) :
       i < j => Grade(q, Cut(r, k)[i]) >= Grade(q, Cut(r, k)[j])
  /\ \A d \in Corpus \ Items(Cut(r, k)) : \A i \in DOMAIN Cut(r, k) :
       Grade(q, d) <= Grade(q, Cut(r, k)[i])

LEMMA BestFirstLacksNothing ==
  ASSUME NEW q \in DOMAIN GroundTruth, NEW r, DocList(r), NEW k \in 1..10, k <= Len(r)
  PROVE  (\A n \in 0..k : Lack(q, r, n) = 0) <=> BestFirst(q, r, k)
<1> DEFINE c == Cut(r, k)
           G(i) == Grade(q, r[i])
<1>1. /\ DOMAIN c = 1..k /\ \A i \in 1..k : c[i] = r[i] /\ r[i] \in Corpus /\ i \in DOMAIN r
  BY CutFacts
<1>2. Len(r) \in Nat /\ \A i, j \in DOMAIN r : r[i] = r[j] => i = j
  BY DEF DocList, Distinct, Ranking
<1>3. \A i \in 1..k : G(i) \in Grades
  BY <1>1, GradeFacts
<1>4. \A d : d \in Items(c) <=> \E i \in 1..k : r[i] = d
  BY <1>1 DEF Items
<1>5. BestFirst(q, r, k) <=>
        /\ \A i, j \in 1..k : i < j => G(i) >= G(j)
        /\ \A d \in Corpus \ Items(c) : \A i \in 1..k : Grade(q, d) <= G(i)
  BY <1>1 DEF BestFirst
<1> HIDE DEF c
<1>6. ASSUME \A n \in 0..k : Lack(q, r, n) = 0 PROVE BestFirst(q, r, k)
  <2>1. ASSUME NEW i \in 1..k, NEW d \in Corpus, Grade(q, d) > G(i)
        PROVE  \E j \in 1..i : r[j] = d
    <3>1. Lack(q, r, i) = 0 /\ i \in 1..Len(r)
      BY <1>2, <1>6
    <3> QED BY <2>1, <3>1, BetterComesEarlier
  <2>2. ASSUME NEW i \in 1..k, NEW j \in 1..k, i < j PROVE G(i) >= G(j)
    <3>1. ASSUME G(j) > G(i) PROVE FALSE
      <4>1. PICK m \in 1..i : r[m] = r[j]
        BY <1>1, <2>1, <3>1
      <4>2. m \in 1..k /\ m # j
        BY <2>2
      <4> QED BY <1>1, <1>2, <4>1, <4>2
    <3>2. G(i) \in Grades /\ G(j) \in Grades
      BY <1>3
    <3> HIDE DEF G
    <3> QED BY <3>1, <3>2 DEF Grades
  <2>3. ASSUME NEW d \in Corpus \ Items(c), NEW i \in 1..k PROVE Grade(q, d) <= G(i)
    <3>1. ASSUME Grade(q, d) > G(i) PROVE FALSE
      <4>1. PICK m \in 1..i : r[m] = d
        BY <2>1, <3>1
      <4>2. m \in 1..k
        OBVIOUS
      <4> QED BY <1>4, <4>1, <4>2
    <3>2. G(i) \in Grades /\ Grade(q, d) \in Grades
      BY <1>3, GradeFacts
    <3> HIDE DEF G
    <3> QED BY <3>1, <3>2 DEF Grades
  <2> QED BY <1>5, <2>2, <2>3
<1>7. ASSUME BestFirst(q, r, k), NEW n \in 0..k PROVE Lack(q, r, n) = 0
  <2>1. n \in 0..Len(r) /\ \A i \in 1..n : i \in 1..k
    BY <1>2
  <2>2. ASSUME NEW t \in {1, 2, 6} PROVE Short(q, r, t, n) = 0
    <3>1. ASSUME NEW i \in 1..n, ~(G(i) >= t),
                 NEW d \in AtLeast(q, t), \A j \in 1..n : r[j] # d
          PROVE  FALSE
      <4>1. d \in Corpus /\ Grade(q, d) >= t
        BY DEF AtLeast
      <4>2. G(i) \in Grades /\ Grade(q, d) \in Grades /\ i \in 1..k
        BY <1>3, <2>1, <4>1, GradeFacts
      <4>3. ~(Grade(q, d) <= G(i))
        <5> HIDE DEF G
        <5> QED BY <3>1, <4>1, <4>2 DEF Grades
      <4>4. PICK j \in 1..k : r[j] = d
        BY <1>4, <1>5, <1>7, <4>1, <4>2, <4>3
      <4>5. i < j
        <5>1. j \notin 1..n
          BY <3>1, <4>4
        <5> QED BY <5>1
      <4> QED BY <1>5, <1>7, <4>2, <4>3, <4>4, <4>5
    <3>2. \/ \A i \in 1..n : G(i) >= t
          \/ \A d \in AtLeast(q, t) : \E i \in 1..n : r[i] = d
      BY <3>1
    <3> QED BY <2>1, <3>2, NothingShort
  <2> QED BY <2>1, <2>2, LackFacts
<1> QED BY <1>6, <1>7

\* One or two documents have the highest grade, so the best possible gain of a
\* query is positive, and small enough to tell it from a smaller one in four
\* digits.
LEMMA BestDocuments ==
  ASSUME NEW q \in DOMAIN GroundTruth
  PROVE  Supply(q, 6) \in 1..2
<1> DEFINE D == GroundTruth[q].domain
           e(i) == <<D, i>>
<1>1. DOMAIN GroundTruth = {"DIST1", "FIN1", "SEC1", "MED1", "DIST2", "SEC2"}
  BY DEF GroundTruth
<1>2. D \in {"DIST", "FIN", "SEC", "MED"}
  BY DEF GroundTruth
<1>3. ASSUME NEW d \in AtLeast(q, 6)
      PROVE  d[2] \in 1..5 /\ d = e(d[2]) /\ GroundTruth[q].grades[d[2]] >= 6
  <2>1. d \in Corpus /\ Grade(q, d) >= 6
    BY <1>3 DEF AtLeast
  <2>2. d[1] = D /\ GroundTruth[q].grades[d[2]] >= 6
    BY <2>1 DEF Grade
  <2> QED BY <2>1, <2>2 DEF Corpus
<1>4. \/ \A i \in 1..5 : GroundTruth[q].grades[i] >= 6 => i \in {1, 2}
      \/ \A i \in 1..5 : GroundTruth[q].grades[i] >= 6 => i \in {4}
  <2>1. ASSUME NEW p \in {"DIST1", "FIN1", "SEC1", "MED1"}, NEW i \in 3..5
        PROVE  ~(GroundTruth[p].grades[i] >= 6)
    BY DEF GroundTruth
  <2>2. ASSUME NEW p \in {"DIST2", "SEC2"}, NEW i \in {1, 2, 3, 5}
        PROVE  ~(GroundTruth[p].grades[i] >= 6)
    BY DEF GroundTruth
  <2>3. \A i \in 1..5 : i \in {1, 2} \/ i \in 3..5
    OBVIOUS
  <2>4. \A i \in 1..5 : i = 4 \/ i \in {1, 2, 3, 5}
    OBVIOUS
  <2>5. CASE q \in {"DIST1", "FIN1", "SEC1", "MED1"}
    BY <2>1, <2>3, <2>5
  <2>6. CASE q \in {"DIST2", "SEC2"}
    BY <2>2, <2>4, <2>6
  <2> QED BY <1>1, <2>5, <2>6
<1>5. \E i \in 1..5 : GroundTruth[q].grades[i] = 6
  <2>1. ASSUME NEW p \in {"DIST1", "FIN1", "SEC1", "MED1"} PROVE GroundTruth[p].grades[1] = 6
    BY <2>1 DEF GroundTruth
  <2>2. ASSUME NEW p \in {"DIST2", "SEC2"} PROVE GroundTruth[p].grades[4] = 6
    BY <2>2 DEF GroundTruth
  <2> QED BY <1>1, <2>1, <2>2
<1>6. AtLeast(q, 6) # {}
  <2>1. PICK i \in 1..5 : GroundTruth[q].grades[i] = 6
    BY <1>5
  <2>2. e(i) \in Corpus /\ e(i)[1] = D /\ e(i)[2] = i
    BY <1>2 DEF Corpus
  <2> HIDE DEF e
  <2>3. Grade(q, e(i)) = 6
    BY <2>1, <2>2 DEF Grade
  <2> QED BY <2>2, <2>3 DEF AtLeast
<1> HIDE DEF e
<1>7. \/ AtLeast(q, 6) \in SUBSET {e(1), e(2)}
      \/ AtLeast(q, 6) \in SUBSET {e(4), e(4)}
  <2>1. CASE \A i \in 1..5 : GroundTruth[q].grades[i] >= 6 => i \in {1, 2}
    BY <1>3, <2>1
  <2>2. CASE \A i \in 1..5 : GroundTruth[q].grades[i] >= 6 => i \in {4}
    BY <1>3, <2>2
  <2> QED BY <1>4, <2>1, <2>2
<1>8. ASSUME NEW a, NEW b PROVE IsFiniteSet({a, b}) /\ Cardinality({a, b}) <= 2
  <2>1. IsFiniteSet({a}) /\ Cardinality({a}) = 1
    BY FS_Singleton
  <2>2. IsFiniteSet({a} \union {b}) /\ (b \notin {a} => Cardinality({a} \union {b}) = 2)
    BY <2>1, FS_AddElement
  <2>3. {a, b} = {a} \union {b}
    OBVIOUS
  <2>4. b \in {a} => {a, b} = {a}
    OBVIOUS
  <2> QED BY <2>1, <2>2, <2>3, <2>4
<1>9. IsFiniteSet(AtLeast(q, 6)) /\ Supply(q, 6) \in Nat
  BY SupplyFacts
<1>10. Supply(q, 6) <= 2
  <2>1. PICK a, b : AtLeast(q, 6) \in SUBSET {a, b}
    BY <1>7
  <2>2. IsFiniteSet({a, b}) /\ Cardinality({a, b}) <= 2 /\ Cardinality({a, b}) \in Nat
    BY <1>8, FS_CardinalityType
  <2>3. Cardinality(AtLeast(q, 6)) <= Cardinality({a, b})
    BY <2>1, <2>2, FS_Subset
  <2> QED BY <1>9, <2>2, <2>3 DEF Supply
<1>11. Supply(q, 6) # 0
  BY <1>6, <1>9, FS_EmptySet DEF Supply
<1> QED BY <1>9, <1>10, <1>11

LEMMA BestGains ==
  ASSUME NEW q \in DOMAIN GroundTruth, NEW k \in 1..10
  PROVE  Idcg(q, k) \in Nat /\ Idcg(q, k) # 0 /\ Idcg(q, k) < 20000
<1> DEFINE g == [i \in 1..k |-> Gain(IdealGrade(q, i)) * Discount(i)]
           top(n) == IF n = 1 THEN 7000 ELSE 11000 + 500 * n
<1>0. k \in Nat
  OBVIOUS
<1>1. Idcg(q, k) = SumTo(g, k)
  BY DEF Idcg
<1>2. ASSUME NEW n \in 1..k
      PROVE  /\ g[n] \in Nat /\ (n = 1 => g[n] = 7000) /\ (n = 2 => g[n] <= 4410)
             /\ n >= 3 => g[n] <= 500
  <2>1. n \in 1..10 /\ g[n] = Gain(IdealGrade(q, n)) * Discount(n)
    OBVIOUS
  <2>2. IdealGrade(q, n) \in {0, 1, 2, 6} /\ (IdealGrade(q, n) >= 6 <=> n <= Supply(q, 6))
    BY <2>1, IdealFacts DEF Grades
  <2>3. Supply(q, 6) \in 1..2
    BY BestDocuments
  <2>4. (n = 1 => IdealGrade(q, n) = 6) /\ (n >= 3 => IdealGrade(q, n) \in {0, 1, 2})
    BY <2>1, <2>2, <2>3
  <2>5. /\ Gain(IdealGrade(q, n)) \in {0, 4, 10, 70}
        /\ n = 1 => Gain(IdealGrade(q, n)) = 70
        /\ n >= 3 => Gain(IdealGrade(q, n)) \in {0, 4, 10}
    BY <2>2, <2>4 DEF Gain
  <2>6. Discount(n) \in {100, 63, 50, 43, 39, 36, 33, 32, 30, 29}
    /\ (n = 1 => Discount(n) = 100) /\ (n = 2 => Discount(n) = 63) /\ (n >= 3 => Discount(n) \in 0..50)
    <3>1. n \in {1, 2, 3, 4, 5, 6, 7, 8, 9, 10}
      OBVIOUS
    <3>2. /\ Discount(1) = 100 /\ Discount(2) = 63 /\ Discount(3) = 50 /\ Discount(4) = 43
          /\ Discount(5) = 39 /\ Discount(6) = 36 /\ Discount(7) = 33 /\ Discount(8) = 32
          /\ Discount(9) = 30 /\ Discount(10) = 29
      BY DEF Discount
    <3> QED BY <3>1, <3>2
  <2> HIDE DEF g
  <2> QED BY <2>1, <2>5, <2>6
<1> HIDE DEF g
<1>3. PICK s : SumTo(g, k) = s[k] /\ s[0] = 0 /\ \A i \in 1..k : s[i] = s[i - 1] + g[i]
  BY <1>0, SumSteps
<1> DEFINE S == {n \in 0..k : n = 0 \/ (s[n] \in Int /\ 7000 <= s[n] /\ s[n] <= top(n))}
<1>4. 0 \in S
  OBVIOUS
<1>5. \A n \in 1..k : n - 1 \in S => n \in S
  <2> SUFFICES ASSUME NEW n \in 1..k, n - 1 \in S PROVE n \in S
    OBVIOUS
  <2>1. s[n] = s[n - 1] + g[n]
    BY <1>3
  <2>2. CASE n = 1
    BY <1>2, <1>3, <2>1, <2>2
  <2>3. CASE n # 1
    <3>1. n >= 2 /\ n - 1 # 0
      BY <2>3
    <3>2. s[n - 1] \in Int /\ 7000 <= s[n - 1] /\ s[n - 1] <= top(n - 1)
      BY <3>1
    <3>3. g[n] \in Nat /\ (n = 2 => g[n] <= 4410) /\ (n >= 3 => g[n] <= 500)
      BY <1>2
    <3>4. CASE n = 2
      BY <2>1, <3>2, <3>3, <3>4
    <3>5. CASE n >= 3
      BY <2>1, <3>2, <3>3, <3>5
    <3> QED BY <3>1, <3>4, <3>5
  <2> QED BY <2>2, <2>3
<1> HIDE DEF S
<1>6. \A n \in 0..k : n \in S
  BY <1>0, <1>4, <1>5, UpTo
<1>7. k \in S
  BY <1>6
<1>8. s[k] \in Int /\ 7000 <= s[k] /\ s[k] <= top(k)
  BY <1>7 DEF S
<1>9. top(k) <= 16000
  BY <1>0
<1>10. s[k] \in Nat /\ s[k] # 0 /\ s[k] < 20000
  <2> DEFINE x == s[k]
             y == top(k)
  <2>1. x \in Int /\ y \in Int /\ 7000 <= x /\ x <= y /\ y <= 16000
    BY <1>0, <1>8, <1>9
  <2> HIDE DEF x, y
  <2>2. x \in Nat /\ x # 0 /\ x < 20000
    BY <2>1
  <2> QED BY <2>2 DEF x
<1> QED BY <1>1, <1>3, <1>10

\* A share below 1 is below 1 in four digits, if the whole has no more.
LEMMA RoundedBelow ==
  ASSUME NEW m \in Nat, NEW n \in Int, m # 0, m < 20000, n <= m
  PROVE  Min({10000, Rounded(n, m)}) = 10000 <=> n = m
<1> DEFINE v == (20000 * n + m) \div (2 * m)
           e == 2 * m
<1>1. Rounded(n, m) = v
  BY DEF Rounded
<1>2. v \in Int /\ e * v <= 20000 * n + m /\ 20000 * n + m < e * v + e
  <2> DEFINE u == 20000 * n + m
  <2>1. u \in Int /\ e \in Nat /\ e # 0 /\ v = u \div e
    OBVIOUS
  <2> HIDE DEF u, e, v
  <2>2. v \in Int
    BY <2>1
  <2>3. e * v <= u /\ u < e * v + e
    BY <2>1
  <2> QED BY <2>2, <2>3 DEF u
<1> HIDE DEF v
<1>3. n < m => v < 10000
  <2> SUFFICES ASSUME n < m, v >= 10000 PROVE FALSE
    BY <1>2
  <2>1. e * v >= e * 10000
    BY <1>2
  <2>2. 20000 * n + m < e * 10000
    OBVIOUS
  <2> DEFINE p == e * v
  <2>3. p \in Int /\ p >= e * 10000 /\ p <= 20000 * n + m
    BY <1>2, <2>1
  <2> HIDE DEF p
  <2> QED BY <2>2, <2>3
<1>4. n = m => v >= 10000
  <2> SUFFICES ASSUME n = m, v <= 9999 PROVE FALSE
    BY <1>2
  <2>1. e * v <= e * 9999
    BY <1>2
  <2> DEFINE p == e * v
  <2>2. p \in Int /\ p <= e * 9999 /\ 20000 * n + m < p + e
    BY <1>2, <2>1
  <2> HIDE DEF p
  <2> DEFINE x == e * 9999
             y == 20000 * n + m
             z == 20000 * m
  <2>3. x \in Int /\ y \in Int /\ z \in Int /\ e \in Int /\ x + e = z /\ y = z + m /\ m \in Nat
    OBVIOUS
  <2>4. p \in Int /\ p <= x /\ y < p + e
    BY <2>2
  <2> HIDE DEF x, y, z, e
  <2> QED BY <2>3, <2>4
<1>5. ASSUME v >= 10000 PROVE Min({10000, v}) = 10000
  <2>1. \A x \in {10000, v} : (\A y \in {10000, v} : x <= y) <=> x = 10000
    BY <1>2, <1>5
  <2> QED BY <2>1 DEF Min
<1>6. ASSUME v < 10000 PROVE Min({10000, v}) = v
  <2>1. \A x \in {10000, v} : (\A y \in {10000, v} : x <= y) <=> x = v
    BY <1>2, <1>6
  <2> QED BY <2>1 DEF Min
<1> QED BY <1>1, <1>2, <1>3, <1>4, <1>5, <1>6

\* The metrics are those of the last list, which is full.
LastInv ==
  /\ strategy \in Strategies /\ done \in Nat
  /\ done > 0 =>
       /\ Queries[done] \in DOMAIN GroundTruth
       /\ IsFull(retrieved)
       /\ metrics = MetricsOf(Queries[done], retrieved)

LEMMA LastStart == EvaluationInit => LastInv
BY DEF EvaluationInit, LastInv

LEMMA LastStep == LastInv /\ [Evaluate]_evaluation => LastInv'
<1> SUFFICES ASSUME LastInv, [Evaluate]_evaluation PROVE LastInv'
  OBVIOUS
<1>1. CASE Evaluate
  <2>1. PICK r \in Lists[strategy] :
          retrieved' = r /\ metrics' = MetricsOf(Queries[done + 1], r)
    BY <1>1 DEF Evaluate
  <2>2. Queries[done + 1] \in DOMAIN GroundTruth
    <3>1. done \in Nat /\ done < Len(Queries)
      BY <1>1 DEF Evaluate, LastInv
    <3> QED BY <3>1, EvaluationAssumption
  <2>3. IsFull(r)
    BY <2>1, ListsAreFull DEF LastInv
  <2>4. strategy' = strategy /\ done' = done + 1
    BY <1>1 DEF Evaluate
  <2>5. IsFull(retrieved')
    BY <2>1, <2>3
  <2> QED BY <2>1, <2>2, <2>4, <2>5 DEF LastInv, IsFull
<1>2. CASE UNCHANGED evaluation
  BY <1>2 DEF evaluation, LastInv, IsFull
<1> QED BY <1>1, <1>2

\* If there are as many documents as the highest cut-off asks for, NDCG is 1
\* for lists with the best documents first, in the order of their grades, and
\* for no other (ndcg_at_k).
THEOREM PerfectListsAreIdeal ==
  ASSUME TopK <= Cardinality(Docs)
  PROVE  EvaluationSpec => []OnlyIdealIsPerfect
<1>1. LastInv => OnlyIdealIsPerfect
  <2> SUFFICES ASSUME LastInv, done > 0, NEW k \in KList
               PROVE  /\ Dcg(Queries[done], retrieved, k) <= Idcg(Queries[done], k)
                      /\ metrics[k].ndcg = 10000 <=> Ideal(k)
    BY DEF OnlyIdealIsPerfect
  <2> DEFINE q == Queries[done]
             r == retrieved
  <2>1. q \in DOMAIN GroundTruth /\ IsFull(r) /\ metrics = MetricsOf(q, r)
    BY DEF LastInv
  <2>2. k \in 1..10 /\ k <= TopK /\ TopK \in 1..10
    BY EvaluationAssumption, TopKIsACutOff
  <2>3. Ideal(k) <=> BestFirst(q, r, k)
    BY DEF Ideal, BestFirst
  <2> HIDE DEF q, r
  <2>4. DocList(r)
    BY <2>1, EvaluationAssumption DEF IsFull, DocList
  <2>5. k <= Len(r)
    <3>1. TopK <= Len(r) /\ Len(r) \in Nat
      BY <2>1 DEF IsFull, Distinct
    <3> QED BY <2>2, <3>1
  <2>6. Dcg(q, r, k) \in Int /\ Dcg(q, r, k) <= Idcg(q, k)
    BY <2>1, <2>2, <2>4, <2>5, GainsFallShort
  <2>7. Dcg(q, r, k) = Idcg(q, k) <=> BestFirst(q, r, k)
    BY <2>1, <2>2, <2>4, <2>5, GainsFallShort, BestFirstLacksNothing
  <2>8. metrics[k].ndcg = Min({10000, Rounded(Dcg(q, r, k), Idcg(q, k))})
    BY <2>1 DEF MetricsOf, Ndcg
  <2>9. Idcg(q, k) \in Nat /\ Idcg(q, k) # 0 /\ Idcg(q, k) < 20000
    BY <2>1, <2>2, BestGains
  <2>10. Min({10000, Rounded(Dcg(q, r, k), Idcg(q, k))}) = 10000 <=> Dcg(q, r, k) = Idcg(q, k)
    BY <2>6, <2>9, RoundedBelow
  <2> QED BY <2>3, <2>6, <2>7, <2>8, <2>10 DEF q, r
<1> QED BY <1>1, LastStart, LastStep, PTL DEF EvaluationSpec

=============================================================================
