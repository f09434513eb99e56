-------------------------- MODULE ApiServerProofs --------------------------
(***************************************************************************)
(* Proofs about the rate limiter within ApiServer, for any number of       *)
(* requests, clients and minutes and any limit.                            *)
(***************************************************************************)
EXTENDS ApiServer, FiniteSetTheorems, TLAPS

Labels ==
  {"idle", "counting", "expiring", "refused", "admitted", "guarding", "opening",
   "opened", "retrieving", "streaming", "answered", "failed"}

\* labels a request has once the limiter is done with it
Later == Labels \ {"idle", "counting", "expiring", "refused"}

LimiterTypeOK ==
  /\ minute \in Minutes /\ second \in Nat
  /\ counter \in [Keys -> [n : Nat, ends : (Nat \X Nat) \union {Nobody}]]
  /\ at \in [Requests -> Labels]
  /\ who \in [Requests -> Clients \union {Nobody}]
  /\ window \in [Requests -> Minutes]
  /\ rank \in [Requests -> Nat] /\ counted \in [Requests -> Nat]
  /\ passed \subseteq Requests

\* What the state of a request says of its count.
StageInv ==
  \A r \in Requests :
    /\ at[r] \in {"counting", "expiring"} \/ rank[r] > 0 => who[r] \in Clients
    /\ at[r] \in {"idle", "counting"} => rank[r] = 0
    /\ at[r] = "expiring" => rank[r] > 0
    /\ at[r] = "refused" => rank[r] > Limit
    /\ r \in passed => rank[r] \in 1..Limit
    /\ window[r] <= minute

\* No key ends in the minute it is named after, or before; none is there early.
KeyInv ==
  \A k \in Keys :
    /\ k[2] = minute /\ counter[k].ends # Nobody => counter[k].ends[1] > minute
    /\ k[2] > minute => counter[k] = Missing

OnTime(r) == rank[r] > 0 /\ counted[r] = window[r]

\* Requests counted on time have different ranks, none above the counter's value.
RankInv ==
  /\ \A r \in Requests :
       OnTime(r) /\ window[r] = minute => rank[r] <= counter[Key(r)].n
  /\ \A r, s \in Requests :
       OnTime(r) /\ OnTime(s) /\ Key(r) = Key(s) /\ rank[r] = rank[s] => r = s

\* No counter and no rank exceeds the number of requests counted.
CountInv ==
  /\ \A k \in Keys : counter[k].n <= Cardinality(Counted(k[1], k[2]))
  /\ \A r \in Requests :
       rank[r] > 0 => rank[r] <= Cardinality(Counted(who[r], window[r]))

LimiterInv == LimiterTypeOK /\ StageInv /\ KeyInv /\ RankInv /\ CountInv

-----------------------------------------------------------------------------
LEMMA CountedFinite ==
  ASSUME NEW c, NEW w
  PROVE  IsFiniteSet(Counted(c, w)) /\ Cardinality(Counted(c, w)) \in Nat
<1>1. Counted(c, w) \in SUBSET Requests
  BY DEF Counted
<1> QED BY <1>1, LimiterAssumption, FS_Subset, FS_CardinalityType

LEMMA KeyTyped ==
  ASSUME LimiterTypeOK, NEW r \in Requests, who[r] \in Clients
  PROVE  Key(r) \in Keys /\ Key(r)[1] = who[r] /\ Key(r)[2] = window[r]
BY DEF LimiterTypeOK, Key, Keys

LEMMA InvInit == Init => LimiterInv
<1> SUFFICES ASSUME Init PROVE LimiterInv
  OBVIOUS
<1> USE LimiterAssumption DEF Init, LimiterInit
<1>1. LimiterTypeOK
  BY DEF LimiterTypeOK, Minutes, Missing, Labels
<1>2. StageInv
  BY DEF StageInv, Minutes
<1>3. KeyInv
  BY DEF KeyInv, Missing
<1>4. RankInv
  BY DEF RankInv, OnTime
<1>5. CountInv
  BY CountedFinite DEF CountInv, Missing
<1> QED BY <1>1, <1>2, <1>3, <1>4, <1>5 DEF LimiterInv

\* The server's part moves a request on and leaves the limiter's state alone.
LEMMA MovesInv ==
  ASSUME LimiterInv, NEW r \in Requests, NEW from \in Later, NEW to \in Later,
         Moves(r, from, to)
  PROVE  LimiterInv'
<1> USE DEF Moves, Goes, LimiterInv
<1>1. LimiterTypeOK'
  BY DEF LimiterTypeOK, Later, Labels
<1>2. StageInv'
  BY DEF StageInv, LimiterTypeOK, Later, Labels
<1>3. KeyInv'
  BY DEF KeyInv
<1>4. RankInv'
  BY DEF RankInv, OnTime, Key
<1>5. CountInv'
  BY DEF CountInv, Counted
<1> QED BY <1>1, <1>2, <1>3, <1>4, <1>5

LEMMA StutterInv == LimiterInv /\ UNCHANGED limiterVars => LimiterInv'
<1> SUFFICES ASSUME LimiterInv, UNCHANGED limiterVars PROVE LimiterInv'
  OBVIOUS
<1> USE DEF LimiterInv, limiterVars
<1>1. LimiterTypeOK'
  BY DEF LimiterTypeOK
<1>2. StageInv'
  BY DEF StageInv
<1>3. KeyInv'
  BY DEF KeyInv
<1>4. RankInv'
  BY DEF RankInv, OnTime, Key
<1>5. CountInv'
  BY DEF CountInv, Counted
<1> QED BY <1>1, <1>2, <1>3, <1>4, <1>5

LEMMA ArriveInv ==
  ASSUME LimiterInv, NEW r \in Requests,
         ArriveExempt(r) \/ \E c \in Clients : Arrive(r, c)
  PROVE  LimiterInv'
<1> USE DEF LimiterInv, ArriveExempt, Arrive, Goes
<1>0. at[r] = "idle" /\ rank[r] = 0 /\ rank' = rank /\ counter' = counter
  BY DEF StageInv
<1>1. LimiterTypeOK'
  BY DEF LimiterTypeOK, Labels
<1>2. StageInv'
  BY LimiterAssumption DEF StageInv, LimiterTypeOK, Minutes
<1>3. KeyInv'
  BY DEF KeyInv
<1>4. \A s \in Requests : rank[s] > 0 => who'[s] = who[s] /\ window'[s] = window[s]
  BY <1>0 DEF LimiterTypeOK
<1>5. RankInv'
  BY <1>0, <1>4 DEF RankInv, OnTime, Key
<1>6. \A c, w : Counted(c, w)' = Counted(c, w)
  BY <1>0, <1>4 DEF Counted
<1>7. CountInv'
  BY <1>0, <1>4, <1>6 DEF CountInv
<1> QED BY <1>1, <1>2, <1>3, <1>5, <1>7

\* A minute ends with keys that no request was counted under in time.
LEMMA TickInv == ASSUME LimiterInv, Tick PROVE LimiterInv'
<1> DEFINE now == IF second + 1 < Seconds THEN <<minute, second + 1>> ELSE <<minute + 1, 0>>
<1> USE LimiterAssumption DEF LimiterInv
<1>0. /\ minute' = now[1] /\ second' = now[2] /\ now[1] <= MaxMinute
      /\ counter' = [k \in Keys |-> IF counter[k].ends = now THEN Missing ELSE counter[k]]
      /\ UNCHANGED <<at, who, window, rank, counted, passed>>
  BY DEF Tick
<1>m. minute \in Nat /\ second \in Nat /\ now[1] \in {minute, minute + 1}
  BY DEF LimiterTypeOK, Minutes
<1>1. LimiterTypeOK'
  <2>1. minute' \in Minutes /\ second' \in Nat
    BY <1>0, <1>m DEF Minutes
  <2>2. counter' \in [Keys -> [n : Nat, ends : (Nat \X Nat) \union {Nobody}]]
    BY <1>0 DEF LimiterTypeOK, Missing
  <2> QED BY <1>0, <2>1, <2>2 DEF LimiterTypeOK
<1>2. StageInv'
  BY <1>0, <1>m DEF StageInv, LimiterTypeOK, Minutes
<1>3. KeyInv'
  <2> SUFFICES ASSUME NEW k \in Keys
      PROVE /\ k[2] = minute' /\ counter'[k].ends # Nobody => counter'[k].ends[1] > minute'
            /\ k[2] > minute' => counter'[k] = Missing
    BY DEF KeyInv
  <2>1. k[2] \in Nat
    BY DEF Keys, Minutes
  <2>2. counter'[k] \in {Missing, counter[k]}
    BY <1>0
  <2>3. k[2] > minute => counter'[k] = Missing
    BY <2>2 DEF KeyInv
  <2> QED BY <1>0, <1>m, <2>1, <2>2, <2>3 DEF KeyInv, Missing
<1>4. RankInv'
  <2>1. ASSUME NEW r \in Requests, OnTime(r), window[r] = minute'
        PROVE  rank[r] <= counter'[Key(r)].n
    <3>1. window[r] = minute /\ minute' = minute
      BY <1>0, <1>m, <2>1 DEF StageInv, LimiterTypeOK, Minutes
    <3>2. Key(r) \in Keys /\ Key(r)[2] = minute
      BY <2>1, <3>1, KeyTyped DEF StageInv, OnTime
    <3>3. counter[Key(r)].ends # now
      <4>1. CASE counter[Key(r)].ends = Nobody
        BY <4>1, <1>m
      <4> QED BY <4>1, <1>0, <3>1, <3>2, <1>m DEF KeyInv
    <3> QED BY <1>0, <2>1, <3>1, <3>2, <3>3 DEF RankInv
  <2> QED BY <1>0, <2>1 DEF RankInv, OnTime, Key
<1>5. CountInv'
  <2>1. \A c, w : Counted(c, w)' = Counted(c, w)
    BY <1>0 DEF Counted
  <2>2. ASSUME NEW k \in Keys PROVE counter'[k].n <= Cardinality(Counted(k[1], k[2]))
    BY <1>0, CountedFinite DEF CountInv, Missing
  <2> QED BY <1>0, <2>1, <2>2 DEF CountInv
<1> QED BY <1>1, <1>2, <1>3, <1>4, <1>5

\* The INCR: its rank is above those of all requests counted on time.
LEMMA IncrementInv ==
  ASSUME LimiterInv, NEW r \in Requests, at[r] = "counting", Increment(r),
         UNCHANGED <<minute, second, who, window>>
  PROVE  /\ KeyInv' /\ RankInv' /\ CountInv'
         /\ counter' \in [Keys -> [n : Nat, ends : (Nat \X Nat) \union {Nobody}]]
         /\ rank' \in [Requests -> Nat] /\ counted' \in [Requests -> Nat]
         /\ rank'[r] > 0 /\ rank' = [rank EXCEPT ![r] = rank'[r]]
<1> USE LimiterAssumption DEF LimiterInv
<1> DEFINE n == counter[Key(r)].n + 1
<1>0. /\ counter' = [counter EXCEPT ![Key(r)].n = n]
      /\ rank' = [rank EXCEPT ![r] = n] /\ counted' = [counted EXCEPT ![r] = minute]
      /\ UNCHANGED <<minute, second, who, window>>
  BY DEF Increment
<1>k. /\ Key(r) \in Keys /\ Key(r)[1] = who[r] /\ Key(r)[2] = window[r]
      /\ rank[r] = 0 /\ window[r] <= minute
  BY KeyTyped DEF StageInv
<1>n. n \in Nat /\ n > 0 /\ minute \in Nat
  BY <1>k DEF LimiterTypeOK, Minutes
<1> HIDE DEF n
<1>1. /\ counter' \in [Keys -> [n : Nat, ends : (Nat \X Nat) \union {Nobody}]]
      /\ rank' \in [Requests -> Nat] /\ counted' \in [Requests -> Nat]
      /\ rank'[r] > 0 /\ rank' = [rank EXCEPT ![r] = rank'[r]]
  BY <1>0, <1>k, <1>n DEF LimiterTypeOK
<1>c. \A k \in Keys : /\ counter'[k].ends = counter[k].ends
                      /\ counter'[k].n = IF k = Key(r) THEN n ELSE counter[k].n
  BY <1>0, <1>k DEF LimiterTypeOK
<1>2. KeyInv'
  <2> SUFFICES ASSUME NEW k \in Keys
      PROVE /\ k[2] = minute' /\ counter'[k].ends # Nobody => counter'[k].ends[1] > minute'
            /\ k[2] > minute' => counter'[k] = Missing
    BY DEF KeyInv
  <2>1. k[2] > minute => k # Key(r)
    BY <1>k, <1>n DEF LimiterTypeOK, Minutes, Keys
  <2>2. k # Key(r) => counter'[k] = counter[k]
    BY <1>0, <1>k DEF LimiterTypeOK
  <2> QED BY <1>0, <1>c, <2>1, <2>2 DEF KeyInv
<1>3. Key(r)' = Key(r) /\ \A s \in Requests : Key(s)' = Key(s)
  BY <1>0 DEF Key
<1>4. RankInv'
  <2>1. \A s \in Requests : s # r => (OnTime(s)' <=> OnTime(s)) /\ rank'[s] = rank[s]
    BY <1>0 DEF OnTime, LimiterTypeOK
  <2>2. rank'[r] = n /\ counted'[r] = minute
    BY <1>0 DEF LimiterTypeOK
  <2>3. ASSUME NEW s \in Requests, OnTime(s)', window'[s] = minute'
        PROVE  rank'[s] <= counter'[Key(s)].n
    <3>1. CASE s = r
      BY <3>1, <2>2, <1>c, <1>k, <1>n
    <3>2. CASE s # r
      <4>1. OnTime(s) /\ window[s] = minute /\ rank'[s] = rank[s]
        BY <2>1, <2>3, <3>2, <1>0
      <4>2. Key(s) \in Keys /\ rank[s] <= counter[Key(s)].n
        BY <4>1, KeyTyped DEF RankInv, StageInv, OnTime
      <4>3. counter[Key(s)].n <= counter'[Key(s)].n
        <5>1. counter[Key(s)].n \in Nat /\ counter[Key(r)].n \in Nat
          BY <4>2, <1>k DEF LimiterTypeOK
        <5> QED BY <5>1, <4>2, <1>c, <1>n DEF n
      <4> QED BY <4>1, <4>2, <4>3, <1>1, <1>c, <1>n DEF LimiterTypeOK
    <3> QED BY <3>1, <3>2
  <2>4. ASSUME NEW s \in Requests, s # r, OnTime(r)', OnTime(s)', Key(s) = Key(r)
        PROVE  rank'[s] # rank'[r]
    <3>1. window[r] = minute
      BY <2>4, <2>2, <1>0 DEF OnTime
    <3>2. window[s] = minute
      BY <2>4, <3>1 DEF Key
    <3>3. OnTime(s) /\ rank'[s] = rank[s]
      BY <2>1, <2>4
    <3>4. rank[s] <= counter[Key(r)].n
      BY <3>2, <3>3, <2>4 DEF RankInv
    <3> QED BY <3>3, <3>4, <2>2, <1>k DEF n, LimiterTypeOK
  <2>5. ASSUME NEW s \in Requests, NEW t \in Requests,
               OnTime(s)', OnTime(t)', Key(s) = Key(t), rank'[s] = rank'[t]
        PROVE  s = t
    BY <2>1, <2>4, <2>5 DEF RankInv
  <2> QED BY <1>3, <2>3, <2>5 DEF RankInv
<1>5. CountInv'
  <2>1. Counted(who[r], window[r])' = Counted(who[r], window[r]) \union {r}
    BY <1>0, <1>n DEF Counted, LimiterTypeOK
  <2>2. r \notin Counted(who[r], window[r])
    BY <1>k DEF Counted
  <2>3. Cardinality(Counted(who[r], window[r])') = Cardinality(Counted(who[r], window[r])) + 1
    BY <2>1, <2>2, CountedFinite, FS_AddElement
  <2>4. ASSUME NEW c, NEW w, <<c, w>> # Key(r) PROVE Counted(c, w)' = Counted(c, w)
    BY <2>4, <1>0 DEF Counted, LimiterTypeOK, Key
  <2>5. n <= Cardinality(Counted(who[r], window[r])')
    BY <2>3, <1>k, CountedFinite DEF CountInv, n, LimiterTypeOK
  <2>6. ASSUME NEW k \in Keys PROVE counter'[k].n <= Cardinality(Counted(k[1], k[2])')
    <3>1. CASE k = Key(r)
      BY <3>1, <2>5, <1>c, <1>k
    <3>2. CASE k # Key(r)
      <4>1. <<k[1], k[2]>> # Key(r)
        BY <3>2 DEF Keys
      <4> QED BY <4>1, <2>4, <3>2, <1>c DEF CountInv
    <3> QED BY <3>1, <3>2
  <2>7. ASSUME NEW s \in Requests, rank'[s] > 0
        PROVE  rank'[s] <= Cardinality(Counted(who[s], window[s])')
    <3>1. CASE s = r
      BY <3>1, <2>5, <1>0 DEF LimiterTypeOK
    <3>2. CASE s # r
      <4>1. rank'[s] = rank[s] /\ rank[s] <= Cardinality(Counted(who[s], window[s]))
        BY <3>2, <2>7, <1>0 DEF LimiterTypeOK, CountInv
      <4>2. CASE Key(s) = Key(r)
        <5>1. Counted(who[s], window[s]) = Counted(who[r], window[r])
             /\ Counted(who[s], window[s])' = Counted(who[r], window[r])'
          BY <4>2, <1>0 DEF Key
        <5> QED BY <4>1, <5>1, <2>3, CountedFinite DEF LimiterTypeOK
      <4>3. CASE Key(s) # Key(r)
        BY <4>1, <4>3, <2>4 DEF Key
      <4> QED BY <4>2, <4>3
    <3> QED BY <3>1, <3>2
  <2> QED BY <1>0, <2>6, <2>7 DEF CountInv
<1> QED BY <1>1, <1>2, <1>4, <1>5

LEMMA IncrInv ==
  ASSUME LimiterInv, NEW r \in Requests, Incr(r)
  PROVE  LimiterInv'
<1> USE LimiterAssumption DEF LimiterInv
<1>1. /\ KeyInv' /\ RankInv' /\ CountInv'
      /\ counter' \in [Keys -> [n : Nat, ends : (Nat \X Nat) \union {Nobody}]]
      /\ rank' \in [Requests -> Nat] /\ counted' \in [Requests -> Nat]
      /\ rank'[r] > 0 /\ rank' = [rank EXCEPT ![r] = rank'[r]]
  BY IncrementInv DEF Incr
<1>2. /\ at[r] = "counting" /\ r \notin passed
      /\ \/ at' = [at EXCEPT ![r] = "expiring"] /\ passed' = passed
         \/ rank'[r] > Limit /\ at' = [at EXCEPT ![r] = "refused"] /\ passed' = passed
         \/ /\ ~(rank'[r] > Limit)
            /\ at' = [at EXCEPT ![r] = "admitted"] /\ passed' = passed \union {r}
      /\ UNCHANGED <<minute, second, who, window>>
  BY DEF Incr, Verdict, Goes, StageInv
<1>3. LimiterTypeOK'
  BY <1>1, <1>2 DEF LimiterTypeOK, Labels
<1>4. StageInv'
  <2>1. \A s \in Requests : s # r => rank'[s] = rank[s] /\ at'[s] = at[s]
                                     /\ (s \in passed' <=> s \in passed)
    BY <1>1, <1>2 DEF LimiterTypeOK
  <2>2. rank'[r] \in Nat
    BY <1>1
  <2>3. at'[r] \in {"expiring", "refused", "admitted"}
    BY <1>2 DEF LimiterTypeOK
  <2>4. /\ at'[r] = "refused" => rank'[r] > Limit
        /\ r \in passed' => rank'[r] \in 1..Limit
    BY <1>1, <1>2, <2>2 DEF LimiterTypeOK
  <2> QED BY <1>1, <1>2, <2>1, <2>3, <2>4 DEF StageInv
<1> QED BY <1>1, <1>3, <1>4

\* An EXPIRE gives the key of its minute an end after that minute.
LEMMA SetEndInv ==
  ASSUME LimiterInv, NEW r \in Requests, at[r] = "expiring", SetEnd(r),
         UNCHANGED <<minute, second, who, window, rank, counted>>
  PROVE  /\ KeyInv' /\ RankInv' /\ CountInv'
         /\ counter' \in [Keys -> [n : Nat, ends : (Nat \X Nat) \union {Nobody}]]
<1> USE LimiterAssumption DEF LimiterInv
<1>0. minute \in Nat /\ second \in Nat /\ rank[r] > 0
  BY DEF StageInv, LimiterTypeOK, Minutes
<1>k. Key(r) \in Keys /\ Key(r)[2] = window[r] /\ window[r] <= minute
  BY <1>0, KeyTyped DEF StageInv
<1>c. /\ counter' \in [Keys -> [n : Nat, ends : (Nat \X Nat) \union {Nobody}]]
      /\ \A k \in Keys :
           /\ counter'[k].n = counter[k].n
           /\ counter'[k] = counter[k] \/ (k = Key(r) /\ counter'[k].ends[1] = minute + 1)
  BY <1>0, <1>k DEF SetEnd, InAMinute, LimiterTypeOK
<1>3. KeyInv'
  <2> SUFFICES ASSUME NEW k \in Keys
      PROVE /\ k[2] = minute' /\ counter'[k].ends # Nobody => counter'[k].ends[1] > minute'
            /\ k[2] > minute' => counter'[k] = Missing
    BY DEF KeyInv
  <2>1. k[2] > minute => k # Key(r)
    BY <1>0, <1>k DEF LimiterTypeOK, Minutes, Keys
  <2> QED BY <1>0, <1>c, <2>1 DEF KeyInv
<1>4. \A s \in Requests : Key(s)' = Key(s) /\ OnTime(s)' = OnTime(s)
  BY <1>0 DEF Key, OnTime
<1>5. RankInv'
  <2>1. ASSUME NEW s \in Requests, OnTime(s), window[s] = minute
        PROVE  rank[s] <= counter'[Key(s)].n
    BY <2>1, <1>c, KeyTyped DEF RankInv, StageInv, OnTime
  <2> QED BY <1>0, <1>4, <2>1 DEF RankInv
<1>6. CountInv'
  <2>1. \A c, w : Counted(c, w)' = Counted(c, w)
    BY <1>0 DEF Counted
  <2> QED BY <1>0, <1>c, <2>1 DEF CountInv
<1> QED BY <1>c, <1>3, <1>5, <1>6

LEMMA ExpireInv ==
  ASSUME LimiterInv, NEW r \in Requests, Expire(r)
  PROVE  LimiterInv'
<1> USE LimiterAssumption DEF LimiterInv
<1>0. /\ at[r] = "expiring" /\ SetEnd(r)
      /\ rank[r] \in Nat /\ rank[r] > 0 /\ minute \in Nat /\ second \in Nat
      /\ \/ rank[r] > Limit /\ at' = [at EXCEPT ![r] = "refused"] /\ passed' = passed
         \/ /\ ~(rank[r] > Limit)
            /\ at' = [at EXCEPT ![r] = "admitted"] /\ passed' = passed \union {r}
      /\ UNCHANGED <<minute, second, who, window, rank, counted>>
  BY DEF Expire, Verdict, Goes, StageInv, LimiterTypeOK, Minutes
<1>1. /\ KeyInv' /\ RankInv' /\ CountInv'
      /\ counter' \in [Keys -> [n : Nat, ends : (Nat \X Nat) \union {Nobody}]]
  BY <1>0, SetEndInv
<1>2. LimiterTypeOK'
  BY <1>0, <1>1 DEF LimiterTypeOK, Labels
<1>3. StageInv'
  BY <1>0 DEF StageInv, LimiterTypeOK
<1> QED BY <1>1, <1>2, <1>3

LEMMA RedisFailsInv ==
  ASSUME LimiterInv, NEW r \in Requests, RedisFails(r)
  PROVE  LimiterInv'
<1> USE LimiterAssumption DEF LimiterInv
<1>0. /\ at[r] \in {"counting", "expiring"} /\ at' = [at EXCEPT ![r] = "failed"]
      /\ UNCHANGED <<minute, second, who, window, passed>>
  BY DEF RedisFails, Goes
<1>1. CASE at[r] = "counting" /\ Increment(r)
  <2>1. /\ KeyInv' /\ RankInv' /\ CountInv'
        /\ counter' \in [Keys -> [n : Nat, ends : (Nat \X Nat) \union {Nobody}]]
        /\ rank' \in [Requests -> Nat] /\ counted' \in [Requests -> Nat]
        /\ rank'[r] > 0 /\ rank' = [rank EXCEPT ![r] = rank'[r]]
    BY <1>0, <1>1, IncrementInv
  <2>2. LimiterTypeOK'
    BY <1>0, <2>1 DEF LimiterTypeOK, Labels
  <2>3. \A s \in Requests : s # r => rank'[s] = rank[s] /\ at'[s] = at[s]
    BY <1>0, <2>1 DEF LimiterTypeOK
  <2>4. at'[r] = "failed" /\ r \notin passed /\ who[r] \in Clients
    BY <1>0, <1>1 DEF LimiterTypeOK, StageInv
  <2>5. StageInv'
    BY <1>0, <2>3, <2>4 DEF StageInv
  <2> QED BY <2>1, <2>2, <2>5
<1>2. CASE UNCHANGED <<counter, rank, counted>>
  <2>1. LimiterTypeOK'
    BY <1>0, <1>2 DEF LimiterTypeOK, Labels
  <2>2. StageInv'
    BY <1>0, <1>2 DEF StageInv, LimiterTypeOK
  <2>3. KeyInv'
    BY <1>0, <1>2 DEF KeyInv
  <2>4. RankInv'
    BY <1>0, <1>2 DEF RankInv, OnTime, Key
  <2>5. CountInv'
    BY <1>0, <1>2 DEF CountInv, Counted
  <2> QED BY <2>1, <2>2, <2>3, <2>4, <2>5
<1>3. CASE at[r] = "expiring" /\ SetEnd(r) /\ UNCHANGED <<rank, counted>>
  <2>1. /\ KeyInv' /\ RankInv' /\ CountInv'
        /\ counter' \in [Keys -> [n : Nat, ends : (Nat \X Nat) \union {Nobody}]]
    BY <1>0, <1>3, SetEndInv
  <2>2. LimiterTypeOK'
    BY <1>0, <1>3, <2>1 DEF LimiterTypeOK, Labels
  <2>3. StageInv'
    BY <1>0, <1>3 DEF StageInv, LimiterTypeOK
  <2> QED BY <2>1, <2>2, <2>3
<1> QED BY <1>1, <1>2, <1>3 DEF RedisFails

LEMMA ServeInv ==
  ASSUME LimiterInv, NEW r \in Requests, Serve(r)
  PROVE  LimiterInv'
<1>1. CASE Limiter(r)
  BY <1>1, IncrInv, ExpireInv, RedisFailsInv DEF Limiter
<1>2. ASSUME \E from, to \in Later : Moves(r, from, to) PROVE LimiterInv'
  BY <1>2, MovesInv
<1> USE DEF Later, Labels
<1>3. CASE Guard(r)
  BY <1>2, <1>3 DEF Guard, Takes
<1>4. CASE Answer(r)
  BY <1>2, <1>4 DEF Answer, Leaves
<1>5. CASE StartStream(r)
  BY <1>2, <1>5 DEF StartStream, Leaves
<1>6. CASE OpenTurn(r)
  BY <1>2, <1>6 DEF OpenTurn, Takes
<1>7. CASE CommitUser(r)
  BY <1>2, <1>7 DEF CommitUser, Leaves
<1>8. CASE Retrieve(r)
  BY <1>2, <1>8 DEF Retrieve, Takes
<1>9. CASE EndTurn(r)
  BY <1>2, <1>9 DEF EndTurn, Leaves
<1>10. CASE GiveUp(r)
  BY <1>2, <1>10 DEF GiveUp, Waits, Leaves
<1>11. CASE AnswerAtOnce(r)
  BY <1>2, <1>11 DEF AnswerAtOnce, Leaves
<1> QED BY <1>1, <1>3, <1>4, <1>5, <1>6, <1>7, <1>8, <1>9, <1>10, <1>11 DEF Serve

LEMMA InvNext == LimiterInv /\ [Next]_vars => LimiterInv'
<1> SUFFICES ASSUME LimiterInv, [Next]_vars PROVE LimiterInv'
  OBVIOUS
<1>1. CASE Tick
  BY <1>1, TickInv
<1>2. ASSUME NEW r \in Requests,
             ArriveExempt(r) \/ \E c \in Clients : Arrive(r, c)
      PROVE  LimiterInv'
  BY <1>2, ArriveInv
<1>3. ASSUME NEW r \in Requests, Serve(r) PROVE LimiterInv'
  BY <1>3, ServeInv
<1>4. ASSUME NEW r \in Requests, Disconnect(r) PROVE LimiterInv'
  BY <1>4, MovesInv DEF Disconnect, Leaves, Later, Labels
<1>5. CASE UNCHANGED vars
  BY <1>5, StutterInv DEF vars
<1> QED BY <1>1, <1>2, <1>3, <1>4, <1>5 DEF Next

LEMMA InvHolds == Spec => []LimiterInv
BY InvInit, InvNext, PTL DEF Spec

-----------------------------------------------------------------------------
\* Every variable of the limiter has its type, whatever the server does.
THEOREM LimiterTypeCorrect == Spec => []LimiterTypeOK
<1>1. LimiterInv => LimiterTypeOK
  BY DEF LimiterInv
<1> QED BY <1>1, InvHolds, PTL

\* The limit holds for the requests counted within their minute: the ranks of
\* those let through are different numbers up to Limit.
THEOREM LimitHolds == Spec => []OnTimeBounded
<1>1. LimiterInv => OnTimeBounded
  <2> SUFFICES ASSUME LimiterInv, NEW c \in Clients, NEW w \in Minutes
      PROVE Cardinality({r \in passed : who[r] = c /\ window[r] = w /\ counted[r] = w}) <= Limit
    BY DEF OnTimeBounded
  <2> DEFINE S == {r \in passed : who[r] = c /\ window[r] = w /\ counted[r] = w}
             T == 1..Limit
             f == [r \in S |-> rank[r]]
  <2> USE LimiterAssumption DEF LimiterInv
  <2>1. S \in SUBSET Requests
    BY DEF LimiterTypeOK
  <2>2. IsFiniteSet(S) /\ Cardinality(S) \in Nat
    BY <2>1, FS_Subset, FS_CardinalityType
  <2>3. IsFiniteSet(T) /\ Cardinality(T) = Limit
    BY FS_Interval
  <2>4. f \in [S -> T]
    BY <2>1 DEF StageInv
  <2>5. ASSUME NEW r \in S, NEW s \in S, f[r] = f[s] PROVE r = s
    BY <2>1, <2>5 DEF RankInv, StageInv, OnTime, Key, LimiterTypeOK
  <2>6. ~ (Cardinality(T) < Cardinality(S))
    <3> HIDE DEF S, T, f
    <3> QED BY <2>2, <2>3, <2>4, <2>5, FS_PigeonHole
  <2> QED BY <2>2, <2>3, <2>6
<1> QED BY <1>1, InvHolds, PTL

\* Who is refused came after Limit others of its client and minute.
THEOREM RefusalsJustified == Spec => []RefusedOnlyOverLimit
<1>1. LimiterInv => RefusedOnlyOverLimit
  <2> SUFFICES ASSUME LimiterInv, NEW r \in Requests, at[r] = "refused"
      PROVE Cardinality(Counted(who[r], window[r]) \ {r}) >= Limit
    BY DEF RefusedOnlyOverLimit
  <2> USE LimiterAssumption DEF LimiterInv
  <2>1. rank[r] \in Nat /\ rank[r] > Limit /\ rank[r] <= Cardinality(Counted(who[r], window[r]))
    BY DEF StageInv, CountInv, LimiterTypeOK
  <2>2. r \in Counted(who[r], window[r])
    BY <2>1 DEF Counted
  <2> DEFINE C == Counted(who[r], window[r])
  <2>3. IsFiniteSet(C) /\ Cardinality(C) \in Nat
    BY CountedFinite
  <2>4. Cardinality(C \ {r}) = Cardinality(C) - 1
    BY <2>2, <2>3, FS_RemoveElement
  <2> QED BY <2>1, <2>3, <2>4
<1> QED BY <1>1, InvHolds, PTL

=============================================================================
