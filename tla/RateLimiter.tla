---------------------------- MODULE RateLimiter ----------------------------
(***************************************************************************)
(* RateLimitMiddleware: a counter in Redis per client and minute, whose    *)
(* key is named after the minute.  The minute is read from the clock       *)
(* before the INCR is sent; the INCR takes effect later, maybe in another  *)
(* minute, and the EXPIRE of the first one later still, or never.          *)
(*                                                                         *)
(* at is the state of a request; ApiServer takes it on from "admitted".    *)
(* The API processes and Redis share one clock, and Redis keeps its data.  *)
(* _identify_client hashes a bearer token with a salt of its process, so   *)
(* that one caller is a client of its own in every API process.            *)
(*                                                                         *)
(* KeyOfClient and HalfAMinute are no part of the specification: each      *)
(* stands before the definition it gets wrong.                             *)
(***************************************************************************)
EXTENDS Naturals, FiniteSets

CONSTANTS
  Requests,   \* requests of an instance
  Clients,    \* what _identify_client returns
  Limit,      \* RATE_LIMIT_PER_MINUTE
  Seconds,    \* steps of the clock in a minute
  MaxMinute,  \* bound on the clock
  Nobody      \* no client, and no time

ASSUME LimiterAssumption ==
  /\ IsFiniteSet(Requests)
  /\ Nobody \notin Clients /\ Nobody \notin Nat \X Nat
  /\ Limit \in Nat /\ Seconds \in Nat \ {0} /\ MaxMinute \in Nat

VARIABLES
  minute, second,  \* the clock
  counter,         \* Redis: per key its value, 0 if it is missing, and its end
  at,              \* what a request does next
  who, window,     \* its client_key and window
  rank,            \* current, the value of its INCR; 0 before
  counted,         \* history: the minute its INCR took effect
  passed           \* history: the requests that were counted and let through

limiterVars == <<minute, second, counter, at, who, window, rank, counted, passed>>

Minutes == 0..MaxMinute
Keys    == Clients \X Minutes
Missing == [n |-> 0, ends |-> Nobody]

(* mutant: one key per client *)
KeyOfClient(r) == <<who[r], 0>>

(* redis_key *)
Key(r) == <<who[r], window[r]>>

Goes(r, label) == at' = [at EXCEPT ![r] = label]

-----------------------------------------------------------------------------
LimiterInit ==
  /\ minute = 0 /\ second = 0
  /\ counter = [k \in Keys |-> Missing]
  /\ at = [r \in Requests |-> "idle"]
  /\ who = [r \in Requests |-> Nobody]
  /\ window = [r \in Requests |-> 0]
  /\ rank = [r \in Requests |-> 0]
  /\ counted = [r \in Requests |-> 0]
  /\ passed = {}

(* Keys that end now are gone. *)
Tick ==
  LET now == IF second + 1 < Seconds THEN <<minute, second + 1>> ELSE <<minute + 1, 0>>
  IN  /\ now[1] <= MaxMinute
      /\ minute' = now[1] /\ second' = now[2]
      /\ counter' = [k \in Keys |-> IF counter[k].ends = now THEN Missing ELSE counter[k]]
      /\ UNCHANGED <<at, who, window, rank, counted, passed>>

(* one of _EXEMPT_PATHS *)
ArriveExempt(r) ==
  /\ at[r] = "idle"
  /\ Goes(r, "admitted")
  /\ UNCHANGED <<minute, second, counter, who, window, rank, counted, passed>>

Arrive(r, c) ==
  /\ at[r] = "idle"
  /\ Goes(r, "counting")
  /\ who' = [who EXCEPT ![r] = c]
  /\ window' = [window EXCEPT ![r] = minute]
  /\ UNCHANGED <<minute, second, counter, rank, counted, passed>>

Increment(r) ==
  LET n == counter[Key(r)].n + 1
  IN  /\ counter' = [counter EXCEPT ![Key(r)].n = n]
      /\ rank' = [rank EXCEPT ![r] = n]
      /\ counted' = [counted EXCEPT ![r] = minute]

Verdict(r, current) ==
  IF current > Limit THEN Goes(r, "refused") /\ passed' = passed
  ELSE Goes(r, "admitted") /\ passed' = passed \union {r}

Incr(r) ==
  /\ at[r] = "counting"
  /\ Increment(r)
  /\ IF rank'[r] = 1 THEN Goes(r, "expiring") /\ passed' = passed
     ELSE Verdict(r, rank'[r])
  /\ UNCHANGED <<minute, second, who, window>>

(* mutant: keys live for half a minute *)
HalfAMinute ==
  IF second + 1 < Seconds THEN <<minute, second + 1>> ELSE <<minute + 1, 0>>

(* in 60 seconds *)
InAMinute == <<minute + 1, second>>

(* A key without an end is still there. *)
SetEnd(r) == counter' = [counter EXCEPT ![Key(r)].ends = InAMinute]

Expire(r) ==
  /\ at[r] = "expiring"
  /\ SetEnd(r)
  /\ Verdict(r, rank[r])
  /\ UNCHANGED <<minute, second, who, window, rank, counted>>

(* The connection to Redis breaks, or the process dies: before the INCR or *)
(* the EXPIRE, or between one of them and its reply.  The answer is a 500. *)
RedisFails(r) ==
  /\ \/ /\ at[r] = "counting"
        /\ Increment(r)
     \/ /\ at[r] = "expiring"
        /\ SetEnd(r)
        /\ UNCHANGED <<rank, counted>>
     \/ /\ at[r] \in {"counting", "expiring"}
        /\ UNCHANGED <<counter, rank, counted>>
  /\ Goes(r, "failed")
  /\ UNCHANGED <<minute, second, who, window, passed>>

Limiter(r) == Incr(r) \/ Expire(r) \/ RedisFails(r)

-----------------------------------------------------------------------------
Counted(c, w) == {r \in Requests : who[r] = c /\ window[r] = w /\ rank[r] > 0}

(* In no minute are more than Limit of a client's requests let through,    *)
(* among those counted within the minute they were made in: their key      *)
(* cannot end before the minute does.  (A request whose INCR comes later   *)
(* may find its key gone and start it anew.)                               *)
OnTimeBounded ==
  \A c \in Clients, w \in Minutes :
    Cardinality({r \in passed : who[r] = c /\ window[r] = w /\ counted[r] = w}) <= Limit

(* No request is refused unless Limit others of its client were counted    *)
(* for its minute: a key that never ends, because its EXPIRE was lost,     *)
(* outlives its minute and shuts nobody out.                               *)
RefusedOnlyOverLimit ==
  \A r \in Requests :
    at[r] = "refused" => Cardinality(Counted(who[r], window[r]) \ {r}) >= Limit

=============================================================================
