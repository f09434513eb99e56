----------------------------- MODULE ApiServer -----------------------------
(***************************************************************************)
(* The requests of one API process, through the rate limiter and over the  *)
(* pool of database connections.                                           *)
(*                                                                         *)
(* A session takes a connection from the pool when it first needs one and  *)
(* gives it back when it commits or closes.  A chat turn has a session of  *)
(* its own, next to the one of the guards of its endpoint.  When the       *)
(* latter closes depends on the version of FastAPI: before the response is *)
(* sent, or when the stream has ended; requirements.txt allows both.       *)
(*                                                                         *)
(* WaitForever is no part of the specification: it stands before the       *)
(* definition it gets wrong.                                               *)
(***************************************************************************)
EXTENDS RateLimiter

CONSTANT Pool  \* DATABASE_POOL_SIZE + DATABASE_MAX_OVERFLOW

ASSUME PoolAssumption == Pool \in Nat \ {0}

VARIABLES
  holds,  \* connections a request has taken
  keeps   \* the session of the guards closes after the stream

vars == <<limiterVars, holds, keeps>>

Init ==
  /\ LimiterInit
  /\ holds = [r \in Requests |-> 0]
  /\ keeps \in BOOLEAN

-----------------------------------------------------------------------------
Limited == UNCHANGED <<holds, keeps>>

Moves(r, from, to) ==
  /\ at[r] = from
  /\ Goes(r, to)
  /\ UNCHANGED <<minute, second, counter, who, window, rank, counted, passed, keeps>>

(* Two sessions per request, one connection each. *)
InUse ==
  Cardinality({r \in Requests : holds[r] > 0}) + Cardinality({r \in Requests : holds[r] > 1})

(* Waiting in the pool's queue. *)
Waits == {"admitted", "opening", "retrieving"}

Takes(r, from, to) ==
  /\ InUse < Pool
  /\ Moves(r, from, to)
  /\ holds' = [holds EXCEPT ![r] = @ + 1]

Leaves(r, from, to, left) ==
  /\ Moves(r, from, to)
  /\ holds' = [holds EXCEPT ![r] = left]

(* get_current_user reads the caller's row; readiness runs SELECT 1. *)
Guard(r) == Takes(r, "admitted", "guarding")

(* A guard refuses, or the endpoint does its work and answers. *)
Answer(r) == Leaves(r, "guarding", "answered", 0)

(* Of the exempt paths only readiness has a session. *)
AnswerAtOnce(r) == who[r] = Nobody /\ Leaves(r, "admitted", "answered", 0)

(* chat, which is not exempt, returns the StreamingResponse. *)
StartStream(r) ==
  /\ who[r] # Nobody
  /\ Leaves(r, "guarding", "opening", IF keeps THEN 1 ELSE 0)

(* stream_chat_turn: the conversation, the message of the user, commit *)
OpenTurn(r)   == Takes(r, "opening", "opened")
CommitUser(r) == Leaves(r, "opened", "retrieving", holds[r] - 1)

(* The retrieval reads chunk rows; its transaction stays open while the    *)
(* answer streams, and until it is saved.                                  *)
Retrieve(r) == Takes(r, "retrieving", "streaming")
EndTurn(r)  == Leaves(r, "streaming", "answered", 0)

(* mutant: the pool has no timeout *)
WaitForever(r) == FALSE /\ Leaves(r, "retrieving", "answered", 0)

(* The pool's timeout.  It ends the request with a 500, breaks the stream  *)
(* that has not begun, or ends the turn with an error event.               *)
GiveUp(r) ==
  /\ InUse >= Pool
  /\ \E w \in Waits : Leaves(r, w, IF w = "retrieving" THEN "answered" ELSE "failed", 0)

(* The client disconnects and the stream is cancelled, or the turn raises; *)
(* its sessions close.                                                     *)
Disconnect(r) ==
  \E w \in {"opening", "opened", "retrieving", "streaming"} : Leaves(r, w, "failed", 0)

Serve(r) ==
  \/ Limiter(r) /\ Limited
  \/ Guard(r) \/ Answer(r) \/ AnswerAtOnce(r) \/ StartStream(r)
  \/ OpenTurn(r) \/ CommitUser(r) \/ Retrieve(r) \/ EndTurn(r)
  \/ GiveUp(r)

Next ==
  \/ Tick /\ Limited
  \/ \E r \in Requests :
       \/ ArriveExempt(r) /\ Limited
       \/ \E c \in Clients : Arrive(r, c) /\ Limited
       \/ Serve(r)
       \/ Disconnect(r)

Spec == Init /\ [][Next]_vars

(* The event loop runs whatever is ready; Redis, the database and the      *)
(* providers answer or fail.                                               *)
FairSpec == Spec /\ \A r \in Requests : WF_vars(Serve(r))

-----------------------------------------------------------------------------
UnderWay(r) ==
  at[r] # "idle" /\ (at[r] \in {"refused", "failed", "answered"} => holds[r] > 0)

(* Every request ends, and gives back its connections: chat turns that     *)
(* hold all connections and wait for one more each do so only until the    *)
(* pool's timeout.  (A request arrives once, so that all of them have      *)
(* ended when none is under way.)                                          *)
EveryRequestEnds ==
  (\E r \in Requests : UnderWay(r)) ~> (\A r \in Requests : ~UnderWay(r))

=============================================================================
