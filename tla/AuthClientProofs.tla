-------------------------- MODULE AuthClientProofs --------------------------
(***************************************************************************)
(* Proofs about RefreshTokens and AuthClient: what the token endpoints     *)
(* promise any client, and that calls of one tab do not cost each other    *)
(* the session.                                                            *)
(***************************************************************************)
EXTENDS AuthClient, TLAPS

-----------------------------------------------------------------------------
(* The endpoints.                                                          *)

\* What is left to a request that came too late: a guard ahead stops it.
LateInv ==
  \A r \in Requests : late[r] =>
    /\ reply[r] \notin Tokens
    /\ op[r] \notin {"rotate", "issue"}
    /\ op[r] \in {"login", "user"} => ~active
    /\ op[r] = "refresh" => ~active \/ token[shown[r]] # "live"

\* A request that is not replied to has no reply.
NoReplyYet == \A r \in Requests : op[r] # "replied" => reply[r] = None

EndpointInv == ServerTypeOK /\ NoReplyYet /\ LateInv

\* Every step of the endpoints keeps the types.
LEMMA ServerTypeStep == ServerTypeOK /\ [ServerNext]_server => ServerTypeOK'
<1> SUFFICES ASSUME ServerTypeOK, [ServerNext]_server PROVE ServerTypeOK'
  OBVIOUS
<1> USE TokenAssumption DEF ServerTypeOK, Tokens, Replies
<1>1. ASSUME NEW r \in Requests, Receive(r, "login", None), UNCHANGED <<token, issued, active>>
      PROVE  ServerTypeOK'
  BY <1>1 DEF Receive
<1>2. ASSUME NEW r \in Requests, NEW k \in 1..issued, Receive(r, "refresh", k),
             UNCHANGED <<token, issued, active>>
      PROVE  ServerTypeOK'
  BY <1>2 DEF Receive
<1>3. ASSUME NEW r \in Requests, Consume(r), UNCHANGED <<token, issued, active>>
      PROVE  ServerTypeOK'
  BY <1>3 DEF Consume
<1>4. ASSUME NEW r \in Requests, Authenticate(r) PROVE ServerTypeOK'
  BY <1>4 DEF Authenticate, Step, Answer
<1>5. ASSUME NEW r \in Requests, CheckToken(r) PROVE ServerTypeOK'
  BY <1>5 DEF CheckToken, Step, Answer
<1>6. ASSUME NEW r \in Requests, CheckUser(r) PROVE ServerTypeOK'
  BY <1>6 DEF CheckUser, Step, Answer
<1>7. ASSUME NEW r \in Requests, Issue(r) PROVE ServerTypeOK'
  <2>1. token' \in [Tokens -> {"unused", "live", "revoked", "lapsed"}]
    BY <1>7 DEF Issue
  <2>2. \A k \in Tokens : token'[k] = "unused" <=> k > issued'
    BY <1>7 DEF Issue
  <2>3. \A q \in Requests : reply'[q] \in Tokens => reply'[q] <= issued'
    BY <1>7 DEF Issue, Answer
  <2> QED BY <1>7, <2>1, <2>2, <2>3 DEF Issue, Answer
<1>8. ASSUME NEW r \in Requests, Break(r) PROVE ServerTypeOK'
  BY <1>8 DEF Break, Answer
<1>9. ASSUME NEW k \in Tokens, Revoke(k) PROVE ServerTypeOK'
  BY <1>9 DEF Revoke, requests
<1>10. ASSUME NEW k \in Tokens, Lapse(k) PROVE ServerTypeOK'
  BY <1>10 DEF Lapse, requests
<1>11. CASE Deactivate
  BY <1>11 DEF Deactivate, requests
<1>12. CASE UNCHANGED server
  BY <1>12 DEF server
<1> QED
  BY <1>1, <1>2, <1>3, <1>4, <1>5, <1>6, <1>7, <1>8, <1>9, <1>10, <1>11, <1>12
  DEF ServerNext, Handle

\* Every step of the endpoints keeps the invariant.
LEMMA EndpointStep == EndpointInv /\ [ServerNext]_server => EndpointInv'
<1> SUFFICES ASSUME EndpointInv, [ServerNext]_server PROVE NoReplyYet' /\ LateInv'
  BY ServerTypeStep DEF EndpointInv
<1> USE TokenAssumption DEF EndpointInv, ServerTypeOK, NoReplyYet, LateInv
<1>1. ASSUME NEW r \in Requests, Receive(r, "login", None), UNCHANGED <<token, issued, active>>
      PROVE  NoReplyYet' /\ LateInv'
  BY <1>1 DEF Receive
<1>2. ASSUME NEW r \in Requests, NEW k \in 1..issued, Receive(r, "refresh", k),
             UNCHANGED <<token, issued, active>>
      PROVE  NoReplyYet' /\ LateInv'
  BY <1>2 DEF Receive, IsActive
<1>3. ASSUME NEW r \in Requests, Consume(r), UNCHANGED <<token, issued, active>>
      PROVE  NoReplyYet' /\ LateInv'
  BY <1>3 DEF Consume
<1>4. ASSUME NEW r \in Requests, Authenticate(r) PROVE NoReplyYet' /\ LateInv'
  BY <1>4 DEF Authenticate, Step, Answer
<1>5. ASSUME NEW r \in Requests, CheckToken(r) PROVE NoReplyYet' /\ LateInv'
  BY <1>5 DEF CheckToken, IsActive, Step, Answer
<1>6. ASSUME NEW r \in Requests, CheckUser(r) PROVE NoReplyYet' /\ LateInv'
  BY <1>6 DEF CheckUser, Step, Answer
<1>7. ASSUME NEW r \in Requests, Issue(r) PROVE NoReplyYet' /\ LateInv'
  BY <1>7 DEF Issue, Answer, Tokens
<1>8. ASSUME NEW r \in Requests, Break(r) PROVE NoReplyYet' /\ LateInv'
  BY <1>8 DEF Break, Answer
<1>9. ASSUME NEW k \in Tokens, Revoke(k) PROVE NoReplyYet' /\ LateInv'
  BY <1>9 DEF Revoke, requests
<1>10. ASSUME NEW k \in Tokens, Lapse(k) PROVE NoReplyYet' /\ LateInv'
  BY <1>10 DEF Lapse, requests
<1>11. CASE Deactivate
  BY <1>11 DEF Deactivate, requests
<1>12. CASE UNCHANGED server
  BY <1>12 DEF server
<1> QED
  BY <1>1, <1>2, <1>3, <1>4, <1>5, <1>6, <1>7, <1>8, <1>9, <1>10, <1>11, <1>12
  DEF ServerNext, Handle

\* Under any client, a request that began after its token or its account was
\* finished is issued nothing (rotate_refresh_token, authenticate_user).
THEOREM LateAlwaysGetsNothing == ServerSpec => []LateGetsNothing
<1>1. ServerInit => EndpointInv
  BY TokenAssumption DEF ServerInit, EndpointInv, ServerTypeOK, NoReplyYet, LateInv, Tokens, Replies
<1>2. EndpointInv => LateGetsNothing
  BY DEF EndpointInv, LateInv, LateGetsNothing
<1> QED BY <1>1, <1>2, EndpointStep, PTL DEF ServerSpec

-----------------------------------------------------------------------------
(* The client on top of them.                                              *)

\* A tab that joins or starts a refresh is a client of the endpoints.
LEMMA JoinIsServed ==
  ASSUME TypeOK, NEW t \in Tabs, mem[t] # None, JoinRefresh(t)
  PROVE  [ServerNext]_server
<1>1. RefreshOf(t) \in Requests
  BY RequestAssumption DEF RefreshOf
<1>2. mem[t] \in 1..issued
  BY DEF TypeOK, ServerTypeOK, Tokens
<1> QED BY <1>1, <1>2 DEF JoinRefresh, ServerNext, server, requests

\* Every step of the client and its surroundings is one of the endpoints.
LEMMA ClientStepIsServed == TypeOK /\ [Next]_vars => [ServerNext]_server
<1> SUFFICES ASSUME TypeOK, [Next]_vars PROVE [ServerNext]_server
  OBVIOUS
<1>1. ASSUME NEW c \in Calls, NEW t \in Tabs, Fetch(c, t) PROVE [ServerNext]_server
  BY <1>1, JoinIsServed DEF Fetch
<1>2. ASSUME NEW c \in Calls, NEW t \in Tabs, Call(c, t) \/ Logout(c, t) PROVE [ServerNext]_server
  BY <1>1, <1>2 DEF Call, Logout
<1>3. ASSUME NEW c \in Calls, CallStep(c) PROVE [ServerNext]_server
  <2>1. CASE Serve(c)
    BY <2>1 DEF Serve
  <2>2. CASE ServeLogout(c)
    BY <2>2 DEF ServeLogout, ServerNext, TypeOK
  <2>3. CASE Denied(c)
    BY <2>3, JoinIsServed DEF Denied, TypeOK
  <2>4. CASE Disconnect(c)
    BY <2>4 DEF Disconnect
  <2>5. CASE Leave(c)
    BY <2>5 DEF Leave
  <2> QED BY <1>3, <2>1, <2>2, <2>3, <2>4, <2>5 DEF CallStep
<1>4. ASSUME NEW t \in Tabs, Login(t) \/ TabStep(t) PROVE [ServerNext]_server
  <2>1. RefreshOf(t) \in Requests /\ LoginOf(t) \in Requests
    BY RequestAssumption DEF RefreshOf, LoginOf
  <2>2. CASE Login(t)
    BY <2>1, <2>2 DEF Login, ServerNext
  <2>3. CASE Settle(t)
    BY <2>1, <2>3 DEF Settle, Resume, ServerNext
  <2>4. CASE LoginReply(t)
    BY <2>1, <2>4 DEF LoginReply, ServerNext
  <2> QED BY <1>4, <2>2, <2>3, <2>4 DEF TabStep
<1>5. ASSUME NEW r \in Requests, Serving(r) PROVE [ServerNext]_server
  BY <1>5 DEF Serving, ServerNext
<1>6. CASE Environment
  BY <1>6 DEF Environment, ServerNext, Age
<1>7. CASE UNCHANGED vars
  BY <1>7 DEF vars
<1> QED BY <1>2, <1>3, <1>4, <1>5, <1>6, <1>7 DEF Next

\* What the client keeps of its own.
ClientTypeOK ==
  /\ mem \in [Tabs -> Tokens \union {None}]
  /\ \A t \in Tabs : mem[t] # None => mem[t] <= issued
  /\ aged \in SUBSET Tokens
  /\ cpc \in [Calls -> Busy \union Over]
  /\ home \in [Calls -> Tabs]
  /\ used \in [Calls -> Tokens \union {None}]
  /\ body \in [Calls -> Tokens \union {None}]
  /\ \A c \in Calls : cpc[c] \in Waiting => Refreshing(home[c])

LEMMA TypeParts == TypeOK <=> ServerTypeOK /\ ClientTypeOK
BY DEF TypeOK, ClientTypeOK

LEMMA Labels ==
  /\ \A t, u \in Tabs : RefreshOf(t) # LoginOf(u)
  /\ \A t, u \in Tabs : RefreshOf(t) = RefreshOf(u) => t = u
  /\ \A t \in Tabs : RefreshOf(t) \in Requests /\ LoginOf(t) \in Requests
BY RequestAssumption DEF RefreshOf, LoginOf

\* No step of the endpoints takes a token back, and only Consume ends a request.
LEMMA ServerGrows ==
  ASSUME ServerTypeOK, [ServerNext]_server
  PROVE  issued <= issued'
BY DEF ServerTypeOK, ServerNext, server, requests, Receive, Consume, Handle, Authenticate,
   CheckToken, CheckUser, Issue, Break, Revoke, Lapse, Deactivate, Step, Answer

\* A call that joined a refresh waits for one that is under way.
LEMMA JoinTypes ==
  ASSUME TypeOK, NEW t \in Tabs, JoinRefresh(t)
  PROVE  /\ Refreshing(t)'
         /\ \A u \in Tabs : Refreshing(u) => Refreshing(u)'
         /\ issued' = issued
BY Labels DEF JoinRefresh, Receive, Refreshing, TypeOK, ServerTypeOK, requests

\* Every step keeps the types of the client.
LEMMA ClientTypeStep == TypeOK /\ [Next]_vars => TypeOK'
<1> SUFFICES ASSUME TypeOK, [Next]_vars PROVE TypeOK'
  OBVIOUS
<1>s. ServerTypeOK' /\ issued <= issued'
  BY ClientStepIsServed, ServerTypeStep, ServerGrows, TypeParts
<1> SUFFICES ClientTypeOK'
  BY <1>s DEF TypeOK, ClientTypeOK
<1> USE TokenAssumption DEF TypeOK, ServerTypeOK, ClientTypeOK, Busy, Waiting, Over, Tokens
<1>1. ASSUME NEW c \in Calls, NEW t \in Tabs, Fetch(c, t), body' \in [Calls -> Tokens \union {None}]
      PROVE  ClientTypeOK'
  <2>1. CASE Move(c, "sent") /\ UNCHANGED server
    BY <1>1, <2>1 DEF Fetch, Move, Refreshing, server
  <2>2. CASE Move(c, "waiting") /\ JoinRefresh(t)
    BY <1>1, <2>2, JoinTypes DEF Fetch, Move
  <2> QED BY <1>1, <2>1, <2>2 DEF Fetch
<1>2. ASSUME NEW c \in Calls, NEW t \in Tabs, Call(c, t) PROVE ClientTypeOK'
  BY <1>1, <1>2 DEF Call
<1>3. ASSUME NEW c \in Calls, NEW t \in Tabs, Logout(c, t) PROVE ClientTypeOK'
  BY <1>1, <1>3 DEF Logout
<1>4. ASSUME NEW c \in Calls, Serve(c) PROVE ClientTypeOK'
  BY <1>4 DEF Serve, Return, Move, Refreshing, server
<1>5. ASSUME NEW c \in Calls, ServeLogout(c) PROVE ClientTypeOK'
  BY <1>5 DEF ServeLogout, Return, Move, Refreshing, Revoke, requests
<1>6. ASSUME NEW c \in Calls, Denied(c) PROVE ClientTypeOK'
  BY <1>6, JoinTypes DEF Denied, Move, Refreshing, server
<1>7. ASSUME NEW c \in Calls, Disconnect(c) PROVE ClientTypeOK'
  BY <1>7 DEF Disconnect, Return, Move, Refreshing, server
<1>8. ASSUME NEW c \in Calls, Leave(c) PROVE ClientTypeOK'
  BY <1>8 DEF Leave, Refreshing, server
<1>9. ASSUME NEW t \in Tabs, Login(t) PROVE ClientTypeOK'
  BY <1>9, Labels DEF Login, Receive, Refreshing, calls
<1>10. ASSUME NEW t \in Tabs, LoginReply(t) PROVE ClientTypeOK'
  BY <1>10, Labels DEF LoginReply, Consume, Refreshing, calls
<1>11. ASSUME NEW t \in Tabs, Settle(t) PROVE ClientTypeOK'
  BY <1>11, Labels DEF Settle, Resume, Fresh, Stored, Waiters, Consume, Refreshing
<1>12. ASSUME NEW r \in Requests, Serving(r) PROVE ClientTypeOK'
  BY <1>12, Labels, <1>s DEF Serving, Handle, Authenticate, CheckToken, CheckUser, Issue,
     Step, Answer, Refreshing, calls
<1>13. CASE Environment
  <2>1. ASSUME NEW r \in Requests, Break(r), UNCHANGED <<mem, aged, calls>> PROVE ClientTypeOK'
    BY <2>1, Labels DEF Break, Answer, Refreshing, calls
  <2>2. ASSUME NEW k \in Tokens, Lapse(k), UNCHANGED <<mem, aged, calls>> PROVE ClientTypeOK'
    BY <2>2 DEF Lapse, requests, Refreshing, calls
  <2>3. CASE Deactivate /\ UNCHANGED <<mem, aged, calls>>
    BY <2>3 DEF Deactivate, requests, Refreshing, calls
  <2>4. ASSUME NEW k \in Tokens, Age(k) PROVE ClientTypeOK'
    BY <2>4 DEF Age, server, Refreshing, calls
  <2> QED BY <1>13, <2>1, <2>2, <2>3, <2>4 DEF Environment
<1>14. CASE UNCHANGED vars
  BY <1>14 DEF vars, calls, server, Refreshing
<1> QED
  BY <1>2, <1>3, <1>4, <1>5, <1>6, <1>7, <1>8, <1>9, <1>10, <1>11, <1>12, <1>13, <1>14
  DEF Next, CallStep, TabStep

\* The types of AuthClient.
THEOREM TypeCorrect == Spec => []TypeOK
<1>1. Init => TypeOK
  BY TokenAssumption, RequestAssumption
  DEF Init, ServerInit, TypeOK, ServerTypeOK, Tokens, Replies, Busy, Over, Waiting
<1> QED BY <1>1, ClientTypeStep, PTL DEF Spec

\* The client uses the endpoints as they expect any client to: their promises
\* hold for it.
THEOREM ClientUsesEndpoints == Spec => ServerSpec
<1>1. Init => ServerInit
  BY DEF Init
<1> QED BY <1>1, TypeCorrect, ClientStepIsServed, PTL DEF Spec, ServerSpec

\* In particular, for the requests of the client: one that began after its
\* token or its account was finished is issued nothing.
THEOREM ClientLateGetsNothing == Spec => []LateGetsNothing
BY ClientUsesEndpoints, LateAlwaysGetsNothing, PTL

-----------------------------------------------------------------------------
(* Tokens in replies.                                                      *)

\* Every token that is held somewhere has been issued.
HeldIssued ==
  /\ \A c \in Calls : used[c] # None => used[c] <= issued
  /\ \A c \in Calls : body[c] # None => body[c] <= issued
  /\ \A r \in Requests : shown[r] # None => shown[r] <= issued
  /\ \A k \in aged : k <= issued

\* A token on its way to the client is live, and nobody else has it.
UnseenReplies ==
  \A r \in Requests : reply[r] \in Tokens =>
    /\ token[reply[r]] = "live"
    /\ reply[r] \notin aged
    /\ \A t \in Tabs : mem[t] # reply[r]
    /\ \A c \in Calls : used[c] # reply[r] /\ body[c] # reply[r]
    /\ \A q \in Requests : shown[q] # reply[r]
    /\ \A q \in Requests : reply[q] = reply[r] => q = r

\* A request is repeated with a token that has not expired.
RepeatedFresh ==
  \A c \in Calls : cpc[c] = "resent" => used[c] \in Tokens \ aged

ReplyInv == TypeOK /\ EndpointInv /\ HeldIssued /\ UnseenReplies /\ RepeatedFresh

\* In one tab: the token of the store works unless a logout is under way, its
\* account or its time is over, or a refresh has replaced it and the reply is
\* on its way or lost.
SessionInv ==
  \A t \in Tabs : mem[t] # None =>
    \/ Leaving(t)
    \/ /\ token[mem[t]] \in {"live", "lapsed"}
       /\ op[RefreshOf(t)] = "replied" /\ shown[RefreshOf(t)] = mem[t] /\ reply[RefreshOf(t)] = None
            => ~active \/ token[mem[t]] = "lapsed"
    \/ /\ op[RefreshOf(t)] = "replied"
       /\ shown[RefreshOf(t)] = mem[t]
       /\ reply[RefreshOf(t)] \in Tokens \union {Error}

\* Logins present no token, refreshes log nobody in.
Kinds ==
  \A t \in Tabs :
    /\ shown[LoginOf(t)] = None
    /\ op[RefreshOf(t)] \notin {"login", "issue"}

-----------------------------------------------------------------------------
(* ReplyInv is inductive.                                                  *)

\* Joining a refresh disturbs no reply.
LEMMA JoinReplies ==
  ASSUME ReplyInv, NEW t \in Tabs, JoinRefresh(t)
  PROVE  /\ UNCHANGED <<token, issued, active>>
         /\ \A r \in Requests : reply'[r] \in Tokens => reply'[r] = reply[r]
         /\ \A r \in Requests : shown'[r] = shown[r] \/ shown'[r] = mem[t]
BY TokenAssumption DEF JoinRefresh, Receive, requests, ReplyInv, TypeOK, ServerTypeOK

LEMMA FetchReplies ==
  ASSUME ReplyInv, NEW c \in Calls, NEW t \in Tabs, Fetch(c, t),
         body' \in [Calls -> Tokens \union {None}],
         \A d \in Calls : body'[d] = body[d] \/ body'[d] = mem[t]
  PROVE  (HeldIssued /\ UnseenReplies /\ RepeatedFresh)'
<1> USE TokenAssumption DEF ReplyInv, TypeOK, ServerTypeOK, HeldIssued, UnseenReplies, RepeatedFresh,
        Busy, Over, Waiting
<1>1. CASE Move(c, "sent") /\ used' = [used EXCEPT ![c] = mem[t]] /\ UNCHANGED server
  BY <1>1 DEF Fetch, Move, server
<1>2. CASE Move(c, "waiting") /\ mem[t] # None /\ used' = [used EXCEPT ![c] = None] /\ JoinRefresh(t)
  <2>1. HeldIssued'
    BY <1>2, JoinReplies DEF Fetch
  <2>2. UnseenReplies'
    BY <1>2, JoinReplies DEF Fetch
  <2>3. RepeatedFresh'
    BY <1>2 DEF Fetch, Move
  <2> QED BY <2>1, <2>2, <2>3
<1> QED BY <1>1, <1>2 DEF Fetch

\* The steps of a request under way.
LEMMA ServingReplies ==
  ASSUME ReplyInv, NEW r \in Requests, Handle(r), UNCHANGED <<mem, aged, calls>>
  PROVE  (HeldIssued /\ UnseenReplies /\ RepeatedFresh)'
<1> USE TokenAssumption DEF ReplyInv, TypeOK, ServerTypeOK, HeldIssued, UnseenReplies, RepeatedFresh, calls
<1>1. CASE Authenticate(r)
  BY <1>1 DEF Authenticate, Step, Answer
<1>2. CASE CheckToken(r)
  BY <1>2 DEF CheckToken, Step, Answer
<1>3. CASE CheckUser(r)
  BY <1>3 DEF CheckUser, Step, Answer
<1>4. CASE Issue(r)
  <2>1. issued' = issued + 1 /\ reply' = [reply EXCEPT ![r] = issued + 1] /\ UNCHANGED shown
    BY <1>4 DEF Issue, Answer
  <2>2. HeldIssued'
    BY <2>1 DEF Tokens
  <2>3. \A k \in Tokens : token[k] = "live" /\ k # shown[r] => token'[k] = "live"
    BY <1>4 DEF Issue
  <2>4. issued + 1 \in Tokens /\ token'[issued + 1] = "live"
    BY <1>4 DEF Issue, Tokens
  <2>k. /\ issued + 1 \in Nat /\ issued \in Nat /\ issued + 1 # None
        /\ \A k \in Tokens : k <= issued => k # issued + 1
    BY <2>4 DEF Tokens
  <2>5. /\ \A t \in Tabs : mem[t] # issued + 1
        /\ \A c \in Calls : used[c] # issued + 1 /\ body[c] # issued + 1
        /\ \A q \in Requests : shown[q] # issued + 1 /\ reply[q] # issued + 1
        /\ issued + 1 \notin aged
    BY <2>k, <2>4 DEF Replies
  <2>6. reply[r] = None
    BY <1>4 DEF Issue, EndpointInv, NoReplyYet
  <2>7. UnseenReplies'
    BY <2>1, <2>3, <2>4, <2>5, <2>6
  <2> QED BY <2>2, <2>7
<1> QED BY <1>1, <1>2, <1>3, <1>4 DEF Handle

\* The store and the waiting calls take the token of the reply.
LEMMA SettleReplies ==
  ASSUME ReplyInv, NEW t \in Tabs, Settle(t)
  PROVE  (HeldIssued /\ UnseenReplies /\ RepeatedFresh)'
<1> USE TokenAssumption DEF ReplyInv, TypeOK, ServerTypeOK
<1> DEFINE r == RefreshOf(t)
<1>1. r \in Requests
  BY Labels
<1>2. /\ reply' = [reply EXCEPT ![r] = None]
      /\ shown' = [shown EXCEPT ![r] = None]
      /\ UNCHANGED <<token, issued, aged, body>>
  BY DEF Settle, Resume, Consume
<1>3. \/ Fresh(t) = None
      \/ Fresh(t) \in Tokens /\ Fresh(t) = reply[r]
  BY DEF Fresh, Stored
<1>4. \A c \in Calls : used'[c] = used[c] \/ used'[c] = Fresh(t)
  BY DEF Settle, Resume
<1>5. mem' = [mem EXCEPT ![t] = Fresh(t)]
  BY DEF Settle, Resume
<1>6. HeldIssued'
  BY <1>1, <1>2, <1>3, <1>4 DEF HeldIssued
<1>7. UnseenReplies'
  BY <1>1, <1>2, <1>3, <1>4, <1>5 DEF UnseenReplies
<1>8. RepeatedFresh'
  BY <1>1, <1>2, <1>3 DEF RepeatedFresh, UnseenReplies, Settle, Resume, Waiters, Waiting
<1> QED BY <1>6, <1>7, <1>8

\* Every step keeps ReplyInv.
LEMMA ReplyStep == ReplyInv /\ [Next]_vars => ReplyInv'
<1> SUFFICES ASSUME ReplyInv, [Next]_vars PROVE (HeldIssued /\ UnseenReplies /\ RepeatedFresh)'
  BY ClientTypeStep, ClientStepIsServed, EndpointStep DEF ReplyInv
<1> DEFINE Goal == (HeldIssued /\ UnseenReplies /\ RepeatedFresh)'
<1> USE TokenAssumption DEF ReplyInv, TypeOK, ServerTypeOK, HeldIssued, UnseenReplies, RepeatedFresh
<1>1. ASSUME NEW c \in Calls, NEW t \in Tabs, Call(c, t) PROVE Goal
  BY <1>1, FetchReplies DEF Call
<1>2. ASSUME NEW c \in Calls, NEW t \in Tabs, Logout(c, t) PROVE Goal
  BY <1>2, FetchReplies DEF Logout
<1>3. ASSUME NEW c \in Calls, Serve(c) PROVE Goal
  BY <1>3 DEF Serve, Return, Move, server
<1>4. ASSUME NEW c \in Calls, ServeLogout(c) PROVE Goal
  BY <1>4 DEF ServeLogout, Return, Move, Revoke, requests
<1>5. ASSUME NEW c \in Calls, Denied(c) PROVE Goal
  <2>1. CASE UNCHANGED server /\ Move(c, "rejected")
    BY <1>5, <2>1 DEF Denied, Move, server
  <2>2. CASE Move(c, "retrying") /\ mem[home[c]] # None /\ JoinRefresh(home[c])
    BY <1>5, <2>2, JoinReplies DEF Denied, Move
  <2> QED BY <1>5, <2>1, <2>2 DEF Denied
<1>6. ASSUME NEW c \in Calls, Disconnect(c) PROVE Goal
  BY <1>6 DEF Disconnect, Return, Move, server
<1>7. ASSUME NEW c \in Calls, Leave(c) PROVE Goal
  BY <1>7 DEF Leave, server
<1>8. ASSUME NEW t \in Tabs, Login(t) PROVE Goal
  BY <1>8, Labels DEF Login, Receive, calls
<1>9. ASSUME NEW t \in Tabs, LoginReply(t) PROVE Goal
  BY <1>9, Labels DEF LoginReply, Consume, calls
<1>10. ASSUME NEW t \in Tabs, Settle(t) PROVE Goal
  BY <1>10, SettleReplies
<1>11. ASSUME NEW r \in Requests, Serving(r) PROVE Goal
  BY <1>11, ServingReplies DEF Serving
<1>12. CASE Environment
  <2>1. ASSUME NEW r \in Requests, Break(r), UNCHANGED <<mem, aged, calls>> PROVE Goal
    BY <2>1 DEF Break, Answer, calls
  <2>2. ASSUME NEW k \in Tokens, InUse(k), Lapse(k), UNCHANGED <<mem, aged, calls>> PROVE Goal
    BY <2>2 DEF InUse, Lapse, requests, calls
  <2>3. CASE Deactivate /\ UNCHANGED <<mem, aged, calls>>
    BY <2>3 DEF Deactivate, requests, calls
  <2>4. ASSUME NEW k \in Tokens, Age(k) PROVE Goal
    BY <2>4 DEF Age, InUse, server, calls
  <2> QED BY <1>12, <2>1, <2>2, <2>3, <2>4 DEF Environment
<1>13. CASE UNCHANGED vars
  BY <1>13 DEF vars, calls, server
<1> QED
  BY <1>1, <1>2, <1>3, <1>4, <1>5, <1>6, <1>7, <1>8, <1>9, <1>10, <1>11, <1>12, <1>13
  DEF Next, CallStep, TabStep

LEMMA InitReply == Init => ReplyInv
<1>1. Init => TypeOK
  BY TokenAssumption, RequestAssumption
  DEF Init, ServerInit, TypeOK, ServerTypeOK, Tokens, Replies, Busy, Over, Waiting
<1>2. Init => EndpointInv
  BY <1>1, TokenAssumption DEF Init, ServerInit, EndpointInv, TypeOK, NoReplyYet, LateInv
<1>3. Init => HeldIssued /\ UnseenReplies /\ RepeatedFresh
  BY TokenAssumption DEF Init, ServerInit, HeldIssued, UnseenReplies, RepeatedFresh
<1> QED BY <1>1, <1>2, <1>3 DEF ReplyInv

LEMMA ReplyAlways == Spec => []ReplyInv
BY InitReply, ReplyStep, PTL DEF Spec

\* A call is rejected as unauthenticated only if its tab is logged out by then
\* or the account is deactivated (apiFetch 117-125), in any number of tabs.
THEOREM RejectedOnlyWhenOver == Spec => RejectedWhenOver
<1>1. ASSUME ReplyInv, [Next]_vars, NEW c \in Calls, cpc'[c] = "rejected", cpc[c] # "rejected"
      PROVE  mem'[home[c]] = None \/ ~active
  <2> USE <1>1, TokenAssumption DEF ReplyInv, TypeOK, ServerTypeOK
  <2>1. ASSUME NEW d \in Calls, CallStep(d) PROVE mem'[home[c]] = None \/ ~active
    <3>1. CASE Serve(d)
      BY <3>1 DEF Serve, Return, Move, Accepted, RepeatedFresh
    <3>2. CASE Denied(d)
      BY <3>2 DEF Denied, Move
    <3> QED BY <2>1, <3>1, <3>2 DEF CallStep, ServeLogout, Disconnect, Leave, Return, Move
  <2>2. ASSUME NEW t \in Tabs, Settle(t) PROVE mem'[home[c]] = None
    BY <2>2 DEF Settle, Resume, Waiters
  <2> QED BY <2>1, <2>2
    DEF Next, Call, Logout, Fetch, Move, TabStep, Login, LoginReply, Serving, Environment, Age, vars, calls
<1>2. ReplyInv /\ [Next]_vars =>
        [\A c \in Calls : cpc'[c] = "rejected" /\ cpc[c] # "rejected" =>
           mem'[home[c]] = None \/ ~active]_vars
  BY <1>1
<1> QED BY <1>2, ReplyAlways, PTL DEF Spec, RejectedWhenOver

-----------------------------------------------------------------------------
(* One tab.                                                                *)

OneTabInv == ReplyInv /\ Kinds /\ SessionInv

\* Every step keeps the kinds of the requests.
LEMMA KindsStep == ReplyInv /\ Kinds /\ [Next]_vars => Kinds'
<1> SUFFICES ASSUME ReplyInv, Kinds, [Next]_vars PROVE Kinds'
  OBVIOUS
<1> USE Labels, TokenAssumption DEF ReplyInv, TypeOK, ServerTypeOK, Kinds
<1>1. ASSUME NEW t \in Tabs, JoinRefresh(t) PROVE Kinds'
  BY <1>1 DEF JoinRefresh, Receive, requests
<1>2. ASSUME UNCHANGED <<op, shown>> PROVE Kinds'
  BY <1>2
<1>3. ASSUME NEW c \in Calls, NEW t \in Tabs, Call(c, t) \/ Logout(c, t) PROVE Kinds'
  BY <1>1, <1>2, <1>3 DEF Call, Logout, Fetch, server
<1>4. ASSUME NEW c \in Calls, CallStep(c) PROVE Kinds'
  BY <1>1, <1>2, <1>4
  DEF CallStep, Serve, ServeLogout, Denied, Disconnect, Leave, Revoke, server, requests
<1>5. ASSUME NEW t \in Tabs, Login(t) PROVE Kinds'
  BY <1>5 DEF Login, Receive
<1>6. ASSUME NEW t \in Tabs, TabStep(t) PROVE Kinds'
  BY <1>6 DEF TabStep, Settle, Resume, LoginReply, Consume
<1>7. ASSUME NEW r \in Requests, Handle(r) \/ Break(r) PROVE Kinds'
  BY <1>7 DEF Handle, Authenticate, CheckToken, CheckUser, Issue, Break, Step, Answer
<1>8. CASE Environment \/ UNCHANGED vars
  BY <1>2, <1>7, <1>8 DEF Environment, Lapse, Deactivate, Age, requests, server, vars
<1> QED BY <1>3, <1>4, <1>5, <1>6, <1>7, <1>8 DEF Next, Serving

OneTabOnly == \A t, u \in Tabs : t = u

\* What the steps of the endpoints and of the tab leave of the disjuncts of
\* SessionInv.
TokenWorks(t) ==
  /\ token[mem[t]] \in {"live", "lapsed"}
  /\ op[RefreshOf(t)] = "replied" /\ shown[RefreshOf(t)] = mem[t] /\ reply[RefreshOf(t)] = None
       => ~active \/ token[mem[t]] = "lapsed"

Replaced(t) ==
  /\ op[RefreshOf(t)] = "replied"
  /\ shown[RefreshOf(t)] = mem[t]
  /\ reply[RefreshOf(t)] \in Tokens \union {Error}

LEMMA SessionParts ==
  SessionInv <=> \A t \in Tabs : mem[t] # None => Leaving(t) \/ TokenWorks(t) \/ Replaced(t)
BY DEF SessionInv, TokenWorks, Replaced

\* Steps of the requests: a rotation revokes the token of the store only by
\* replacing it.
LEMMA ServingSession ==
  ASSUME OneTabOnly, OneTabInv, NEW r \in Requests, Handle(r), UNCHANGED <<mem, aged, calls>>
  PROVE  SessionInv'
<1> SUFFICES ASSUME NEW t \in Tabs, mem[t] # None, TokenWorks(t) \/ Replaced(t)
             PROVE  TokenWorks(t)' \/ Replaced(t)'
  BY SessionParts DEF SessionInv, TokenWorks, Replaced, OneTabInv, Leaving, calls
<1>r. r = RefreshOf(t) \/ r = LoginOf(t)
  BY RequestAssumption DEF OneTabOnly, RefreshOf, LoginOf
<1>k. mem[t] \in Tokens /\ mem[t] <= issued
  BY DEF OneTabInv, ReplyInv, TypeOK
<1> USE Labels, TokenAssumption
    DEF OneTabInv, ReplyInv, TypeOK, ServerTypeOK, Kinds, TokenWorks, Replaced, calls
<1>1. CASE Authenticate(r)
  BY <1>r, <1>1 DEF Authenticate, Step, Answer
<1>2. CASE CheckToken(r)
  BY <1>r, <1>2, <1>k DEF CheckToken, IsActive, Step, Answer
<1>3. CASE CheckUser(r)
  BY <1>r, <1>3 DEF CheckUser, Step, Answer
<1>4. CASE Issue(r)
  <2>1. issued + 1 \in Tokens /\ mem[t] # issued + 1
    BY <1>4, <1>k DEF Issue, Tokens
  <2>2. CASE r = RefreshOf(t) /\ shown[r] = mem[t]
    BY <1>4, <2>1, <2>2 DEF Issue, Answer
  <2>3. CASE shown[r] # mem[t]
    <3>1. token'[mem[t]] = token[mem[t]]
      BY <1>4, <1>k, <2>1, <2>3 DEF Issue
    <3> QED BY <1>r, <1>4, <2>1, <2>3, <3>1 DEF Issue, Answer
  <2> QED BY <1>r, <2>2, <2>3
<1> QED BY <1>1, <1>2, <1>3, <1>4 DEF Handle

\* Every step keeps the session of a single tab.
LEMMA SessionStep == OneTabOnly /\ OneTabInv /\ [Next]_vars => SessionInv'
<1> SUFFICES ASSUME OneTabOnly, OneTabInv, [Next]_vars PROVE SessionInv'
  OBVIOUS
<1> USE Labels, TokenAssumption
    DEF OneTabInv, ReplyInv, TypeOK, ServerTypeOK, Kinds, SessionInv
<1>1. ASSUME NEW t \in Tabs, JoinRefresh(t), mem[t] # None, UNCHANGED mem,
             \A u \in Tabs : Leaving(u) => Leaving(u)'
      PROVE  SessionInv'
  BY <1>1 DEF JoinRefresh, Receive, Refreshing, requests, OneTabOnly
<1>2. ASSUME NEW c \in Calls, NEW t \in Tabs, Fetch(c, t), body[c] = None,
             \A d \in Calls : d # c => body'[d] = body[d]
      PROVE  SessionInv'
  <2>1. \A u \in Tabs : Leaving(u) => Leaving(u)'
    BY <1>2 DEF Leaving, Fetch
  <2>2. CASE UNCHANGED server
    BY <1>2, <2>1, <2>2 DEF Fetch, server
  <2>3. CASE mem[t] # None /\ JoinRefresh(t)
    BY <1>1, <1>2, <2>1, <2>3 DEF Fetch
  <2> QED BY <1>2, <2>2, <2>3 DEF Fetch
<1>3. ASSUME NEW c \in Calls, NEW t \in Tabs, Call(c, t) \/ Logout(c, t) PROVE SessionInv'
  BY <1>2, <1>3 DEF Call, Logout
<1>4. ASSUME NEW c \in Calls, Serve(c) \/ Disconnect(c) PROVE SessionInv'
  BY <1>4 DEF Serve, Disconnect, server, Leaving
<1>5. ASSUME NEW c \in Calls, ServeLogout(c) PROVE SessionInv'
  <2>1. \A t \in Tabs : Leaving(t)'
    BY <1>5 DEF ServeLogout, Leaving, OneTabOnly
  <2> QED BY <2>1
<1>6. ASSUME NEW c \in Calls, Denied(c) PROVE SessionInv'
  BY <1>1, <1>6 DEF Denied, Leaving, server
<1>7. ASSUME NEW c \in Calls, Leave(c) PROVE SessionInv'
  BY <1>7 DEF Leave, OneTabOnly
<1>8. ASSUME NEW t \in Tabs, Login(t) PROVE SessionInv'
  BY <1>8, Labels DEF Login, Receive, OneTabOnly, UnseenReplies, Leaving, calls
<1>9. ASSUME NEW t \in Tabs, LoginReply(t) PROVE SessionInv'
  BY <1>9 DEF LoginReply, Consume, OneTabOnly, UnseenReplies, Leaving, calls
<1>10. ASSUME NEW t \in Tabs, Settle(t) PROVE SessionInv'
  BY <1>10 DEF Settle, Resume, Fresh, Stored, Consume, OneTabOnly, UnseenReplies, Leaving
<1>11. ASSUME NEW r \in Requests, Serving(r) PROVE SessionInv'
  BY <1>11, ServingSession DEF Serving
<1>12. CASE Environment
  <2>1. ASSUME NEW r \in Requests, Break(r), UNCHANGED <<mem, aged, calls>> PROVE SessionInv'
    BY <2>1 DEF Break, Answer, Leaving, calls
  <2>2. ASSUME NEW k \in Tokens, Lapse(k), UNCHANGED <<mem, aged, calls>> PROVE SessionInv'
    BY <2>2 DEF Lapse, requests, Leaving, calls
  <2>3. CASE Deactivate /\ UNCHANGED <<mem, aged, calls>>
    BY <2>3 DEF Deactivate, requests, Leaving, calls
  <2>4. ASSUME NEW k \in Tokens, Age(k) PROVE SessionInv'
    BY <2>4 DEF Age, server, Leaving, calls
  <2> QED BY <1>12, <2>1, <2>2, <2>3, <2>4 DEF Environment
<1>13. CASE UNCHANGED vars
  BY <1>13 DEF vars, server, Leaving, calls
<1> QED
  BY <1>3, <1>4, <1>5, <1>6, <1>7, <1>8, <1>9, <1>10, <1>11, <1>12, <1>13
  DEF Next, CallStep, TabStep

\* The store is emptied by Leave and by Settle only, and SessionInv says why
\* a refresh of its token may fail.
LEMMA EmptiedForAReason ==
  ASSUME OneTabInv, [Next]_vars, NEW t \in Tabs, mem[t] # None, mem'[t] = None
  PROVE  \/ Leaving(t)
         \/ ~active
         \/ token[mem[t]] = "lapsed"
         \/ reply[RefreshOf(t)] = Error
         \/ shown[RefreshOf(t)] # mem[t]
<1> USE TokenAssumption DEF OneTabInv, ReplyInv, TypeOK, ServerTypeOK, SessionInv
<1>1. ASSUME NEW c \in Calls, Leave(c) PROVE Leaving(t)
  BY <1>1 DEF Leave, Leaving
<1>2. ASSUME NEW u \in Tabs, Settle(u)
      PROVE  /\ u = t
             /\ op[RefreshOf(t)] = "replied"
             /\ reply[RefreshOf(t)] \in {None, Error}
  BY <1>2, Labels DEF Settle, Resume, Fresh, Stored, Consume, Replies
<1>3. ASSUME NEW u \in Tabs, LoginReply(u) PROVE FALSE
  BY <1>3 DEF LoginReply
<1> QED BY <1>1, <1>2, <1>3
    DEF Next, Call, Logout, Fetch, CallStep, Serve, ServeLogout, Denied, Disconnect, TabStep, Login,
        Serving, Environment, Age, vars

\* In a single tab, concurrent calls of apiFetch never cost the user the
\* session (the shared refreshPromise of client.ts).
THEOREM OneTabKeepsSession == OneTabOnly => (Spec => SessionKept)
<1> SUFFICES ASSUME OneTabOnly PROVE Spec => SessionKept
  OBVIOUS
<1>1. Init => Kinds /\ SessionInv
  BY RequestAssumption, TokenAssumption, Labels
  DEF Init, ServerInit, Kinds, SessionInv, Tokens
<1>2. OneTabInv /\ [Next]_vars => OneTabInv'
  BY ReplyStep, KindsStep, SessionStep DEF OneTabInv
<1>3. OneTabInv /\ [Next]_vars =>
        [\A t \in Tabs : mem[t] # None /\ mem'[t] = None =>
           \/ Leaving(t)
           \/ ~active
           \/ token[mem[t]] = "lapsed"
           \/ reply[RefreshOf(t)] = Error
           \/ shown[RefreshOf(t)] # mem[t]]_vars
  BY EmptiedForAReason
<1>4. Init => ReplyInv
  BY InitReply
<1> QED BY <1>1, <1>2, <1>3, <1>4, PTL DEF Spec, OneTabInv, SessionKept

=============================================================================
