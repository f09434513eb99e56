----------------------------- MODULE AuthClient -----------------------------
(***************************************************************************)
(* The session of the web client: concurrent calls of apiFetch in the tabs *)
(* of a browser, the refresh promise that the calls of a tab share, and    *)
(* login and logout, against the token endpoints of RefreshTokens.         *)
(*                                                                         *)
(* JavaScript runs to its next await, so that is one action; a reply that  *)
(* settles the shared promise resumes all calls that wait for it.  A tab   *)
(* keeps its tokens in memory (localStorage is read when a page loads, and *)
(* no page loads here).                                                    *)
(*                                                                         *)
(* OldRefreshToken, OldAccessToken and WakeNewCalls are no part of the     *)
(* specification: each stands before the definition it gets wrong.         *)
(***************************************************************************)
EXTENDS RefreshTokens, FiniteSets

CONSTANTS
  Tabs,   (* Browser tabs, opened on one stored session.                   *)
  Calls   (* Calls of apiFetch under way at one time.                      *)

\* The login and the refresh request a tab may have under way.
ASSUME RequestAssumption ==
  /\ Requests = Tabs \X {"login", "refresh"}
  /\ IsFiniteSet(Calls)

VARIABLES
  mem,   \* mem[t]: the tokens in tab t's store, None when logged out
  aged,  \* the tokens whose access token has expired
  cpc,   \* cpc[c]: where call c is
  home,  \* home[c]: its tab
  used,  \* used[c]: the access token it was sent with, None without
  body   \* body[c]: the refresh token it asks to revoke, None if no logout

calls == <<cpc, home, used, body>>
vars  == <<server, mem, aged, calls>>

Waiting == {"waiting", "retrying"}
Busy    == Waiting \union {"sent", "denied", "resent"}
Over    == {"idle", "rejected"}

RefreshOf(t) == <<t, "refresh">>
LoginOf(t)   == <<t, "login">>

\* refreshPromise of tab t is set.
Refreshing(t) == op[RefreshOf(t)] # "none"

\* The type invariant.
TypeOK ==
  /\ ServerTypeOK
  /\ mem \in [Tabs -> Tokens \union {None}]
  /\ \A t \in Tabs : mem[t] # None => mem[t] <= issued
  /\ aged \in SUBSET Tokens
  /\ cpc \in [Calls -> Busy \union Over]
  /\ home \in [Calls -> Tabs]
  /\ used \in [Calls -> Tokens \union {None}]
  /\ body \in [Calls -> Tokens \union {None}]
  /\ \A c \in Calls : cpc[c] \in Waiting => Refreshing(home[c])

Init ==
  /\ ServerInit
  /\ mem = [t \in Tabs |-> IF issued = 0 THEN None ELSE 1]
  /\ aged = {}
  /\ cpc = [c \in Calls |-> "idle"]
  /\ home \in [Calls -> Tabs]
  /\ used = [c \in Calls |-> None]
  /\ body = [c \in Calls |-> None]

-----------------------------------------------------------------------------
(* apiFetch.                                                               *)

Move(c, label) == cpc' = [cpc EXCEPT ![c] = label]

\* A response arrived, or none will: the token it was sent with is done with.
Return(c, label) == Move(c, label) /\ used' = [used EXCEPT ![c] = None]

\* refreshAccessToken with a refresh token: join the tab's promise, or start
\* one that presents the token of the store.
JoinRefresh(t) ==
  /\ IF Refreshing(t) THEN UNCHANGED requests
                      ELSE Receive(RefreshOf(t), "refresh", mem[t])
  /\ UNCHANGED <<token, issued, active>>

\* Bound: a call under way may cause two rotations, a login one more,
\* or two if it replaces a session.
RoomFor(n) ==
  issued + 2 * Cardinality({c \in Calls : cpc[c] \in Busy})
    + Cardinality({r \in Requests : op[r] # "none"}) + n <= MaxTokens

\* getValidAccessToken, then the first request.  Whether the access token is
\* about to expire is up to the clock.
Fetch(c, t) ==
  /\ cpc[c] \in Over
  /\ RoomFor(2)
  /\ home' = [home EXCEPT ![c] = t]
  /\ \/ /\ used' = [used EXCEPT ![c] = mem[t]]
        /\ Move(c, "sent")
        /\ UNCHANGED server
     \/ /\ mem[t] # None
        /\ used' = [used EXCEPT ![c] = None]
        /\ Move(c, "waiting")
        /\ JoinRefresh(t)
  /\ UNCHANGED <<mem, aged>>

Call(c, t) ==
  /\ body[c] = None
  /\ Fetch(c, t)
  /\ UNCHANGED body

\* handleLogout presents the token the user menu was rendered with.
Logout(c, t) ==
  /\ body[c] = None
  /\ mem[t] # None
  /\ body' = [body EXCEPT ![c] = mem[t]]
  /\ Fetch(c, t)

\* get_current_user: the access token, then the account.
Accepted(c) == used[c] # None /\ used[c] \notin aged /\ active

Serve(c) ==
  /\ cpc[c] \in {"sent", "resent"}
  /\ body[c] = None
  /\ Return(c, CASE Accepted(c) -> "idle"
                 [] ~Accepted(c) /\ cpc[c] = "sent" -> "denied"
                 [] OTHER -> "rejected")
  /\ UNCHANGED <<server, mem, aged, home, body>>

\* The logout endpoint asks for no access token.
ServeLogout(c) ==
  /\ cpc[c] \in {"sent", "resent"}
  /\ body[c] # None
  /\ Revoke(body[c])
  /\ Return(c, "idle")
  /\ UNCHANGED <<mem, aged, home, body>>

\* A 401 arrives: refresh once, if the store still has a refresh token.
Denied(c) ==
  LET t == home[c] IN
  /\ cpc[c] = "denied"
  /\ IF mem[t] = None
     THEN Move(c, "rejected") /\ UNCHANGED server
     ELSE Move(c, "retrying") /\ JoinRefresh(t)
  /\ UNCHANGED <<mem, aged, home, used, body>>

\* fetch itself rejects.
Disconnect(c) ==
  /\ "error" \in Faults
  /\ cpc[c] \in {"sent", "resent"}
  /\ Return(c, "idle")
  /\ UNCHANGED <<server, mem, aged, home, body>>

\* The rest of handleLogout, whatever came of its request.
Leave(c) ==
  /\ body[c] # None
  /\ cpc[c] \in Over
  /\ mem' = [mem EXCEPT ![home[c]] = None]
  /\ body' = [body EXCEPT ![c] = None]
  /\ UNCHANGED <<server, aged, cpc, home, used>>

-----------------------------------------------------------------------------
(* The replies of the token endpoints.                                     *)

\* setTokens with the new pair, or logout().
Stored(answer) == IF answer \in Tokens THEN answer ELSE None

Fresh(t) == Stored(reply[RefreshOf(t)])

Waiters(t) == {c \in Calls : home[c] = t /\ cpc[c] \in Waiting}

\* The promise of t settles: the store keeps one token, and the calls that
\* wake go on with the access token they are given.
Resume(t, kept, given, woken) ==
  /\ Consume(RefreshOf(t))
  /\ mem' = [mem EXCEPT ![t] = kept]
  /\ cpc' = [c \in Calls |->
               CASE c \notin woken -> cpc[c]
                 [] c \in woken /\ cpc[c] = "waiting" -> "sent"
                 [] OTHER -> IF given # None THEN "resent" ELSE "rejected"]
  /\ used' = [c \in Calls |-> IF c \in woken THEN given ELSE used[c]]
  /\ UNCHANGED <<token, issued, active, aged, home, body>>

OldRefreshToken(t) ==
  Resume(t, IF Fresh(t) = None THEN None ELSE mem[t], Fresh(t), Waiters(t))

OldAccessToken(t) == Resume(t, Fresh(t), mem[t], Waiters(t))

WakeNewCalls(t) ==
  Resume(t, Fresh(t), Fresh(t), {c \in Waiters(t) : cpc[c] = "waiting"})

\* The store first, then every call that waits.
Settle(t) == Resume(t, Fresh(t), Fresh(t), Waiters(t))

\* The login page does not ask whether the tab is logged in.
Login(t) ==
  /\ RoomFor(IF mem[t] = None THEN 1 ELSE 2)
  /\ Receive(LoginOf(t), "login", None)
  /\ UNCHANGED <<token, issued, active, mem, aged, calls>>

\* The login page stores the pair, or shows an error.
LoginReply(t) ==
  LET r == LoginOf(t) IN
  /\ Consume(r)
  /\ mem' = [mem EXCEPT ![t] = IF reply[r] \in Tokens THEN reply[r] ELSE @]
  /\ UNCHANGED <<token, issued, active, aged, calls>>

\* Some tab or call may still use k.
InUse(k) ==
  \/ \E t \in Tabs : mem[t] = k
  \/ \E c \in Calls : used[c] = k

\* An access token expires.  It lives longer than a call takes to repeat its
\* request with it.
Age(k) ==
  /\ k \notin aged
  /\ InUse(k)
  /\ \A c \in Calls : cpc[c] = "resent" => used[c] # k
  /\ aged' = aged \union {k}
  /\ UNCHANGED <<server, mem, calls>>

-----------------------------------------------------------------------------

CallStep(c) ==
  \/ Serve(c)
  \/ ServeLogout(c)
  \/ Denied(c)
  \/ Disconnect(c)
  \/ Leave(c)

TabStep(t) == Settle(t) \/ LoginReply(t)

Serving(r) == Handle(r) /\ UNCHANGED <<mem, aged, calls>>

Environment ==
  \/ \E r \in Requests : Break(r) /\ UNCHANGED <<mem, aged, calls>>
  \/ \E k \in Tokens : InUse(k) /\ Lapse(k) /\ UNCHANGED <<mem, aged, calls>>
  \/ Deactivate /\ UNCHANGED <<mem, aged, calls>>
  \/ \E k \in Tokens : Age(k)

Next ==
  \/ \E c \in Calls, t \in Tabs : Call(c, t) \/ Logout(c, t)
  \/ \E c \in Calls : CallStep(c)
  \/ \E t \in Tabs : Login(t) \/ TabStep(t)
  \/ \E r \in Requests : Serving(r)
  \/ Environment

Spec == Init /\ [][Next]_vars

\* Requests are answered, and their replies handled by the event loop.
Fairness ==
  /\ \A c \in Calls : WF_vars(CallStep(c))
  /\ \A t \in Tabs : WF_vars(Settle(t)) /\ WF_vars(LoginReply(t))
  /\ \A r \in Requests : WF_vars(Serving(r))

FairSpec == Spec /\ Fairness

-----------------------------------------------------------------------------
(* Properties.                                                             *)

\* A logout of tab t is under way.
Leaving(t) == \E c \in Calls : home[c] = t /\ body[c] # None

\* In one tab, concurrent calls never cost the user the session: the store is
\* emptied only by a logout, or by a refresh of its token that failed for a
\* reason of its own, never because another call rotated the token first ("a
\* shared in-flight refresh promise dedupes concurrent 401s", PROGRESS.md:73).
\* The last disjunct is a refresh that a new login overtook.
SessionKept ==
  [][\A t \in Tabs : mem[t] # None /\ mem'[t] = None =>
       \/ Leaving(t)
       \/ ~active
       \/ token[mem[t]] = "lapsed"
       \/ reply[RefreshOf(t)] = Error
       \/ shown[RefreshOf(t)] # mem[t]]_vars

\* A call is rejected as unauthenticated only if its tab is logged out by
\* then or the account is deactivated: the repeated request of one that met a
\* 401 carries a token that works (apiFetch 117-125).
RejectedWhenOver ==
  [][\A c \in Calls : cpc'[c] = "rejected" /\ cpc[c] # "rejected" =>
       mem'[home[c]] = None \/ ~active]_vars

\* Every call returns or throws: none is left waiting for a refresh that
\* another call started (refreshPromise is reset however it ends).
CallsEnd == \A c \in Calls : cpc[c] \in Busy ~> cpc[c] \in Over

=============================================================================
