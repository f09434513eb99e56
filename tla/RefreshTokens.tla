---------------------------- MODULE RefreshTokens ----------------------------
(***************************************************************************)
(* The token endpoints of one account: login, rotation of a refresh token  *)
(* and its revocation, against the deactivation of the account and the     *)
(* expiry of tokens.                                                       *)
(*                                                                         *)
(* A request is one transaction, read committed: each SELECT is an action, *)
(* and what it writes becomes visible in its last one.  An access token    *)
(* and the refresh token issued with it are one token here.                *)
(*                                                                         *)
(* AnyToken is no part of the specification: it stands before the          *)
(* definition it gets wrong.                                               *)
(***************************************************************************)
EXTENDS Naturals

CONSTANTS
  Requests,   (* Login and refresh requests under way at one time.         *)
  MaxTokens,  (* Bound: token pairs ever issued.                           *)
  Faults,     (* What may go wrong: "error", "lapse".                      *)
  None,       (* No token: nothing presented, or the request was refused.  *)
  Error       (* The reply of a request that failed or got lost.           *)

Tokens == 1..MaxTokens

ASSUME TokenAssumption ==
  /\ MaxTokens \in Nat
  /\ None \notin Tokens /\ Error \notin Tokens /\ None # Error
  /\ Faults \subseteq {"error", "lapse"}

VARIABLES
  token,   \* token[k]: refresh_tokens row of k, "unused" before it is issued
  issued,  \* token pairs issued so far
  active,  \* users.is_active
  op,      \* op[r]: the next step of request r
  shown,   \* shown[r]: the refresh token r presents
  reply,   \* reply[r]: the token issued, None (401) or Error
  late     \* late[r]: r began after its token or its account was finished

server   == <<token, issued, active, op, shown, reply, late>>
requests == <<op, shown, reply, late>>

Replies == Tokens \union {None, Error}

ServerTypeOK ==
  /\ token \in [Tokens -> {"unused", "live", "revoked", "lapsed"}]
  /\ issued \in 0..MaxTokens
  /\ \A k \in Tokens : token[k] = "unused" <=> k > issued
  /\ active \in BOOLEAN
  /\ op \in [Requests -> {"none", "login", "refresh", "user", "rotate", "issue", "replied"}]
  /\ shown \in [Requests -> Tokens \union {None}]
  /\ \A r \in Requests : op[r] \in {"refresh", "user", "rotate"} =>
       shown[r] \in Tokens /\ shown[r] <= issued
  /\ reply \in [Requests -> Replies]
  /\ \A r \in Requests : reply[r] \in Tokens => reply[r] <= issued
  /\ late \in [Requests -> BOOLEAN]

\* Signed out, or signed in with the first token.
ServerInit ==
  /\ issued \in {n \in {0, 1} : n <= MaxTokens}
  /\ token = [k \in Tokens |-> IF k <= issued THEN "live" ELSE "unused"]
  /\ active = TRUE
  /\ op = [r \in Requests |-> "none"]
  /\ shown = [r \in Requests |-> None]
  /\ reply = [r \in Requests |-> None]
  /\ late = [r \in Requests |-> FALSE]

-----------------------------------------------------------------------------

\* RefreshToken.is_active.
IsActive(k) == token[k] = "live"

Step(r, label) ==
  /\ op' = [op EXCEPT ![r] = label]
  /\ UNCHANGED <<shown, reply, late>>

Answer(r, answer) ==
  /\ op' = [op EXCEPT ![r] = "replied"]
  /\ reply' = [reply EXCEPT ![r] = answer]
  /\ UNCHANGED <<shown, late>>

\* The client's request arrives.
Receive(r, kind, k) ==
  /\ op[r] = "none"
  /\ op' = [op EXCEPT ![r] = kind]
  /\ shown' = [shown EXCEPT ![r] = k]
  /\ reply' = [reply EXCEPT ![r] = None]
  /\ late' = [late EXCEPT ![r] = ~active \/ (k # None /\ ~IsActive(k))]

\* The client has the reply.
Consume(r) ==
  /\ op[r] = "replied"
  /\ op' = [op EXCEPT ![r] = "none"]
  /\ shown' = [shown EXCEPT ![r] = None]
  /\ reply' = [reply EXCEPT ![r] = None]
  /\ late' = [late EXCEPT ![r] = FALSE]

\* authenticate_user, with the right password.
Authenticate(r) ==
  /\ op[r] = "login"
  /\ IF active THEN Step(r, "issue") ELSE Answer(r, None)
  /\ UNCHANGED <<token, issued, active>>

AnyToken(r) ==
  /\ op[r] = "refresh"
  /\ Step(r, "user")
  /\ UNCHANGED <<token, issued, active>>

\* The first SELECT of rotate_refresh_token.
CheckToken(r) ==
  /\ op[r] = "refresh"
  /\ IF IsActive(shown[r]) THEN Step(r, "user") ELSE Answer(r, None)
  /\ UNCHANGED <<token, issued, active>>

\* Its second: the account of the token.
CheckUser(r) ==
  /\ op[r] = "user"
  /\ IF active THEN Step(r, "rotate") ELSE Answer(r, None)
  /\ UNCHANGED <<token, issued, active>>

\* issue_token_pair and the commit of the endpoint; a rotation revokes what
\* it was shown, whatever happened to that since it was read.
Issue(r) ==
  LET k == issued + 1 IN
  /\ op[r] \in {"issue", "rotate"}
  /\ issued < MaxTokens
  /\ issued' = k
  /\ token' = [j \in Tokens |->
                 CASE j = k -> "live"
                   [] op[r] = "rotate" /\ j = shown[r] -> "revoked"
                   [] OTHER -> token[j]]
  /\ Answer(r, k)
  /\ UNCHANGED active

\* The request fails, or its reply is lost after it was committed.
Break(r) ==
  /\ "error" \in Faults
  /\ op[r] # "none"
  /\ Answer(r, Error)
  /\ UNCHANGED <<token, issued, active>>

\* revoke_refresh_token, in the transaction of the logout endpoint.
Revoke(k) ==
  /\ token' = [token EXCEPT ![k] = IF @ = "live" THEN "revoked" ELSE @]
  /\ UNCHANGED <<issued, active, requests>>

\* A refresh token reaches its expires_at.
Lapse(k) ==
  /\ "lapse" \in Faults
  /\ token[k] = "live"
  /\ token' = [token EXCEPT ![k] = "lapsed"]
  /\ UNCHANGED <<issued, active, requests>>

\* update_user_active of the admin panel.  A later reactivation is left out:
\* the sessions it would let back in are ended by their clients before.
Deactivate ==
  /\ active
  /\ active' = FALSE
  /\ UNCHANGED <<token, issued, requests>>

Handle(r) ==
  \/ Authenticate(r)
  \/ CheckToken(r)
  \/ CheckUser(r)
  \/ Issue(r)

\* The endpoints under any client.
ServerNext ==
  \/ \E r \in Requests :
       \/ /\ \/ Receive(r, "login", None)
             \/ \E k \in 1..issued : Receive(r, "refresh", k)
             \/ Consume(r)
          /\ UNCHANGED <<token, issued, active>>
       \/ Handle(r)
       \/ Break(r)
  \/ \E k \in Tokens : Revoke(k) \/ Lapse(k)
  \/ Deactivate

ServerSpec == ServerInit /\ [][ServerNext]_server

-----------------------------------------------------------------------------
(* Properties.                                                             *)

\* A request that began after its account was deactivated, or with a token
\* that was rotated out, revoked or expired by then, is issued nothing,
\* however it interleaves with rotations, logouts and the administrator
\* (the guards of rotate_refresh_token and authenticate_user).
LateGetsNothing ==
  \A r \in Requests : late[r] => reply[r] \notin Tokens

=============================================================================
