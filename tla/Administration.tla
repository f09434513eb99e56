--------------------------- MODULE Administration ---------------------------
(***************************************************************************)
(* The superusers' panel and its audit log.                                *)
(*                                                                         *)
(* An endpoint is one transaction at READ COMMITTED.  It reads the row of  *)
(* its caller, which the guards look at, then the row it changes, and      *)
(* commits the change together with a row of audit_logs.  Other requests   *)
(* commit between any two of these steps.  The ORM writes the columns that *)
(* differ from what it loaded, and no others; a request about its own      *)
(* caller gets the object the guard has loaded.                            *)
(*                                                                         *)
(* An organization is known by the user who founded it, so that is_active, *)
(* is_superuser and plan_tier (free or not) are three functions on users.  *)
(*                                                                         *)
(* NoSelfGuard, WrongColumn and FailHalfway are no part of the             *)
(* specification: each stands before the definition it gets wrong.         *)
(***************************************************************************)
EXTENDS Integers, Sequences

CONSTANTS
  Users,          \* e-mail addresses
  Superusers,     \* superusers of the initial state
  AdminRequests,  \* requests of the panel that may be open together
  Columns,        \* the columns an instance changes
  MaxAudit,       \* bound on the audit rows of an instance
  None            \* no request

VARIABLES
  accounts,       \* the users that have registered
  flag,           \* the three columns
  audit,          \* audit_logs in commit order; since is history
  adm             \* the open requests

adminVars == <<accounts, flag, audit, adm>>

Flags == {"is_active", "is_superuser", "plan_tier"}

(* A row of audit_logs: who set which flag of whom to what.  since is the  *)
(* number of rows that were committed when its transaction began.          *)
AuditRow == [by: Users, f: Flags, who: Users, val: BOOLEAN, since: Nat]

AdminRequest ==
  [by: Users, f: Flags, who: Users, val: BOOLEAN, since: Nat,
   loaded: BOOLEAN, seen: BOOLEAN]

ASSUME AdminAssumption ==
  /\ Superusers \subseteq Users
  /\ Columns \subseteq Flags
  /\ MaxAudit \in Nat
  /\ None \notin AdminRequest

IsActive(u)    == u \in accounts /\ flag["is_active"][u]
IsSuperuser(u) == IsActive(u) /\ flag["is_superuser"][u]

-----------------------------------------------------------------------------
AdminInit ==
  /\ accounts \in {a \in SUBSET Users : Superusers \subseteq a}
  /\ flag = [f \in Flags |-> [u \in Users |->
               f = "is_active" \/ (f = "is_superuser" /\ u \in Superusers)]]
  /\ audit = <<>>
  /\ adm = [s \in AdminRequests |-> None]

(* mutant: no guard against demoting oneself *)
NoSelfGuard(by, f, who, val) == TRUE

(* update_user_active and update_user_superuser refuse to take from the    *)
(* caller what admits it                                                   *)
SelfGuard(by, f, who, val) == ~ (who = by /\ ~val /\ f # "plan_tier")

(* get_current_user, require_superuser and the guard of the endpoint all   *)
(* look at one loaded row, the caller's.                                   *)
AdminBegin(s, by, f, who, val) ==
  /\ adm[s] = None
  /\ IsSuperuser(by)
  /\ SelfGuard(by, f, who, val)
  /\ adm' = [adm EXCEPT ![s] =
               [by |-> by, f |-> f, who |-> who, val |-> val, since |-> Len(audit),
                loaded |-> who = by /\ f # "plan_tier", seen |-> flag[f][who]]]
  /\ UNCHANGED <<accounts, flag, audit>>

(* db.get: another user, or an organization.  A missing row is a 404. *)
AdminLoad(s) ==
  /\ adm[s] # None /\ ~adm[s].loaded
  /\ adm' = [adm EXCEPT ![s] =
       IF adm[s].who \in accounts
       THEN [adm[s] EXCEPT !.loaded = TRUE, !.seen = flag[adm[s].f][adm[s].who]]
       ELSE None]
  /\ UNCHANGED <<accounts, flag, audit>>

(* mutant: the handler of one column writes the other *)
WrongColumn(q) == [flag EXCEPT !["is_superuser"][q.who] = q.val]

(* The ORM's UPDATE: no column is written whose value is the loaded one. *)
Written(q) == IF q.val = q.seen THEN flag ELSE [flag EXCEPT ![q.f][q.who] = q.val]

(* flush of the row, insert of the audit row, commit *)
AdminCommit(s) ==
  /\ adm[s] # None /\ adm[s].loaded
  /\ Len(audit) < MaxAudit
  /\ flag' = Written(adm[s])
  /\ audit' = Append(audit, [by |-> adm[s].by, f |-> adm[s].f, who |-> adm[s].who,
                             val |-> adm[s].val, since |-> adm[s].since])
  /\ adm' = [adm EXCEPT ![s] = None]
  /\ UNCHANGED accounts

(* mutant: the change is committed before the audit row is written *)
FailHalfway(s) ==
  /\ adm[s] # None
  /\ flag' = IF adm[s].loaded THEN Written(adm[s]) ELSE flag
  /\ adm' = [adm EXCEPT ![s] = None]
  /\ UNCHANGED <<accounts, audit>>

(* Anything that raises rolls back both writes. *)
AdminFail(s) ==
  /\ adm[s] # None
  /\ adm' = [adm EXCEPT ![s] = None]
  /\ UNCHANGED <<accounts, flag, audit>>

AdminNext ==
  \E s \in AdminRequests :
    \/ \E by, who \in Users, f \in Columns, val \in BOOLEAN : AdminBegin(s, by, f, who, val)
    \/ AdminLoad(s)
    \/ AdminCommit(s)
    \/ AdminFail(s)

AdminSpec == AdminInit /\ [][AdminNext]_adminVars

-----------------------------------------------------------------------------
(* Every column and every row has its type. *)
AdminTypeOK ==
  /\ accounts \subseteq Users
  /\ flag \in [Flags -> [Users -> BOOLEAN]]
  /\ audit \in Seq(AuditRow)
  /\ adm \in [AdminRequests -> AdminRequest \union {None}]

(* The panel is never without a superuser who can log in, unless two       *)
(* requests overlapped: one whose caller was demoted or deactivated while  *)
(* it ran.  The guards against self-demotion suffice for one request at a  *)
(* time, and no further.                                                   *)
SomeoneAdministers ==
  \/ Superusers = {}
  \/ \E u \in Users : IsSuperuser(u)
  \/ \E i, j \in DOMAIN audit :
       /\ i < j /\ audit[j].since < i
       /\ audit[i].who = audit[j].by /\ ~audit[i].val

(* rows of the audit log about one column of one row *)
About(f, u) == {i \in DOMAIN audit : audit[i].f = f /\ audit[i].who = u}

(* The audit log tells the truth: the last row about a column says its     *)
(* value, unless the request of that row overlapped another one about the  *)
(* same column.  (Then the ORM may skip a write it believes to be made.)   *)
AuditTellsState ==
  \A f \in Flags, u \in Users :
    \A j \in About(f, u) :
      (\A i \in About(f, u) : i < j => i <= audit[j].since) =>
        \/ flag[f][u] = audit[j].val
        \/ \E k \in About(f, u) : k > j

(* No column of a row changes without an audit row that says so, and no    *)
(* audit row is ever changed or removed.                                   *)
EveryChangeAudited ==
  [][ /\ SubSeq(audit', 1, Len(audit)) = audit
      /\ \A f \in Flags, u \in Users :
           flag'[f][u] # flag[f][u] =>
             \E i \in DOMAIN audit' \ DOMAIN audit :
               audit'[i].f = f /\ audit'[i].who = u /\ audit'[i].val = flag'[f][u]
    ]_<<flag, audit>>

=============================================================================
