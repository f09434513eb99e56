----------------------------- MODULE Membership -----------------------------
(***************************************************************************)
(* Registration, organizations, workspaces and their members, next to the  *)
(* panel of Administration, which deactivates the users whose requests run *)
(* here.                                                                   *)
(*                                                                         *)
(* A request r is the transaction of one endpoint; its pc names the read   *)
(* it makes next.  begin: the caller's row (or, to register, the e-mail).  *)
(* guard: the caller's membership.  look: the rows or slugs the change     *)
(* depends on.  write: insert or delete, and commit.  Others commit in     *)
(* between, so the last step meets the unique constraints.                 *)
(*                                                                         *)
(* An organization is known by its founder: registration is the only code  *)
(* that inserts into organizations or organization_members.  The two       *)
(* tables of members have one shape and the two role hierarchies one       *)
(* order, so both tables are one set of rows, on an organization or on a   *)
(* workspace.                                                              *)
(*                                                                         *)
(* NeededAny, LookAnyRow and AddUnchecked are no part of the               *)
(* specification: each stands before the definition it gets wrong.         *)
(***************************************************************************)
EXTENDS Administration, FiniteSets

CONSTANTS
  Workspaces,    \* ids of workspaces
  Registered,    \* users of the initial state
  Created,       \* workspaces of the initial state
  Roles,         \* workspace roles that owners hand out, by rank
  Requests,      \* requests that may be open together
  MaxRequests,   \* bound on the requests of an instance
  MaxSuffix,     \* bound on the suffix of a slug
  Ops            \* the endpoints an instance calls

VARIABLES
  orgs,          \* organizations: from the founder to the suffix of the slug
  workspaces,    \* rows [id, org, slug]
  members,       \* rows [row, on, user, role] of both membership tables
  removed,       \* history: the memberships deleted, in commit order
  req,           \* the open requests
  spent          \* number of requests made

tables     == <<orgs, workspaces, members, removed>>
memberVars == <<orgs, workspaces, members, removed, req, spent>>
vars       == <<adminVars, memberVars>>

Places == Users \union Workspaces   \* what one can be a member of
Owner  == 2

MemberRow == [row: Nat, on: Places, user: Users, role: 0..2]

(* row is the one to insert or to delete.  gone and audited are history:   *)
(* what had been removed and audited when the request began.               *)
Request ==
  [op: {"register", "create", "add", "remove"}, by: Users, on: Places,
   row: MemberRow, slug: Nat, pc: {"guard", "look", "write"}, gone: Nat, audited: Nat]

(* history: a row, who removed it, and what was removed when that began *)
Removal == [by: Users, row: MemberRow, gone: Nat]

ASSUME MemberAssumption ==
  /\ Users \intersect Workspaces = {}
  /\ IsFiniteSet(Users)
  /\ Created \subseteq Workspaces /\ \A v, w \in Created : v = w
  /\ Roles \subseteq 0..2 /\ Ops \subseteq {"register", "create", "add", "remove"}
  /\ MaxRequests \in Nat /\ MaxSuffix \in Nat
  /\ None \notin Request \union Nat

RowsOf(u, on) == {m \in members : m.on = on /\ m.user = u}

(* role_satisfies on the row of u, which may be missing *)
Satisfies(u, on, minimum) == \E m \in RowsOf(u, on) : m.role >= minimum

(* what _unique_slug returns: the first suffix no row has *)
UniqueSlug(n, taken) == n \notin taken /\ \A k \in 0..(n - 1) : k \in taken

OrgSlugs     == {orgs[f] : f \in DOMAIN orgs}
WsSlugs(org) == {w.slug : w \in {x \in workspaces : x.org = org}}
Ids          == {w.id : w \in workspaces}

-----------------------------------------------------------------------------
(* Users who own their organizations, the slugs in any order; one of them  *)
(* has created a workspace, owns it and may have added others.             *)
MemberInit ==
  /\ accounts = Registered
  /\ orgs = CHOOSE s \in [accounts -> 0..(Cardinality(accounts) - 1)] :
              \A f, g \in accounts : s[f] = s[g] => f = g
  /\ \E f \in accounts, role \in [accounts -> Roles \union {Owner, None}] :
       /\ role[f] = Owner
       /\ workspaces = {[id |-> w, org |-> f, slug |-> 0] : w \in Created}
       /\ members =
            {[row |-> 0, on |-> u, user |-> u, role |-> Owner] : u \in accounts}
            \union
            {[row |-> 0, on |-> w, user |-> u, role |-> role[u]] :
               w \in Created, u \in {x \in accounts : role[x] # None}}
  /\ removed = <<>>
  /\ req = [r \in Requests |-> None]
  /\ spent = 0

(* mutant: any role will do *)
NeededAny(q) == 0

(* What require_membership and require_workspace_role ask for: any role to *)
(* create a workspace, owner to change its members, owner or admin to      *)
(* remove a member of an organization.                                     *)
Needed(q) == CASE q.op = "create" -> 0
               [] q.op = "add"    -> Owner
               [] OTHER           -> IF q.on \in Users THEN 1 ELSE Owner

(* The rows a well-formed request may be about; ids of new rows are fresh. *)
Requested(op, by, on) ==
  LET New(place, user, role) == [row |-> spent + 1, on |-> place, user |-> user, role |-> role]
      Free == {w \in Workspaces \ Ids : \A r \in Requests : req[r] # None => req[r].row.on # w}
  IN CASE op = "register" -> {New(by, by, Owner) : x \in {on} \intersect {by}}
       [] op = "create"   -> {New(w, by, Owner) : w \in IF on \in accounts THEN Free ELSE {}}
       [] op = "add"      -> {New(on, u, rank) : u \in IF on \in Ids THEN Users ELSE {}, rank \in Roles}
       [] op = "remove"   -> IF on \in accounts \union Ids THEN members ELSE {}

(* register looks for the e-mail, all others resolve their caller. *)
Begin(r, op, by, on) ==
  /\ req[r] = None /\ spent < MaxRequests
  /\ IF op = "register" THEN by \notin accounts ELSE IsActive(by)
  /\ \E row \in Requested(op, by, on) :
       req' = [req EXCEPT ![r] =
         [op |-> op, by |-> by, on |-> on, row |-> row, slug |-> 0,
          pc |-> IF op = "register" THEN "look" ELSE "guard",
          gone |-> Len(removed), audited |-> Len(audit)]]
  /\ spent' = spent + 1
  /\ UNCHANGED <<adminVars, tables>>

At(r, label) == req[r] # None /\ req[r].pc = label

Goto(r, q) == req' = [req EXCEPT ![r] = q] /\ UNCHANGED <<adminVars, tables, spent>>

(* Every denial, failed constraint and lost connection rolls back. *)
Fail(r) == req[r] # None /\ Goto(r, None)

Guard(r) ==
  /\ At(r, "guard")
  /\ Satisfies(req[r].by, req[r].on, Needed(req[r]))
  /\ Goto(r, [req[r] EXCEPT !.pc = "look"])

(* mutant: the row to remove is not compared with the path *)
LookAnyRow(r) ==
  /\ At(r, "look")
  /\ LET q == req[r] IN
       CASE q.op \in {"register", "create"} ->
              \E n \in 0..MaxSuffix :
                /\ UniqueSlug(n, IF q.op = "register" THEN OrgSlugs ELSE WsSlugs(q.on))
                /\ Goto(r, [q EXCEPT !.pc = "write", !.slug = n])
         [] q.op = "add"    -> /\ q.row.user \in accounts /\ RowsOf(q.row.user, q.on) = {}
                               /\ Goto(r, [q EXCEPT !.pc = "write"])
         [] q.op = "remove" -> q.row \in members /\ Goto(r, [q EXCEPT !.pc = "write"])

(* the slugs taken, the user to add and the membership that must not exist *)
Look(r) ==
  /\ At(r, "look")
  /\ LET q == req[r] IN
       CASE q.op \in {"register", "create"} ->
              \E n \in 0..MaxSuffix :
                /\ UniqueSlug(n, IF q.op = "register" THEN OrgSlugs ELSE WsSlugs(q.on))
                /\ Goto(r, [q EXCEPT !.pc = "write", !.slug = n])
         [] q.op = "add"      -> /\ q.row.user \in accounts /\ RowsOf(q.row.user, q.on) = {}
                                 /\ Goto(r, [q EXCEPT !.pc = "write"])
         [] q.op = "remove"   -> /\ q.row \in members /\ q.row.on = q.on
                                 /\ Goto(r, [q EXCEPT !.pc = "write"])

(* register_user and create_organization_with_owner in one transaction;    *)
(* unique e-mail and unique slug                                           *)
Register(r) ==
  LET q == req[r] IN
  /\ At(r, "write") /\ q.op = "register"
  /\ q.by \notin accounts /\ q.slug \notin OrgSlugs
  /\ accounts' = accounts \union {q.by}
  /\ orgs' = [f \in DOMAIN orgs \union {q.by} |-> IF f = q.by THEN q.slug ELSE orgs[f]]
  /\ members' = members \union {q.row}
  /\ req' = [req EXCEPT ![r] = None]
  /\ UNCHANGED <<flag, audit, adm, workspaces, removed, spent>>

(* uq_workspace_slug *)
CreateWorkspace(r) ==
  LET q == req[r] IN
  /\ At(r, "write") /\ q.op = "create"
  /\ q.slug \notin WsSlugs(q.on)
  /\ workspaces' = workspaces \union {[id |-> q.row.on, org |-> q.on, slug |-> q.slug]}
  /\ members' = members \union {q.row}
  /\ req' = [req EXCEPT ![r] = None]
  /\ UNCHANGED <<adminVars, orgs, removed, spent>>

(* mutant: no unique constraint behind the look-up *)
AddUnchecked(r) ==
  /\ At(r, "write") /\ req[r].op = "add"
  /\ members' = members \union {req[r].row}
  /\ req' = [req EXCEPT ![r] = None]
  /\ UNCHANGED <<adminVars, orgs, workspaces, removed, spent>>

(* uq_workspace_member *)
AddMember(r) ==
  LET q == req[r] IN
  /\ At(r, "write") /\ q.op = "add"
  /\ RowsOf(q.row.user, q.on) = {}
  /\ members' = members \union {q.row}
  /\ req' = [req EXCEPT ![r] = None]
  /\ UNCHANGED <<adminVars, orgs, workspaces, removed, spent>>

(* A row that another request has deleted meanwhile is not missed. *)
RemoveMember(r) ==
  LET q == req[r] IN
  /\ At(r, "write") /\ q.op = "remove"
  /\ members' = members \ {q.row}
  /\ removed' = IF q.row \in members
                THEN Append(removed, [by |-> q.by, row |-> q.row, gone |-> q.gone])
                ELSE removed
  /\ req' = [req EXCEPT ![r] = None]
  /\ UNCHANGED <<adminVars, orgs, workspaces, spent>>

MemberNext ==
  \E r \in Requests :
    \/ \E op \in Ops, by \in Users, on \in Places : Begin(r, op, by, on)
    \/ Guard(r) \/ Look(r) \/ Fail(r)
    \/ Register(r) \/ CreateWorkspace(r) \/ AddMember(r) \/ RemoveMember(r)

Init == AdminInit /\ MemberInit
Next == (AdminNext /\ UNCHANGED memberVars) \/ MemberNext

Spec == Init /\ [][Next]_vars

-----------------------------------------------------------------------------
(* Every row has its type; accounts and organizations come together. *)
MemberTypeOK ==
  /\ orgs \in [accounts -> Nat]
  /\ workspaces \subseteq [id: Workspaces, org: accounts, slug: Nat]
  /\ members \subseteq MemberRow
  /\ removed \in Seq(Removal)
  /\ req \in [Requests -> Request \union {None}]
  /\ spent \in 0..MaxRequests

(* Names and memberships are unique, whatever two requests looked up and   *)
(* found free: no two organizations, and no two workspaces of one, have a  *)
(* slug in common, and nobody is a member of anything twice.               *)
UniqueRows ==
  /\ \A f, g \in accounts : orgs[f] = orgs[g] => f = g
  /\ \A v, w \in workspaces : v.org = w.org /\ v.slug = w.slug => v = w
  /\ \A m, n \in members : m.on = n.on /\ m.user = n.user => m = n

(* A workspace is left without an owner only by an owner who removes the   *)
(* own row, or by two removals that overlapped, one of the other's caller. *)
OwnersRemain ==
  \A w \in workspaces :
    \/ \E m \in members : m.on = w.id /\ m.role = Owner
    \/ \E i \in DOMAIN removed :
         /\ removed[i].row.on = w.id
         /\ \/ removed[i].by = removed[i].row.user
            \/ \E k \in (removed[i].gone + 1)..(i - 1) :
                 removed[k].row.on = w.id /\ removed[k].row.user = removed[i].by

(* The caller could do what the request does, or could when it began: the  *)
(* account was deactivated, or the membership removed, while it ran.       *)
Entitled(q) ==
  /\ \/ IsActive(q.by)
     \/ \E i \in (q.audited + 1)..Len(audit) :
          audit[i].who = q.by /\ audit[i].f = "is_active" /\ ~audit[i].val
  /\ \/ Satisfies(q.by, q.on, Needed(q))
     \/ \E i \in (q.gone + 1)..Len(removed) :
          removed[i].row.on = q.on /\ removed[i].row.user = q.by

(* Memberships change only on the place the request is about, and only by  *)
(* someone entitled to it - a row's id in a path cannot reach into another *)
(* tenant's workspace.  Registration adds the owner of its own new         *)
(* organization, creation the owner of its own new workspace.              *)
MembersChangedByEntitled ==
  [][\A r \in Requests :
       LET q == req[r]
           changed == (members \ members') \union (members' \ members) IN
       (q # None /\ req'[r] = None) =>
         CASE q.op = "register" -> \A m \in changed : m.on = q.by /\ q.by \notin accounts
           [] q.op = "create"   -> /\ \A m \in changed : m.on \notin Ids /\ m.user = q.by
                                   /\ changed # {} => Entitled(q)
           [] OTHER             -> /\ \A m \in changed : m.on = q.on
                                   /\ changed # {} => Entitled(q)
    ]_<<members, req>>

=============================================================================
