-------------------------- MODULE MembershipProofs --------------------------
(***************************************************************************)
(* Proofs about Membership, for any users, workspaces and requests, and    *)
(* first about Administration, which it extends, for any requests and      *)
(* lengths of the audit log.                                               *)
(***************************************************************************)
EXTENDS Membership, FiniteSetTheorems, SequenceTheorems, TLAPS

-----------------------------------------------------------------------------
(* The panel.                                                              *)

\* Somebody took a flag from u after the first n rows of the log.
LostAfter(n, u) ==
  \E i \in DOMAIN audit : n < i /\ audit[i].who = u /\ ~audit[i].val

\* A request passed the guards; its caller is still a superuser, or an audit
\* row written since it began says why not.
Guarded(q) ==
  /\ SelfGuard(q.by, q.f, q.who, q.val)
  /\ q.since <= Len(audit)
  /\ IsSuperuser(q.by) \/ LostAfter(q.since, q.by)

GuardInv == \A s \in AdminRequests : adm[s] # None => Guarded(adm[s])

\* What a request has loaded is the value, or an audit row written since it
\* began is about the same column.
LoadInv ==
  \A s \in AdminRequests :
    adm[s] # None /\ adm[s].loaded =>
      \/ adm[s].seen = flag[adm[s].f][adm[s].who]
      \/ \E i \in About(adm[s].f, adm[s].who) : adm[s].since < i

-----------------------------------------------------------------------------
LEMMA TypeInit == AdminInit => AdminTypeOK
BY AdminAssumption DEF AdminInit, AdminTypeOK, Flags

LEMMA TypeStep == AdminTypeOK /\ [AdminNext]_adminVars => AdminTypeOK'
<1> SUFFICES ASSUME AdminTypeOK, [AdminNext]_adminVars PROVE AdminTypeOK'
  OBVIOUS
<1> USE AdminAssumption DEF AdminTypeOK
<1>1. ASSUME NEW s \in AdminRequests, NEW by \in Users, NEW who \in Users,
             NEW f \in Columns, NEW val \in BOOLEAN, AdminBegin(s, by, f, who, val)
      PROVE  AdminTypeOK'
  <2>1. [by |-> by, f |-> f, who |-> who, val |-> val, since |-> Len(audit),
         loaded |-> who = by /\ f # "plan_tier", seen |-> flag[f][who]] \in AdminRequest
    BY DEF AdminRequest
  <2> QED BY <1>1, <2>1 DEF AdminBegin
<1>2. ASSUME NEW s \in AdminRequests, AdminLoad(s) PROVE AdminTypeOK'
  <2>1. adm[s] \in AdminRequest
    BY <1>2 DEF AdminLoad
  <2>2. [adm[s] EXCEPT !.loaded = TRUE, !.seen = flag[adm[s].f][adm[s].who]] \in AdminRequest
    BY <2>1 DEF AdminRequest
  <2> QED BY <1>2, <2>2 DEF AdminLoad
<1>3. ASSUME NEW s \in AdminRequests, AdminCommit(s) PROVE AdminTypeOK'
  <2>1. adm[s] \in AdminRequest
    BY <1>3 DEF AdminCommit
  <2>2. flag' \in [Flags -> [Users -> BOOLEAN]]
    BY <1>3, <2>1 DEF AdminCommit, Written, AdminRequest
  <2>3. [by |-> adm[s].by, f |-> adm[s].f, who |-> adm[s].who, val |-> adm[s].val,
         since |-> adm[s].since] \in AuditRow
    BY <2>1 DEF AdminRequest, AuditRow
  <2> QED BY <1>3, <2>2, <2>3 DEF AdminCommit
<1>4. ASSUME NEW s \in AdminRequests, AdminFail(s) PROVE AdminTypeOK'
  BY <1>4 DEF AdminFail
<1>5. CASE UNCHANGED adminVars
  BY <1>5 DEF adminVars
<1> QED BY <1>1, <1>2, <1>3, <1>4, <1>5 DEF AdminNext

\* Every column and every row has its type.
THEOREM AdminTypeCorrect == AdminSpec => []AdminTypeOK
BY TypeInit, TypeStep, PTL DEF AdminSpec

-----------------------------------------------------------------------------
\* The effect of a commit on the log and on the columns.
LEMMA CommitEffect ==
  ASSUME AdminTypeOK, NEW s \in AdminRequests, AdminCommit(s)
  PROVE  LET q == adm[s]
             n == Len(audit) + 1
         IN  /\ q \in AdminRequest /\ q # None
             /\ Len(audit) \in Nat
             /\ DOMAIN audit = 1..Len(audit) /\ DOMAIN audit' = 1..n
             /\ \A i \in DOMAIN audit : audit'[i] = audit[i]
             /\ audit'[n].by = q.by /\ audit'[n].f = q.f /\ audit'[n].who = q.who
             /\ audit'[n].val = q.val /\ audit'[n].since = q.since
             /\ accounts' = accounts
             /\ \A t \in AdminRequests : adm'[t] = IF t = s THEN None ELSE adm[t]
             /\ \A f \in Flags, u \in Users :
                  flag'[f][u] = IF f = q.f /\ u = q.who /\ q.val # q.seen
                                THEN q.val ELSE flag[f][u]
<1>1. adm[s] \in AdminRequest
  BY DEF AdminCommit, AdminTypeOK
<1>2. \A f \in Flags, u \in Users :
        flag'[f][u] = IF f = adm[s].f /\ u = adm[s].who /\ adm[s].val # adm[s].seen
                      THEN adm[s].val ELSE flag[f][u]
  BY <1>1 DEF AdminCommit, AdminTypeOK, Written, AdminRequest
<1> DEFINE row == [by |-> adm[s].by, f |-> adm[s].f, who |-> adm[s].who, val |-> adm[s].val,
                   since |-> adm[s].since]
<1>3. row \in AuditRow /\ audit \in Seq(AuditRow) /\ audit' = Append(audit, row)
  BY <1>1 DEF AdminCommit, AdminTypeOK, AdminRequest, AuditRow
<1>4. /\ Len(audit) \in Nat
      /\ DOMAIN audit = 1..Len(audit) /\ DOMAIN audit' = 1..(Len(audit) + 1)
      /\ \A i \in DOMAIN audit : audit'[i] = audit[i]
      /\ audit'[Len(audit) + 1] = row
  <2> HIDE DEF row
  <2> QED BY <1>3
<1> QED BY <1>1, <1>2, <1>4 DEF AdminCommit, AdminTypeOK

LEMMA GuardInit == AdminInit => GuardInv /\ LoadInv /\ SomeoneAdministers /\ AuditTellsState
<1> SUFFICES ASSUME AdminInit
    PROVE GuardInv /\ LoadInv /\ SomeoneAdministers /\ AuditTellsState
  OBVIOUS
<1> USE AdminAssumption DEF AdminInit
<1>1. SomeoneAdministers
  BY DEF SomeoneAdministers, IsSuperuser, IsActive, Flags
<1>2. AuditTellsState
  BY DEF AuditTellsState, About
<1> QED BY <1>1, <1>2 DEF GuardInv, LoadInv

\* Steps that write nothing keep the log's two properties.
LEMMA ReadStep ==
  ASSUME SomeoneAdministers, AuditTellsState, UNCHANGED <<accounts, flag, audit>>
  PROVE  SomeoneAdministers' /\ AuditTellsState'
BY DEF SomeoneAdministers, AuditTellsState, IsSuperuser, IsActive, About

\* Whoever was guarded stays so, whatever is committed.
LEMMA GuardedKept ==
  ASSUME AdminTypeOK, NEW p \in AdminRequest, Guarded(p), [AdminNext]_adminVars
  PROVE  Guarded(p)'
<1>1. CASE UNCHANGED <<accounts, flag, audit>>
  BY <1>1 DEF Guarded, SelfGuard, IsSuperuser, IsActive, LostAfter
<1>2. ASSUME NEW s \in AdminRequests, AdminCommit(s) PROVE Guarded(p)'
  <2> DEFINE q == adm[s]
             n == Len(audit) + 1
  <2>1. /\ q \in AdminRequest /\ Len(audit) \in Nat
        /\ DOMAIN audit = 1..Len(audit) /\ DOMAIN audit' = 1..n
        /\ \A i \in DOMAIN audit : audit'[i] = audit[i]
        /\ audit'[n].who = q.who /\ audit'[n].val = q.val
        /\ accounts' = accounts
        /\ \A f \in Flags, u \in Users :
             flag'[f][u] = IF f = q.f /\ u = q.who /\ q.val # q.seen THEN q.val ELSE flag[f][u]
    BY <1>2, CommitEffect
  <2>2. Len(audit') = n
    BY <1>2 DEF AdminCommit, AdminTypeOK
  <2>3. p.since \in Nat /\ p.by \in Users /\ p.since <= Len(audit)
    BY DEF AdminRequest, Guarded
  <2> HIDE DEF n
  <2>n. n = Len(audit) + 1
    BY DEF n
  <2>4. CASE LostAfter(p.since, p.by)
    <3>1. LostAfter(p.since, p.by)'
      BY <2>1, <2>4, <2>n DEF LostAfter
    <3> QED BY <2>1, <2>2, <2>3, <2>n, <3>1 DEF Guarded, SelfGuard
  <2>5. CASE IsSuperuser(p.by) /\ ~IsSuperuser(p.by)'
    <3>1. q.who = p.by /\ ~q.val
      BY <2>1, <2>3, <2>5 DEF IsSuperuser, IsActive, Flags, AdminRequest
    <3>2. n \in DOMAIN audit' /\ p.since < n
      BY <2>1, <2>3, <2>n
    <3>3. LostAfter(p.since, p.by)'
      BY <2>1, <3>1, <3>2 DEF LostAfter
    <3> QED BY <2>1, <2>2, <2>3, <2>n, <3>3 DEF Guarded, SelfGuard
  <2>6. CASE IsSuperuser(p.by)'
    BY <2>1, <2>2, <2>3, <2>n, <2>6 DEF Guarded, SelfGuard
  <2> QED BY <2>4, <2>5, <2>6 DEF Guarded
<1> QED BY <1>1, <1>2 DEF AdminNext, AdminBegin, AdminLoad, AdminFail, adminVars

LEMMA GuardStep == AdminTypeOK /\ GuardInv /\ [AdminNext]_adminVars => GuardInv'
<1> SUFFICES ASSUME AdminTypeOK, GuardInv, [AdminNext]_adminVars,
                    NEW t \in AdminRequests, (adm[t] # None)'
    PROVE Guarded(adm[t])'
  BY DEF GuardInv
<1>1. CASE \E by, who \in Users, f \in Columns, val \in BOOLEAN : AdminBegin(t, by, f, who, val)
  BY <1>1 DEF AdminBegin, AdminTypeOK, Guarded, SelfGuard, IsSuperuser, IsActive
<1>2. CASE /\ adm[t] \in AdminRequest /\ adm[t] # None
           /\ (adm[t].by)' = adm[t].by /\ (adm[t].f)' = adm[t].f
           /\ (adm[t].who)' = adm[t].who /\ (adm[t].val)' = adm[t].val
           /\ (adm[t].since)' = adm[t].since
  <2>1. PICK p \in AdminRequest : p = adm[t]
    BY <1>2
  <2>2. Guarded(p)'
    BY <1>2, <2>1, GuardedKept DEF GuardInv, Guarded, SelfGuard, IsSuperuser, IsActive, LostAfter
  <2> QED BY <1>2, <2>1, <2>2 DEF Guarded, SelfGuard, IsSuperuser, IsActive, LostAfter
<1>3. CASE adm'[t] = adm[t]
  BY <1>2, <1>3 DEF AdminTypeOK
<1>4. CASE AdminLoad(t)
  BY <1>2, <1>4 DEF AdminLoad, AdminTypeOK, AdminRequest
<1>5. CASE AdminCommit(t) \/ AdminFail(t)
  BY <1>5 DEF AdminCommit, AdminFail, AdminTypeOK
<1>6. ASSUME NEW s \in AdminRequests, s # t,
             \/ \E by, who \in Users, f \in Columns, val \in BOOLEAN : AdminBegin(s, by, f, who, val)
             \/ AdminLoad(s) \/ AdminCommit(s) \/ AdminFail(s)
      PROVE adm'[t] = adm[t]
  BY <1>6 DEF AdminTypeOK, AdminBegin, AdminLoad, AdminCommit, AdminFail
<1>7. CASE UNCHANGED adminVars
  BY <1>3, <1>7 DEF adminVars
<1> QED BY <1>1, <1>3, <1>4, <1>5, <1>6, <1>7 DEF AdminNext

-----------------------------------------------------------------------------
LEMMA LoadStep == AdminTypeOK /\ GuardInv /\ LoadInv /\ [AdminNext]_adminVars => LoadInv'
<1> SUFFICES ASSUME AdminTypeOK, GuardInv, LoadInv, [AdminNext]_adminVars,
                    NEW t \in AdminRequests, (adm[t] # None)', (adm[t].loaded)'
    PROVE (\/ adm[t].seen = flag[adm[t].f][adm[t].who]
           \/ \E i \in About(adm[t].f, adm[t].who) : adm[t].since < i)'
  BY DEF LoadInv
<1>1. CASE \E by, who \in Users, f \in Columns, val \in BOOLEAN : AdminBegin(t, by, f, who, val)
  BY <1>1 DEF AdminBegin, AdminTypeOK
<1>2. CASE AdminLoad(t)
  <2>1. adm[t] \in AdminRequest
    BY <1>2 DEF AdminLoad, AdminTypeOK
  <2> QED BY <1>2, <2>1 DEF AdminLoad, AdminTypeOK, AdminRequest
<1>3. CASE AdminCommit(t) \/ AdminFail(t)
  BY <1>3 DEF AdminCommit, AdminFail, AdminTypeOK
<1>4. CASE adm'[t] = adm[t] /\ UNCHANGED <<flag, audit>>
  BY <1>4 DEF LoadInv, About
<1>5. ASSUME NEW s \in AdminRequests, s # t, AdminCommit(s)
      PROVE  (\/ adm[t].seen = flag[adm[t].f][adm[t].who]
              \/ \E i \in About(adm[t].f, adm[t].who) : adm[t].since < i)'
  <2> DEFINE q == adm[s]
             p == adm[t]
             n == Len(audit) + 1
  <2>1. adm'[t] = p /\ p \in AdminRequest /\ p # None /\ p.loaded
    BY <1>5, CommitEffect DEF AdminTypeOK
  <2>2. /\ q \in AdminRequest /\ Len(audit) \in Nat
        /\ DOMAIN audit = 1..Len(audit) /\ DOMAIN audit' = 1..n
        /\ \A i \in DOMAIN audit : audit'[i] = audit[i]
        /\ audit'[n].f = q.f /\ audit'[n].who = q.who
        /\ \A f \in Flags, u \in Users :
             flag'[f][u] = IF f = q.f /\ u = q.who /\ q.val # q.seen THEN q.val ELSE flag[f][u]
    BY <1>5, CommitEffect
  <2>3. CASE \E i \in About(p.f, p.who) : p.since < i
    BY <2>1, <2>2, <2>3 DEF About
  <2>4. CASE p.seen = flag[p.f][p.who] /\ flag'[p.f][p.who] = flag[p.f][p.who]
    BY <2>1, <2>4
  <2>5. CASE q.f = p.f /\ q.who = p.who
    <3>1. p.since \in Nat /\ p.since <= Len(audit)
      BY <2>1 DEF GuardInv, Guarded, AdminRequest
    <3>2. n \in DOMAIN audit' /\ p.since < n
      BY <3>1, <2>2
    <3> QED BY <2>1, <2>2, <2>5, <3>2 DEF About
  <2>6. p.seen = flag[p.f][p.who] \/ \E i \in About(p.f, p.who) : p.since < i
    BY <2>1 DEF LoadInv
  <2>7. p.f \in Flags /\ p.who \in Users
    BY <2>1 DEF AdminRequest
  <2> QED BY <2>2, <2>3, <2>4, <2>5, <2>6, <2>7
<1>6. ASSUME NEW s \in AdminRequests, s # t,
             \/ \E by, who \in Users, f \in Columns, val \in BOOLEAN : AdminBegin(s, by, f, who, val)
             \/ AdminLoad(s) \/ AdminFail(s)
      PROVE adm'[t] = adm[t] /\ UNCHANGED <<flag, audit>>
  BY <1>6 DEF AdminTypeOK, AdminBegin, AdminLoad, AdminFail
<1>7. CASE UNCHANGED adminVars
  BY <1>4, <1>7 DEF adminVars
<1> QED BY <1>1, <1>2, <1>3, <1>4, <1>5, <1>6, <1>7 DEF AdminNext

LEMMA SomeoneStep ==
  AdminTypeOK /\ GuardInv /\ SomeoneAdministers /\ [AdminNext]_adminVars => SomeoneAdministers'
<1> SUFFICES ASSUME AdminTypeOK, GuardInv, SomeoneAdministers, [AdminNext]_adminVars,
                    Superusers # {}
    PROVE SomeoneAdministers'
  BY DEF SomeoneAdministers
<1>1. CASE UNCHANGED <<accounts, flag, audit>>
  BY <1>1 DEF SomeoneAdministers, IsSuperuser, IsActive
<1>2. ASSUME NEW s \in AdminRequests, AdminCommit(s) PROVE SomeoneAdministers'
  <2> DEFINE q == adm[s]
             n == Len(audit) + 1
  <2>1. /\ q \in AdminRequest /\ q # None /\ Len(audit) \in Nat
        /\ DOMAIN audit = 1..Len(audit) /\ DOMAIN audit' = 1..n
        /\ \A i \in DOMAIN audit : audit'[i] = audit[i]
        /\ audit'[n].by = q.by /\ audit'[n].since = q.since
        /\ accounts' = accounts
        /\ \A f \in Flags, u \in Users :
             flag'[f][u] = IF f = q.f /\ u = q.who /\ q.val # q.seen THEN q.val ELSE flag[f][u]
    BY <1>2, CommitEffect
  <2>2. /\ SelfGuard(q.by, q.f, q.who, q.val)
        /\ IsSuperuser(q.by) \/ LostAfter(q.since, q.by)
        /\ q.by \in Users /\ q.val \in BOOLEAN
    BY <2>1 DEF GuardInv, Guarded, AdminRequest
  <2>3. CASE \E i, j \in DOMAIN audit :
               i < j /\ audit[j].since < i /\ audit[i].who = audit[j].by /\ ~audit[i].val
    BY <2>1, <2>3 DEF SomeoneAdministers
  <2>4. CASE LostAfter(q.since, q.by)
    <3>1. PICK i \in DOMAIN audit : q.since < i /\ audit[i].who = q.by /\ ~audit[i].val
      BY <2>4 DEF LostAfter
    <3>2. i \in DOMAIN audit' /\ n \in DOMAIN audit' /\ i < n /\ audit'[i] = audit[i]
      BY <2>1
    <3> HIDE DEF n
    <3> QED BY <2>1, <3>1, <3>2 DEF SomeoneAdministers
  <2>5. CASE IsSuperuser(q.by) /\ ~q.val
    <3>1. PICK u \in Users : u = q.by
      BY <2>2
    <3>2. IsSuperuser(u)'
      BY <2>1, <2>2, <2>5, <3>1 DEF SelfGuard, IsSuperuser, IsActive, Flags
    <3> QED BY <3>2 DEF SomeoneAdministers
  <2>6. CASE q.val /\ \E u \in Users : IsSuperuser(u)
    <3>1. PICK u \in Users : IsSuperuser(u)
      BY <2>6
    <3>2. IsSuperuser(u)'
      BY <2>1, <2>6, <3>1 DEF IsSuperuser, IsActive, Flags
    <3> QED BY <3>2 DEF SomeoneAdministers
  <2> QED BY <2>2, <2>3, <2>4, <2>5, <2>6 DEF SomeoneAdministers
<1> QED BY <1>1, <1>2 DEF AdminNext, AdminBegin, AdminLoad, AdminFail, adminVars

LEMMA AuditStep ==
  AdminTypeOK /\ LoadInv /\ AuditTellsState /\ [AdminNext]_adminVars => AuditTellsState'
<1> SUFFICES ASSUME AdminTypeOK, LoadInv, AuditTellsState, [AdminNext]_adminVars
    PROVE AuditTellsState'
  OBVIOUS
<1>1. CASE UNCHANGED <<accounts, flag, audit>>
  BY <1>1 DEF AuditTellsState, About
<1>2. ASSUME NEW s \in AdminRequests, AdminCommit(s) PROVE AuditTellsState'
  <2> DEFINE q == adm[s]
             n == Len(audit) + 1
  <2>1. /\ q \in AdminRequest /\ q # None /\ q.loaded /\ Len(audit) \in Nat
        /\ DOMAIN audit = 1..Len(audit) /\ DOMAIN audit' = 1..n
        /\ \A i \in DOMAIN audit : audit'[i] = audit[i]
        /\ audit'[n].f = q.f /\ audit'[n].who = q.who
        /\ audit'[n].val = q.val /\ audit'[n].since = q.since
        /\ \A f \in Flags, u \in Users :
             flag'[f][u] = IF f = q.f /\ u = q.who /\ q.val # q.seen THEN q.val ELSE flag[f][u]
    BY <1>2, CommitEffect DEF AdminCommit
  <2>2. \A f \in Flags, u \in Users :
          About(f, u)' = About(f, u) \union (IF f = q.f /\ u = q.who THEN {n} ELSE {})
    BY <2>1 DEF About
  <2>3. q.f \in Flags /\ q.who \in Users /\ q.since \in Nat
    BY <2>1 DEF AdminRequest
  <2> SUFFICES ASSUME NEW f \in Flags, NEW u \in Users, NEW j \in About(f, u)',
                      \A i \in About(f, u)' : i < j => i <= audit'[j].since
      PROVE flag'[f][u] = audit'[j].val \/ \E k \in About(f, u)' : k > j
    BY DEF AuditTellsState
  <2>4. CASE f = q.f /\ u = q.who /\ j = n
    <3>1. \A i \in About(f, u) : ~ (q.since < i)
      BY <2>1, <2>2, <2>3, <2>4 DEF About
    <3>2. q.seen = flag[f][u]
      BY <2>1, <2>4, <3>1 DEF LoadInv
    <3> QED BY <2>1, <2>4, <3>2
  <2>5. CASE f = q.f /\ u = q.who /\ j # n
    <3>1. j \in DOMAIN audit /\ n \in About(f, u)'
      BY <2>2, <2>5 DEF About
    <3>2. n > j
      BY <2>1, <3>1
    <3> QED BY <3>1, <3>2
  <2>6. CASE ~ (f = q.f /\ u = q.who)
    <3>0. flag'[f][u] = flag[f][u]
      BY <2>1, <2>6
    <3>1. About(f, u)' = About(f, u)
      BY <2>2, <2>6
    <3>2. audit'[j] = audit[j]
      BY <2>1, <3>1 DEF About
    <3> QED BY <3>0, <3>1, <3>2 DEF AuditTellsState
  <2> QED BY <2>4, <2>5, <2>6
<1> QED BY <1>1, <1>2 DEF AdminNext, AdminBegin, AdminLoad, AdminFail, adminVars

-----------------------------------------------------------------------------
LEMMA AdminInvariant == AdminSpec => [](AdminTypeOK /\ GuardInv /\ LoadInv)
<1>1. AdminInit => AdminTypeOK /\ GuardInv /\ LoadInv
  BY TypeInit, GuardInit
<1>2. AdminTypeOK /\ GuardInv /\ LoadInv /\ [AdminNext]_adminVars
      => (AdminTypeOK /\ GuardInv /\ LoadInv)'
  BY TypeStep, GuardStep, LoadStep
<1> QED BY <1>1, <1>2, PTL DEF AdminSpec

\* However many superusers act at once, the panel keeps one unless a request
\* overlapped the demotion of its own caller.
THEOREM AdministratorsRemain == AdminSpec => []SomeoneAdministers
BY GuardInit, SomeoneStep, AdminInvariant, PTL DEF AdminSpec

\* The last audit row about a column is its value, but for overlaps.
THEOREM AuditIsTrue == AdminSpec => []AuditTellsState
BY GuardInit, AuditStep, AdminInvariant, PTL DEF AdminSpec

\* Nothing changes behind the back of the audit log, and it only grows.
THEOREM ChangesAudited == AdminSpec => EveryChangeAudited
<1> DEFINE A == /\ SubSeq(audit', 1, Len(audit)) = audit
                /\ \A f \in Flags, u \in Users :
                     flag'[f][u] # flag[f][u] =>
                       \E i \in DOMAIN audit' \ DOMAIN audit :
                         audit'[i].f = f /\ audit'[i].who = u /\ audit'[i].val = flag'[f][u]
<1>1. AdminTypeOK /\ [AdminNext]_adminVars => [A]_<<flag, audit>>
  <2> SUFFICES ASSUME AdminTypeOK, [AdminNext]_adminVars PROVE A \/ UNCHANGED <<flag, audit>>
    OBVIOUS
  <2>1. CASE UNCHANGED <<flag, audit>>
    BY <2>1
  <2>2. ASSUME NEW s \in AdminRequests, AdminCommit(s) PROVE A
    <3> DEFINE q == adm[s]
               n == Len(audit) + 1
    <3>1. /\ q \in AdminRequest /\ Len(audit) \in Nat
          /\ DOMAIN audit = 1..Len(audit) /\ DOMAIN audit' = 1..n
          /\ \A i \in DOMAIN audit : audit'[i] = audit[i]
          /\ audit'[n].f = q.f /\ audit'[n].who = q.who /\ audit'[n].val = q.val
          /\ \A f \in Flags, u \in Users :
               flag'[f][u] = IF f = q.f /\ u = q.who /\ q.val # q.seen THEN q.val ELSE flag[f][u]
      BY <2>2, CommitEffect
    <3>2. n \in DOMAIN audit' \ DOMAIN audit
      BY <3>1
    <3>3. SubSeq(audit', 1, Len(audit)) = audit
      <4>1. \A i \in 1..Len(audit) : SubSeq(audit', 1, Len(audit))[i] = audit[i]
        BY <3>1 DEF AdminTypeOK
      <4> QED BY <4>1, <3>1, SubSeqProperties DEF AdminTypeOK
    <3> QED BY <3>1, <3>2, <3>3
  <2> QED BY <2>1, <2>2 DEF AdminNext, AdminBegin, AdminLoad, AdminFail, adminVars
<1> QED BY <1>1, AdminTypeCorrect, PTL DEF AdminSpec, EveryChangeAudited

-----------------------------------------------------------------------------
(* The members.                                                            *)

TypeOK == AdminTypeOK /\ MemberTypeOK

\* What the row of a request is, and what it may yet collide with.
Shape(q) ==
  /\ q.op = "register" => q.row.on = q.by /\ q.row.user = q.by
  /\ q.op = "create" => /\ q.on \in accounts /\ q.row.on \in Workspaces \ Ids
                        /\ q.row.user = q.by /\ q.row.role = Owner
  /\ q.op = "add" => q.row.on = q.on /\ q.on \in Ids
  /\ q.op = "remove" /\ q.pc = "write" => q.row.on = q.on

ShapeInv ==
  /\ \A r \in Requests : req[r] # None => Shape(req[r])
  /\ \A r, s \in Requests :
       /\ req[r] # None /\ req[r].op = "create"
       /\ req[s] # None /\ req[s].op = "create"
       /\ req[r].row.on = req[s].row.on
       => r = s
  /\ \A m \in members : m.on \in accounts \union Ids

\* The caller was active and entitled, and still is or lost it meanwhile.
Active(q) ==
  \/ IsActive(q.by)
  \/ \E i \in (q.audited + 1)..Len(audit) :
       audit[i].who = q.by /\ audit[i].f = "is_active" /\ ~audit[i].val

Member(q) ==
  \/ Satisfies(q.by, q.on, Needed(q))
  \/ \E i \in (q.gone + 1)..Len(removed) :
       removed[i].row.on = q.on /\ removed[i].row.user = q.by

Holds(q) ==
  /\ q.gone <= Len(removed) /\ q.audited <= Len(audit)
  /\ q.op # "register" => Active(q)
  /\ q.op # "register" /\ q.pc # "guard" => Member(q)

CallerInv == \A r \in Requests : req[r] # None => Holds(req[r])

-----------------------------------------------------------------------------
\* There are enough suffixes for the organizations of the initial state.
LEMMA Suffixes ==
  ASSUME NEW S, IsFiniteSet(S)
  PROVE  \E s \in [S -> 0..(Cardinality(S) - 1)] : \A f, g \in S : s[f] = s[g] => f = g
<1> DEFINE n == Cardinality(S)
<1>1. n \in Nat /\ ExistsBijection(1..n, S)
  BY FS_CardinalityType
<1>2. PICK b : b \in Bijection(1..n, S)
  BY <1>1 DEF ExistsBijection
<1>3. b \in [1..n -> S] /\ \A x \in S : \E i \in 1..n : b[i] = x
  BY <1>2 DEF Bijection, Injection, Surjection
<1> DEFINE s == [x \in S |-> (CHOOSE i \in 1..n : b[i] = x) - 1]
<1>4. \A x \in S : s[x] + 1 \in 1..n /\ b[s[x] + 1] = x
  <2> SUFFICES ASSUME NEW x \in S PROVE s[x] + 1 \in 1..n /\ b[s[x] + 1] = x
    OBVIOUS
  <2> DEFINE c == CHOOSE i \in 1..n : b[i] = x
  <2>1. c \in 1..n /\ b[c] = x
    BY <1>3
  <2>2. s[x] = c - 1
    OBVIOUS
  <2> HIDE DEF c, s
  <2>3. s[x] + 1 = c
    BY <2>1, <2>2, <1>1
  <2> QED BY <2>1, <2>3
<1>5. s \in [S -> 0..(n - 1)]
  <2>1. ASSUME NEW x \in S PROVE s[x] \in 0..(n - 1)
    <3>1. PICK i \in 1..n : s[x] = i - 1
      BY <1>3
    <3> QED BY <3>1, <1>1
  <2> QED BY <2>1
<1>6. \A f, g \in S : s[f] = s[g] => f = g
  BY <1>4
<1> QED BY <1>5, <1>6

LEMMA InitFacts ==
  ASSUME Init
  PROVE  /\ accounts \subseteq Users
         /\ orgs \in [accounts -> Nat]
         /\ \A f, g \in accounts : orgs[f] = orgs[g] => f = g
<1>1. accounts \subseteq Users
  BY DEF Init, AdminInit
<1>2. IsFiniteSet(accounts)
  BY <1>1, MemberAssumption, FS_Subset
<1>3. /\ orgs \in [accounts -> 0..(Cardinality(accounts) - 1)]
      /\ \A f, g \in accounts : orgs[f] = orgs[g] => f = g
  <2>1. \E s \in [accounts -> 0..(Cardinality(accounts) - 1)] :
          \A f, g \in accounts : s[f] = s[g] => f = g
    BY <1>2, Suffixes
  <2>2. orgs = CHOOSE s \in [accounts -> 0..(Cardinality(accounts) - 1)] :
                 \A f, g \in accounts : s[f] = s[g] => f = g
    BY DEF Init, MemberInit
  <2> QED BY <2>1, <2>2
<1> QED BY <1>1, <1>3, <1>2, FS_CardinalityType

\* The tables before the first request.
LEMMA InitMembers ==
  ASSUME Init
  PROVE  /\ workspaces \subseteq [id: Workspaces, org: accounts, slug: Nat]
         /\ members \subseteq MemberRow
         /\ \A v, w \in workspaces : v.org = w.org /\ v.slug = w.slug => v = w
         /\ \A m, n \in members : m.on = n.on /\ m.user = n.user => m = n
         /\ \A m \in members : m.on \in accounts \union Ids
         /\ \A w \in workspaces : \E m \in members : m.on = w.id /\ m.role = Owner
<1>1. PICK f \in accounts, role \in [accounts -> Roles \union {Owner, None}] :
        /\ role[f] = Owner
        /\ workspaces = {[id |-> w, org |-> f, slug |-> 0] : w \in Created}
        /\ members =
             {[row |-> 0, on |-> u, user |-> u, role |-> Owner] : u \in accounts}
             \union
             {[row |-> 0, on |-> w, user |-> u, role |-> role[u]] :
                w \in Created, u \in {x \in accounts : role[x] # None}}
  BY DEF Init, MemberInit
<1>2. accounts \subseteq Users /\ Created \subseteq Workspaces /\ Roles \subseteq 0..2
      /\ Users \intersect Workspaces = {} /\ None \notin Nat /\ Owner = 2
  BY InitFacts, MemberAssumption DEF Owner
<1>3. \A m \in members :
        \/ \E u \in accounts : m = [row |-> 0, on |-> u, user |-> u, role |-> Owner]
        \/ \E w \in Created, u \in accounts :
             /\ role[u] # None /\ m = [row |-> 0, on |-> w, user |-> u, role |-> role[u]]
  BY <1>1
<1>4. \A w, v \in Created : w = v
  BY MemberAssumption
<1>5. workspaces \subseteq [id: Workspaces, org: accounts, slug: Nat]
  BY <1>1, <1>2
<1>6. members \subseteq MemberRow
  <2> SUFFICES ASSUME NEW m \in members PROVE m \in MemberRow
    OBVIOUS
  <2>0. \A u \in accounts : role[u] \in Roles \union {Owner, None}
    BY <1>1
  <2>1. \A u \in accounts : role[u] # None => role[u] \in 0..2
    <3>1. Roles \union {Owner} \subseteq 0..2
      BY MemberAssumption DEF Owner
    <3> QED BY <2>0, <3>1
  <2>2. CASE \E u \in accounts : m = [row |-> 0, on |-> u, user |-> u, role |-> Owner]
    BY <2>2, <1>2 DEF MemberRow, Places
  <2>3. CASE \E w \in Created, u \in accounts :
               role[u] # None /\ m = [row |-> 0, on |-> w, user |-> u, role |-> role[u]]
    BY <2>1, <2>3, <1>2 DEF MemberRow, Places
  <2> QED BY <1>3, <2>2, <2>3
<1>7. \A v, w \in workspaces : v.org = w.org /\ v.slug = w.slug => v = w
  BY <1>1, <1>4
<1>8. \A m, n \in members : m.on = n.on /\ m.user = n.user => m = n
  BY <1>2, <1>3
<1>9. \A m \in members : m.on \in accounts \union Ids
  <2>1. \A w \in Created : [id |-> w, org |-> f, slug |-> 0] \in workspaces
    BY <1>1
  <2>2. \A w \in Created : \E v \in workspaces : v.id = w
    BY <2>1
  <2>3. Created \subseteq Ids
    BY <2>2 DEF Ids
  <2> QED BY <1>3, <2>3
<1>10. \A w \in workspaces : \E m \in members : m.on = w.id /\ m.role = Owner
  <2> SUFFICES ASSUME NEW w \in Created
      PROVE  \E m \in members : m.on = w /\ m.role = Owner
    BY <1>1
  <2>1. f \in {x \in accounts : role[x] # None}
    BY <1>1, <1>2
  <2>2. [row |-> 0, on |-> w, user |-> f, role |-> role[f]] \in members
    BY <1>1, <2>1
  <2> QED BY <1>1, <2>2
<1> QED BY <1>5, <1>6, <1>7, <1>8, <1>9, <1>10

LEMMA MemberInitAll ==
  Init => TypeOK /\ ShapeInv /\ CallerInv /\ UniqueRows /\ OwnersRemain
<1> SUFFICES ASSUME Init
    PROVE TypeOK /\ ShapeInv /\ CallerInv /\ UniqueRows /\ OwnersRemain
  OBVIOUS
<1>1. AdminTypeOK
  BY TypeInit DEF Init
<1>2. removed = <<>> /\ req = [r \in Requests |-> None] /\ spent = 0
  BY DEF Init, MemberInit
<1>3. MemberTypeOK
  BY <1>2, InitFacts, InitMembers, MemberAssumption DEF MemberTypeOK
<1>4. ShapeInv
  BY <1>2, InitMembers DEF ShapeInv
<1>5. CallerInv
  BY <1>2 DEF CallerInv
<1>6. UniqueRows
  BY InitFacts, InitMembers DEF UniqueRows
<1>7. OwnersRemain
  BY InitMembers DEF OwnersRemain
<1> QED BY <1>1, <1>3, <1>4, <1>5, <1>6, <1>7 DEF TypeOK

-----------------------------------------------------------------------------
\* Types.

\* What a request may be about is a row.
LEMMA RequestedRows ==
  ASSUME MemberTypeOK, NEW op \in {"register", "create", "add", "remove"},
         NEW by \in Users, NEW on \in Places, NEW row \in Requested(op, by, on)
  PROVE  /\ row \in MemberRow
         /\ op = "register" => row.on = by /\ row.user = by
         /\ op = "create" => /\ on \in accounts /\ row.on \in Workspaces \ Ids
                            /\ row.user = by /\ row.role = Owner
                            /\ \A r \in Requests : req[r] # None => req[r].row.on # row.on
         /\ op = "add" => row.on = on /\ on \in Ids
<1> USE MemberAssumption DEF Places, Owner
<1> DEFINE New(place, user, role) ==
      [row |-> spent + 1, on |-> place, user |-> user, role |-> role]
<1>1. spent + 1 \in Nat
  BY DEF MemberTypeOK
<1>2. \A place \in Places, user \in Users, role \in 0..2 :
        /\ New(place, user, role) \in MemberRow
        /\ New(place, user, role).on = place /\ New(place, user, role).user = user
        /\ New(place, user, role).role = role
  BY <1>1 DEF MemberRow
<1>3. CASE op = "register"
  <2>1. row = New(by, by, Owner)
    BY <1>3 DEF Requested
  <2> HIDE DEF New
  <2>2. by \in Places /\ Owner \in 0..2
    OBVIOUS
  <2> QED BY <1>2, <1>3, <2>1, <2>2
<1>4. CASE op = "create"
  <2>1. on \in accounts /\ \E w \in Workspaces \ Ids :
          row = New(w, by, Owner) /\ \A r \in Requests : req[r] # None => req[r].row.on # w
    BY <1>4 DEF Requested
  <2> HIDE DEF New
  <2>2. Workspaces \subseteq Places /\ Owner \in 0..2
    OBVIOUS
  <2> QED BY <1>2, <1>4, <2>1, <2>2
<1>5. CASE op = "add"
  <2>1. on \in Ids /\ \E u \in Users, rank \in Roles : row = New(on, u, rank)
    BY <1>5 DEF Requested
  <2> HIDE DEF New
  <2>2. Roles \subseteq 0..2
    OBVIOUS
  <2> QED BY <1>2, <1>5, <2>1, <2>2
<1>6. CASE op = "remove"
  BY <1>6 DEF Requested, MemberTypeOK
<1> QED BY <1>3, <1>4, <1>5, <1>6

\* Steps of one request that write no table.
LEMMA GotoEffect ==
  ASSUME MemberTypeOK, NEW r \in Requests, Guard(r) \/ Look(r) \/ Fail(r)
  PROVE  /\ req[r] \in Request /\ req[r] # None
         /\ UNCHANGED <<adminVars, tables, spent>>
         /\ \/ req' = [req EXCEPT ![r] = None]
            \/ \E n \in Nat, label \in {"look", "write"} :
                 /\ req' = [req EXCEPT ![r] = [req[r] EXCEPT !.pc = label, !.slug = n]]
                 /\ label = "write" /\ req[r].op = "remove" => req[r].row.on = req[r].on
                 /\ IF label = "look" THEN Guard(r) ELSE req[r].pc = "look"
<1>1. req[r] \in Request /\ req[r] # None
  BY DEF Guard, Look, Fail, At, MemberTypeOK
<1>s. \A label : [req[r] EXCEPT !.pc = label] = [req[r] EXCEPT !.pc = label, !.slug = req[r].slug]
  BY <1>1 DEF Request
<1>2. CASE Guard(r)
  BY <1>1, <1>2, <1>s DEF Guard, Goto, Request
<1>3. CASE Fail(r)
  BY <1>1, <1>3 DEF Fail, Goto
<1>4. CASE Look(r)
  <2>1. req[r].pc = "look"
    BY <1>4 DEF Look, At
  <2>2. CASE req[r].op \in {"register", "create"}
    <3>1. PICK n \in 0..MaxSuffix : Goto(r, [req[r] EXCEPT !.pc = "write", !.slug = n])
      BY <1>4, <2>2 DEF Look
    <3>2. n \in Nat
      BY MemberAssumption
    <3> QED BY <1>1, <2>1, <2>2, <3>1, <3>2 DEF Goto
  <2>3. CASE req[r].op = "add"
    <3>1. Goto(r, [req[r] EXCEPT !.pc = "write"])
      BY <1>4, <2>3 DEF Look
    <3> QED BY <1>1, <1>s, <2>1, <2>3, <3>1 DEF Goto, Request
  <2>4. CASE req[r].op = "remove"
    <3>1. req[r].row.on = req[r].on /\ Goto(r, [req[r] EXCEPT !.pc = "write"])
      BY <1>4, <2>4 DEF Look
    <3> QED BY <1>1, <1>s, <2>1, <2>4, <3>1 DEF Goto, Request
  <2> QED BY <1>1, <2>2, <2>3, <2>4 DEF Request
<1> QED BY <1>2, <1>3, <1>4

\* Request r passes its guard or its look-up.
Proceeds(r, n, label) ==
  /\ req' = [req EXCEPT ![r] = [req[r] EXCEPT !.pc = label, !.slug = n]]
  /\ label = "write" /\ req[r].op = "remove" => req[r].row.on = req[r].on
  /\ IF label = "look" THEN Guard(r) ELSE req[r].pc = "look"

\* A request that does not end passes one of them.
LEMMA GotoProceeds ==
  ASSUME MemberTypeOK, NEW r \in Requests, Guard(r) \/ Look(r) \/ Fail(r),
         req' # [req EXCEPT ![r] = None]
  PROVE  \E n \in Nat, label \in {"look", "write"} : Proceeds(r, n, label)
BY GotoEffect, Zenon DEF Proceeds

\* A request is made.
LEMMA BeginEffect ==
  ASSUME TypeOK, NEW r \in Requests, NEW op \in Ops, NEW by \in Users, NEW on \in Places,
         Begin(r, op, by, on)
  PROVE  \E q \in Request :
           /\ req' = [req EXCEPT ![r] = q] /\ req[r] = None
           /\ q.op = op /\ q.by = by /\ q.on = on /\ q.row \in Requested(op, by, on)
           /\ q.pc = (IF op = "register" THEN "look" ELSE "guard")
           /\ q.gone = Len(removed) /\ q.audited = Len(audit)
           /\ op # "register" => IsActive(by)
           /\ spent' = spent + 1 /\ spent < MaxRequests
           /\ UNCHANGED <<adminVars, tables>>
<1>1. PICK row \in Requested(op, by, on) :
        req' = [req EXCEPT ![r] =
          [op |-> op, by |-> by, on |-> on, row |-> row, slug |-> 0,
           pc |-> IF op = "register" THEN "look" ELSE "guard",
           gone |-> Len(removed), audited |-> Len(audit)]]
  BY DEF Begin
<1>2. op \in {"register", "create", "add", "remove"}
  BY MemberAssumption
<1>3. row \in MemberRow /\ Len(removed) \in Nat /\ Len(audit) \in Nat
  BY <1>2, RequestedRows DEF TypeOK, MemberTypeOK, AdminTypeOK
<1> DEFINE q == [op |-> op, by |-> by, on |-> on, row |-> row, slug |-> 0,
                 pc |-> IF op = "register" THEN "look" ELSE "guard",
                 gone |-> Len(removed), audited |-> Len(audit)]
<1>4. q \in Request
  BY <1>2, <1>3 DEF Request
<1> WITNESS q \in Request
<1> QED BY <1>1 DEF Begin

LEMMA MemberTypeStep == TypeOK /\ ShapeInv /\ [Next]_vars => TypeOK'
<1> SUFFICES ASSUME TypeOK, ShapeInv, [Next]_vars PROVE TypeOK'
  OBVIOUS
<1> USE MemberAssumption DEF TypeOK
<1>1. CASE AdminNext /\ UNCHANGED memberVars
  <2>1. AdminTypeOK'
    BY <1>1, TypeStep
  <2>2. accounts' = accounts
    BY <1>1 DEF AdminNext, AdminBegin, AdminLoad, AdminCommit, AdminFail
  <2> QED BY <1>1, <2>1, <2>2 DEF memberVars, MemberTypeOK
<1>2. ASSUME NEW r \in Requests, NEW op \in Ops, NEW by \in Users, NEW on \in Places,
             Begin(r, op, by, on)
      PROVE  TypeOK'
  <2>1. PICK q \in Request :
          /\ req' = [req EXCEPT ![r] = q] /\ spent' = spent + 1 /\ spent < MaxRequests
          /\ UNCHANGED <<adminVars, tables>>
    BY <1>2, BeginEffect
  <2> QED BY <2>1 DEF adminVars, tables, AdminTypeOK, MemberTypeOK
<1>3. ASSUME NEW r \in Requests, Guard(r) \/ Look(r) \/ Fail(r) PROVE TypeOK'
  <2>1. /\ req[r] \in Request
        /\ UNCHANGED <<adminVars, tables, spent>>
        /\ \/ req' = [req EXCEPT ![r] = None]
           \/ \E n \in Nat, label \in {"look", "write"} :
                req' = [req EXCEPT ![r] = [req[r] EXCEPT !.pc = label, !.slug = n]]
    BY <1>3, GotoEffect
  <2>2. \A n \in Nat, label \in {"look", "write"} :
          [req[r] EXCEPT !.pc = label, !.slug = n] \in Request
    BY <2>1 DEF Request
  <2>3. req' \in [Requests -> Request \union {None}]
    <3> DEFINE new(n, label) == [req[r] EXCEPT !.pc = label, !.slug = n]
    <3>1. \A n \in Nat, label \in {"look", "write"} : new(n, label) \in Request
      BY <2>2
    <3>2. \/ req' = [req EXCEPT ![r] = None]
          \/ \E n \in Nat, label \in {"look", "write"} : req' = [req EXCEPT ![r] = new(n, label)]
      BY <2>1
    <3> HIDE DEF new
    <3> QED BY <3>1, <3>2 DEF MemberTypeOK
  <2> QED BY <2>1, <2>3 DEF adminVars, tables, AdminTypeOK, MemberTypeOK
<1>4. ASSUME NEW r \in Requests, At(r, "write")
      PROVE  /\ req[r] \in Request /\ req[r].row \in MemberRow /\ req[r].slug \in Nat
             /\ req[r].by \in Users /\ req[r].on \in Places /\ req[r].gone \in Nat
  BY <1>4 DEF At, MemberTypeOK, Request
<1>5. ASSUME NEW r \in Requests, Register(r) PROVE TypeOK'
  <2>1. AdminTypeOK'
    BY <1>4, <1>5 DEF Register, AdminTypeOK
  <2>2. orgs' \in [accounts' -> Nat]
    BY <1>4, <1>5 DEF Register, MemberTypeOK
  <2> QED BY <1>4, <1>5, <2>1, <2>2 DEF Register, MemberTypeOK
<1>6. ASSUME NEW r \in Requests, CreateWorkspace(r) PROVE TypeOK'
  <2>0. Shape(req[r])
    BY <1>6 DEF CreateWorkspace, At, ShapeInv
  <2>1. [id |-> req[r].row.on, org |-> req[r].on, slug |-> req[r].slug]
          \in [id: Workspaces, org: accounts, slug: Nat]
    BY <1>4, <1>6, <2>0 DEF CreateWorkspace, Shape
  <2>2. workspaces' \subseteq [id: Workspaces, org: accounts, slug: Nat]
    BY <1>6, <2>1 DEF CreateWorkspace, MemberTypeOK
  <2> QED BY <1>4, <1>6, <2>2 DEF CreateWorkspace, adminVars, AdminTypeOK, MemberTypeOK
<1>7. ASSUME NEW r \in Requests, AddMember(r) PROVE TypeOK'
  BY <1>4, <1>7 DEF AddMember, adminVars, AdminTypeOK, MemberTypeOK
<1>8. ASSUME NEW r \in Requests, RemoveMember(r) PROVE TypeOK'
  <2>1. [by |-> req[r].by, row |-> req[r].row, gone |-> req[r].gone] \in Removal
    BY <1>4, <1>8 DEF RemoveMember, Removal
  <2>2. removed' \in Seq(Removal)
    BY <1>8, <2>1 DEF RemoveMember, MemberTypeOK
  <2> QED BY <1>4, <1>8, <2>2 DEF RemoveMember, adminVars, AdminTypeOK, MemberTypeOK
<1>9. CASE UNCHANGED vars
  BY <1>9 DEF vars, adminVars, memberVars, AdminTypeOK, MemberTypeOK
<1> QED BY <1>1, <1>2, <1>3, <1>5, <1>6, <1>7, <1>8, <1>9 DEF Next, MemberNext

-----------------------------------------------------------------------------
\* Shapes.

\* A shape survives any commit that keeps what it names.
LEMMA ShapeKept ==
  ASSUME NEW q, Shape(q), accounts \subseteq accounts', Ids \subseteq Ids',
         q.op = "create" => q.row.on \notin Ids'
  PROVE  Shape(q)'
BY DEF Shape

LEMMA ShapeStep == TypeOK /\ ShapeInv /\ [Next]_vars => ShapeInv'
<1> SUFFICES ASSUME TypeOK, ShapeInv, [Next]_vars PROVE ShapeInv'
  OBVIOUS
<1> USE DEF TypeOK
<1>1. CASE UNCHANGED <<accounts, workspaces, members, req>>
  BY <1>1 DEF ShapeInv, Shape, Ids
<1>2. ASSUME NEW r \in Requests, NEW op \in Ops, NEW by \in Users, NEW on \in Places,
             Begin(r, op, by, on)
      PROVE  ShapeInv'
  <2>1. PICK q \in Request :
          /\ req' = [req EXCEPT ![r] = q] /\ req[r] = None
          /\ q.op = op /\ q.by = by /\ q.on = on /\ q.row \in Requested(op, by, on)
          /\ q.pc = (IF op = "register" THEN "look" ELSE "guard")
          /\ UNCHANGED <<adminVars, tables>>
    BY <1>2, BeginEffect
  <2>2. Shape(q) /\ (op = "create" => \A s \in Requests : req[s] # None => req[s].row.on # q.row.on)
    BY <2>1, RequestedRows, MemberAssumption DEF Shape
  <2>3. \A s \in Requests : req'[s] = IF s = r THEN q ELSE req[s]
    BY <2>1 DEF MemberTypeOK
  <2>4. UNCHANGED <<accounts, workspaces, members>>
    BY <2>1 DEF adminVars, tables
  <2>5. \A s \in Requests : req'[s] # None => Shape(req'[s])
    BY <2>2, <2>3 DEF ShapeInv
  <2>6. \A s, t \in Requests :
          /\ req'[s] # None /\ req'[s].op = "create"
          /\ req'[t] # None /\ req'[t].op = "create"
          /\ req'[s].row.on = req'[t].row.on
          => s = t
    BY <2>1, <2>2, <2>3 DEF ShapeInv
  <2> QED BY <2>4, <2>5, <2>6 DEF ShapeInv, Shape, Ids
<1>3. ASSUME NEW r \in Requests, Guard(r) \/ Look(r) \/ Fail(r) PROVE ShapeInv'
  <2>1. /\ req[r] \in Request /\ req[r] # None
        /\ UNCHANGED <<accounts, workspaces, members>>
        /\ \/ req' = [req EXCEPT ![r] = None]
           \/ \E n \in Nat, label \in {"look", "write"} :
                /\ req' = [req EXCEPT ![r] = [req[r] EXCEPT !.pc = label, !.slug = n]]
                /\ label = "write" /\ req[r].op = "remove" => req[r].row.on = req[r].on
    <3>1. UNCHANGED <<adminVars, tables, spent>>
      BY <1>3, GotoEffect
    <3>2. UNCHANGED <<accounts, workspaces, members>>
      BY <3>1 DEF adminVars, tables
    <3>3. /\ req[r] \in Request /\ req[r] # None
          /\ \/ req' = [req EXCEPT ![r] = None]
             \/ \E n \in Nat, label \in {"look", "write"} :
                  /\ req' = [req EXCEPT ![r] = [req[r] EXCEPT !.pc = label, !.slug = n]]
                  /\ label = "write" /\ req[r].op = "remove" => req[r].row.on = req[r].on
      <4>1. CASE req' = [req EXCEPT ![r] = None]
        BY <1>3, <4>1, GotoEffect
      <4>2. CASE req' # [req EXCEPT ![r] = None]
        <5>1. PICK n \in Nat, label \in {"look", "write"} : Proceeds(r, n, label)
          BY <1>3, <4>2, GotoProceeds, Zenon
        <5>2. /\ req' = [req EXCEPT ![r] = [req[r] EXCEPT !.pc = label, !.slug = n]]
              /\ label = "write" /\ req[r].op = "remove" => req[r].row.on = req[r].on
          BY <5>1, Zenon DEF Proceeds
        <5>3. req[r] \in Request /\ req[r] # None
          BY <1>3, GotoEffect
        <5> QED BY <5>2, <5>3
      <4> QED BY <4>1, <4>2
    <3> QED BY <3>2, <3>3
  <2>2. \A s \in Requests : s # r => req'[s] = req[s]
    BY <2>1 DEF MemberTypeOK
  <2>3. req'[r] # None =>
          /\ req'[r].op = req[r].op /\ req'[r].by = req[r].by /\ req'[r].on = req[r].on
          /\ req'[r].row = req[r].row
          /\ req'[r].pc = "write" /\ req[r].op = "remove" => req[r].row.on = req[r].on
    BY <2>1 DEF MemberTypeOK, Request
  <2>4. \A s \in Requests : req'[s] # None => Shape(req'[s])
    <3>1. \A s \in Requests : s # r /\ req'[s] # None => Shape(req'[s])
      BY <2>2 DEF ShapeInv
    <3>2. Shape(req[r])
      BY <2>1 DEF ShapeInv
    <3>3. req'[r] # None => Shape(req'[r])
      BY <2>3, <3>2 DEF Shape
    <3> QED BY <3>1, <3>3
  <2>5. \A s \in Requests : req'[s] # None =>
          req[s] # None /\ req'[s].op = req[s].op /\ req'[s].row = req[s].row
    BY <2>1, <2>2, <2>3
  <2>6. \A s, t \in Requests :
          /\ req'[s] # None /\ req'[s].op = "create"
          /\ req'[t] # None /\ req'[t].op = "create"
          /\ req'[s].row.on = req'[t].row.on
          => s = t
    BY <2>5 DEF ShapeInv
  <2> QED BY <2>1, <2>4, <2>6 DEF ShapeInv, Shape, Ids
<1>4. ASSUME NEW r \in Requests, At(r, "write"),
             req' = [req EXCEPT ![r] = None],
             accounts \subseteq accounts', Ids \subseteq Ids',
             req[r].op = "create" \/ Ids' = Ids,
             Ids' \subseteq Ids \union {req[r].row.on},
             \A m \in members' : m \in members \/ m.on \in accounts' \union Ids'
      PROVE  ShapeInv'
  <2>1. \A s \in Requests : req'[s] # None => s # r /\ req'[s] = req[s]
    BY <1>4 DEF MemberTypeOK
  <2>2. ASSUME NEW s \in Requests, req'[s] # None PROVE Shape(req[s]) /\ req[s] # None
    BY <2>1, <2>2 DEF ShapeInv
  <2>3. ASSUME NEW s \in Requests, req'[s] # None, req[s].op = "create"
        PROVE  req[s].row.on \notin Ids'
    BY <1>4, <2>1, <2>2, <2>3 DEF ShapeInv, Shape, At
  <2>4. ASSUME NEW s \in Requests, req'[s] # None PROVE Shape(req[s])'
    <3>1. PICK q : q = req[s]
      OBVIOUS
    <3>2. Shape(q)'
      BY <3>1, <1>4, <2>2, <2>3, <2>4, ShapeKept
    <3>3. q = req'[s]
      BY <2>1, <2>4, <3>1
    <3> QED BY <3>2, <3>3 DEF Shape
  <2>5. \A m \in members' : m.on \in accounts' \union Ids'
    BY <1>4 DEF ShapeInv
  <2>6. \A s, t \in Requests :
          /\ req'[s] # None /\ req'[s].op = "create"
          /\ req'[t] # None /\ req'[t].op = "create"
          /\ req'[s].row.on = req'[t].row.on
          => s = t
    BY <2>1, <2>2 DEF ShapeInv
  <2> QED BY <2>4, <2>5, <2>6 DEF ShapeInv
<1>5. ASSUME NEW r \in Requests, Register(r) PROVE ShapeInv'
  <2>1. Shape(req[r])
    BY <1>5 DEF Register, At, ShapeInv
  <2>2. Ids' = Ids
    BY <1>5 DEF Register, Ids
  <2> QED BY <1>4, <1>5, <2>1, <2>2 DEF Register, Shape
<1>6. ASSUME NEW r \in Requests, CreateWorkspace(r) PROVE ShapeInv'
  <2>1. Ids' = Ids \union {req[r].row.on}
    <3>1. PICK w : w = [id |-> req[r].row.on, org |-> req[r].on, slug |-> req[r].slug]
      OBVIOUS
    <3>2. w.id = req[r].row.on /\ workspaces' = workspaces \union {w}
      BY <1>6, <3>1 DEF CreateWorkspace
    <3> QED BY <3>2 DEF Ids
  <2> QED BY <1>4, <1>6, <2>1 DEF CreateWorkspace, adminVars
<1>7. ASSUME NEW r \in Requests, AddMember(r) PROVE ShapeInv'
  <2>1. Shape(req[r])
    BY <1>7 DEF AddMember, At, ShapeInv
  <2>2. Ids' = Ids
    BY <1>7 DEF AddMember, Ids
  <2> QED BY <1>4, <1>7, <2>1, <2>2 DEF AddMember, adminVars, Shape
<1>8. ASSUME NEW r \in Requests, RemoveMember(r) PROVE ShapeInv'
  <2>1. Ids' = Ids
    BY <1>8 DEF RemoveMember, Ids
  <2> QED BY <1>4, <1>8, <2>1 DEF RemoveMember, adminVars
<1>9. CASE AdminNext /\ UNCHANGED memberVars
  BY <1>1, <1>9 DEF AdminNext, AdminBegin, AdminLoad, AdminCommit, AdminFail, memberVars
<1>10. CASE UNCHANGED vars
  BY <1>1, <1>10 DEF vars, adminVars, memberVars
<1> QED BY <1>2, <1>3, <1>5, <1>6, <1>7, <1>8, <1>9, <1>10 DEF Next, MemberNext

-----------------------------------------------------------------------------
\* Callers.

\* The effect of a removal on the rows and on their history.
LEMMA RemoveEffect ==
  ASSUME TypeOK, NEW r \in Requests, RemoveMember(r)
  PROVE  LET q == req[r]
             n == Len(removed) + 1
         IN  /\ q \in Request /\ q # None /\ q.pc = "write" /\ q.op = "remove"
             /\ Len(removed) \in Nat
             /\ \A m \in members : m = q.row \/ m \in members'
             /\ members' \subseteq members
             /\ \/ members' = members /\ removed' = removed
                \/ /\ q.row \in members
                   /\ Len(removed') = n
                   /\ \A i \in 1..Len(removed) : removed'[i] = removed[i]
                   /\ removed'[n].by = q.by /\ removed'[n].row = q.row
                   /\ removed'[n].gone = q.gone
             /\ UNCHANGED <<adminVars, orgs, workspaces>>
<1> USE DEF TypeOK, MemberTypeOK
<1>1. /\ req[r] \in Request /\ req[r] # None /\ req[r].pc = "write" /\ req[r].op = "remove"
      /\ Len(removed) \in Nat /\ members' = members \ {req[r].row}
      /\ UNCHANGED <<adminVars, orgs, workspaces>>
  BY DEF RemoveMember, At
<1>2. CASE req[r].row \notin members
  <2>1. members' = members /\ removed' = removed
    BY <1>1, <1>2 DEF RemoveMember
  <2> QED BY <1>1, <2>1
<1>3. CASE req[r].row \in members
  <2> DEFINE x == [by |-> req[r].by, row |-> req[r].row, gone |-> req[r].gone]
  <2>1. x \in Removal
    BY <1>1 DEF Request, Removal
  <2>2. removed' = Append(removed, x) /\ x.by = req[r].by /\ x.row = req[r].row
        /\ x.gone = req[r].gone
    BY <1>3 DEF RemoveMember
  <2> HIDE DEF x
  <2>3. /\ Len(removed') = Len(removed) + 1
        /\ \A i \in 1..Len(removed) : removed'[i] = removed[i]
        /\ removed'[Len(removed) + 1] = x
    BY <2>1, <2>2
  <2> QED BY <1>1, <1>3, <2>2, <2>3
<1> QED BY <1>2, <1>3

\* Rows disappear from members by removal only.
LEMMA MembersKept ==
  ASSUME TypeOK, [Next]_vars, \A r \in Requests : ~RemoveMember(r)
  PROVE  members \subseteq members' /\ removed' = removed
<1>1. ASSUME NEW r \in Requests, NEW op \in Ops, NEW by \in Users, NEW on \in Places,
             Begin(r, op, by, on)
      PROVE  members \subseteq members' /\ removed' = removed
  BY <1>1 DEF Begin, tables
<1>2. ASSUME NEW r \in Requests, Guard(r) \/ Look(r) \/ Fail(r)
      PROVE  members \subseteq members' /\ removed' = removed
  <2>1. UNCHANGED <<adminVars, tables, spent>>
    BY <1>2, GotoEffect DEF TypeOK
  <2> QED BY <2>1 DEF tables
<1>3. ASSUME NEW r \in Requests, Register(r) \/ CreateWorkspace(r) \/ AddMember(r)
      PROVE  members \subseteq members' /\ removed' = removed
  BY <1>3 DEF Register, CreateWorkspace, AddMember
<1>4. CASE UNCHANGED memberVars
  BY <1>4 DEF memberVars
<1> QED BY <1>1, <1>2, <1>3, <1>4 DEF Next, MemberNext, vars

LEMMA MemberKept ==
  ASSUME TypeOK, [Next]_vars, NEW q \in Request, q.gone <= Len(removed), Member(q)
  PROVE  Member(q)'
<1>n. Needed(q)' = Needed(q) /\ q.gone \in Nat
  BY DEF Needed, Request
<1>1. CASE members \subseteq members' /\ removed' = removed
  <2>1. Satisfies(q.by, q.on, Needed(q)) => Satisfies(q.by, q.on, Needed(q))'
    BY <1>1, <1>n DEF Satisfies, RowsOf
  <2> QED BY <1>1, <2>1 DEF Member
<1>2. ASSUME NEW r \in Requests, RemoveMember(r) PROVE Member(q)'
  <2> DEFINE p == req[r]
             n == Len(removed) + 1
  <2>1. /\ Len(removed) \in Nat
        /\ \A m \in members : m = p.row \/ m \in members'
        /\ members' \subseteq members
        /\ \/ members' = members /\ removed' = removed
           \/ /\ p.row \in members
              /\ Len(removed') = n
              /\ \A i \in 1..Len(removed) : removed'[i] = removed[i]
              /\ removed'[n].row = p.row
    BY <1>2, RemoveEffect
  <2>2. CASE members' = members /\ removed' = removed
    BY <1>1, <2>2
  <2>3. CASE /\ p.row \in members
             /\ Len(removed') = n
             /\ \A i \in 1..Len(removed) : removed'[i] = removed[i]
             /\ removed'[n].row = p.row
    <3>1. CASE \E i \in (q.gone + 1)..Len(removed) :
                 removed[i].row.on = q.on /\ removed[i].row.user = q.by
      BY <1>n, <2>1, <2>3, <3>1 DEF Member
    <3>2. CASE \E m \in RowsOf(q.by, q.on) : m.role >= Needed(q) /\ m \in members'
      BY <1>n, <3>2 DEF Member, Satisfies, RowsOf
    <3>3. CASE p.row \in RowsOf(q.by, q.on)
      <4>1. n \in (q.gone + 1)..Len(removed')
        BY <1>n, <2>1, <2>3
      <4>2. removed'[n].row.on = q.on /\ removed'[n].row.user = q.by
        BY <2>3, <3>3 DEF RowsOf
      <4> HIDE DEF n
      <4> QED BY <4>1, <4>2 DEF Member
    <3> QED BY <2>1, <3>1, <3>2, <3>3 DEF Member, Satisfies, RowsOf
  <2> QED BY <2>1, <2>2, <2>3
<1> QED BY <1>1, <1>2, MembersKept

LEMMA ActiveKept ==
  ASSUME TypeOK, [Next]_vars, NEW q \in Request, q.audited <= Len(audit), Active(q)
  PROVE  Active(q)'
<1> USE DEF TypeOK
<1>n. q.audited \in Nat /\ q.by \in Users /\ "is_active" \in Flags
  BY DEF Request, Flags
<1>1. CASE accounts \subseteq accounts' /\ UNCHANGED <<flag, audit>>
  BY <1>1 DEF Active, IsActive
<1>2. ASSUME NEW s \in AdminRequests, AdminCommit(s) PROVE Active(q)'
  <2> DEFINE p == adm[s]
             n == Len(audit) + 1
  <2>1. /\ p \in AdminRequest /\ Len(audit) \in Nat
        /\ DOMAIN audit = 1..Len(audit) /\ DOMAIN audit' = 1..n
        /\ \A i \in DOMAIN audit : audit'[i] = audit[i]
        /\ audit'[n].f = p.f /\ audit'[n].who = p.who /\ audit'[n].val = p.val
        /\ accounts' = accounts
        /\ \A f \in Flags, u \in Users :
             flag'[f][u] = IF f = p.f /\ u = p.who /\ p.val # p.seen THEN p.val ELSE flag[f][u]
    BY <1>2, CommitEffect
  <2>2. Len(audit') = n
    BY <1>2 DEF AdminCommit, AdminTypeOK
  <2>3. CASE \E i \in (q.audited + 1)..Len(audit) :
               audit[i].who = q.by /\ audit[i].f = "is_active" /\ ~audit[i].val
    BY <1>n, <2>1, <2>2, <2>3 DEF Active
  <2>4. CASE IsActive(q.by)'
    BY <2>4 DEF Active
  <2>5. CASE IsActive(q.by) /\ ~IsActive(q.by)'
    <3>1. p.f = "is_active" /\ p.who = q.by /\ ~p.val
      BY <1>n, <2>1, <2>5 DEF IsActive, AdminRequest
    <3>2. n \in (q.audited + 1)..Len(audit')
      BY <1>n, <2>1, <2>2
    <3> HIDE DEF n
    <3> QED BY <2>1, <3>1, <3>2 DEF Active
  <2> QED BY <2>3, <2>4, <2>5 DEF Active
<1>3. CASE AdminNext /\ UNCHANGED memberVars
  BY <1>1, <1>2, <1>3 DEF AdminNext, AdminBegin, AdminLoad, AdminFail
<1>4. CASE MemberNext
  <2>1. ASSUME NEW r \in Requests, Register(r)
        PROVE  accounts \subseteq accounts' /\ UNCHANGED <<flag, audit>>
    BY <2>1 DEF Register
  <2>2. ASSUME NEW r \in Requests, ~Register(r),
               \/ \E op \in Ops, by \in Users, on \in Places : Begin(r, op, by, on)
               \/ Guard(r) \/ Look(r) \/ Fail(r)
               \/ CreateWorkspace(r) \/ AddMember(r) \/ RemoveMember(r)
        PROVE  UNCHANGED adminVars
    <3>1. CASE Guard(r) \/ Look(r) \/ Fail(r)
      BY <3>1, GotoEffect
    <3>2. CASE CreateWorkspace(r) \/ AddMember(r) \/ RemoveMember(r)
      BY <3>2 DEF CreateWorkspace, AddMember, RemoveMember
    <3>3. CASE \E op \in Ops, by \in Users, on \in Places : Begin(r, op, by, on)
      BY <3>3 DEF Begin
    <3> QED BY <2>2, <3>1, <3>2, <3>3
  <2>3. accounts \subseteq accounts' /\ UNCHANGED <<flag, audit>>
    BY <1>4, <2>1, <2>2 DEF MemberNext, adminVars
  <2> QED BY <1>1, <2>3
<1>5. CASE UNCHANGED vars
  BY <1>1, <1>5 DEF vars, adminVars
<1> QED BY <1>3, <1>4, <1>5 DEF Next

\* Histories only grow.
LEMMA HistoriesGrow ==
  ASSUME TypeOK, TypeOK', [Next]_vars
  PROVE  /\ {Len(removed), Len(removed'), Len(audit), Len(audit')} \subseteq Nat
         /\ Len(removed) <= Len(removed') /\ Len(audit) <= Len(audit')
<1>0. {Len(removed), Len(removed'), Len(audit), Len(audit')} \subseteq Nat
  BY DEF TypeOK, MemberTypeOK, AdminTypeOK
<1>1. Len(removed) <= Len(removed')
  <2>1. ASSUME NEW r \in Requests, RemoveMember(r) PROVE Len(removed) <= Len(removed')
    BY <1>0, <2>1, RemoveEffect
  <2> QED BY <1>0, <2>1, MembersKept
<1>2. Len(audit) <= Len(audit')
  <2>1. ASSUME NEW s \in AdminRequests, AdminCommit(s) PROVE Len(audit) <= Len(audit')
    BY <1>0, <2>1 DEF AdminCommit, TypeOK, AdminTypeOK
  <2>2. CASE AdminNext
    BY <1>0, <2>1, <2>2 DEF AdminNext, AdminBegin, AdminLoad, AdminFail
  <2>3. ASSUME NEW r \in Requests, Guard(r) \/ Look(r) \/ Fail(r) PROVE audit' = audit
    BY <2>3, GotoEffect DEF adminVars, TypeOK
  <2>4. ASSUME NEW r \in Requests,
               \/ \E op \in Ops, by \in Users, on \in Places : Begin(r, op, by, on)
               \/ Register(r) \/ CreateWorkspace(r) \/ AddMember(r) \/ RemoveMember(r)
        PROVE  audit' = audit
    BY <2>4 DEF Begin, Register, CreateWorkspace, AddMember, RemoveMember, adminVars
  <2> QED BY <1>0, <2>2, <2>3, <2>4 DEF Next, MemberNext, vars, adminVars
<1> QED BY <1>0, <1>1, <1>2

LEMMA HoldsKept ==
  ASSUME TypeOK, TypeOK', [Next]_vars, NEW q \in Request, Holds(q)
  PROVE  Holds(q)'
<1>1. q.gone \in Nat /\ q.audited \in Nat
  BY DEF Request
<1>2. q.gone <= Len(removed') /\ q.audited <= Len(audit')
  BY <1>1, HistoriesGrow DEF Holds
<1> QED BY <1>2, ActiveKept, MemberKept DEF Holds

LEMMA CallerStep ==
  ASSUME TypeOK, TypeOK', CallerInv, [Next]_vars
  PROVE  CallerInv'
<1>0. ASSUME NEW q \in Request, \E r \in Requests : req[r] = q, q # None PROVE Holds(q)'
  BY <1>0, HoldsKept DEF CallerInv
<1>t. req \in [Requests -> Request \union {None}] /\ req' \in [Requests -> Request \union {None}]
  BY DEF TypeOK, MemberTypeOK
<1>1. ASSUME NEW s \in Requests, (req[s] # None)', req'[s] = req[s] PROVE Holds(req[s])'
  <2>1. PICK q \in Request : q = req[s]
    BY <1>1, <1>t
  <2>2. Holds(q)'
    BY <1>0, <1>1, <2>1
  <2>3. q = req'[s]
    BY <1>1, <2>1
  <2> QED BY <2>2, <2>3 DEF Holds, Active, Member, Satisfies, RowsOf, Needed
<1>2. ASSUME NEW r \in Requests, NEW op \in Ops, NEW by \in Users, NEW on \in Places,
             Begin(r, op, by, on)
      PROVE  CallerInv'
  <2>1. PICK q \in Request :
          /\ req' = [req EXCEPT ![r] = q]
          /\ q.op = op /\ q.by = by
          /\ q.pc = (IF op = "register" THEN "look" ELSE "guard")
          /\ q.gone = Len(removed) /\ q.audited = Len(audit)
          /\ op # "register" => IsActive(by)
          /\ UNCHANGED <<adminVars, tables>>
    BY <1>2, BeginEffect
  <2>2. UNCHANGED <<accounts, flag, audit, removed>>
    BY <2>1 DEF adminVars, tables
  <2>3. Len(removed) \in Nat /\ Len(audit) \in Nat
    BY HistoriesGrow
  <2>4. Holds(q)'
    BY <2>1, <2>2, <2>3 DEF Holds, Active, IsActive
  <2>5. req'[r] = q
    BY <2>1, <1>t
  <2>6. Holds(req[r])'
    BY <2>4, <2>5 DEF Holds, Active, Member, Satisfies, RowsOf, Needed
  <2>7. \A s \in Requests : s # r => req'[s] = req[s]
    BY <2>1, <1>t
  <2> QED BY <1>1, <2>6, <2>7 DEF CallerInv
<1>3. ASSUME NEW r \in Requests, Guard(r) \/ Look(r) \/ Fail(r) PROVE CallerInv'
  <2>1. req[r] \in Request /\ req[r] # None /\ UNCHANGED <<adminVars, tables, spent>>
    BY <1>3, GotoEffect DEF TypeOK
  <2>2. \A s \in Requests : s # r => req'[s] = req[s]
    BY <1>3, <1>t, GotoEffect DEF TypeOK
  <2>3. CASE req' = [req EXCEPT ![r] = None]
    BY <1>1, <1>t, <2>2, <2>3 DEF CallerInv
  <2>4. ASSUME NEW n \in Nat, NEW label \in {"look", "write"},
               req' = [req EXCEPT ![r] = [req[r] EXCEPT !.pc = label, !.slug = n]],
               IF label = "look" THEN Guard(r) ELSE req[r].pc = "look"
        PROVE  Holds(req[r])'
    <3>1. PICK q \in Request : q = req[r]
      BY <2>1
    <3>2. PICK p \in Request : p = req'[r]
      BY <2>4, <2>1, <1>t DEF Request
    <3>3. /\ p.op = q.op /\ p.by = q.by /\ p.on = q.on /\ p.gone = q.gone
          /\ p.audited = q.audited
      BY <2>4, <1>t, <3>1, <3>2 DEF Request
    <3>4. Holds(q)
      BY <2>1, <3>1 DEF CallerInv
    <3>5. Needed(p) = Needed(q)
      BY <3>3 DEF Needed
    <3>6. q.op # "register" => Member(q)
      <4>1. CASE label = "look"
        BY <2>4, <3>1, <4>1 DEF Guard, Member
      <4>2. CASE label # "look"
        BY <2>4, <3>1, <3>4, <4>2 DEF Holds
      <4> QED BY <4>1, <4>2
    <3>7. Holds(p)
      BY <3>3, <3>4, <3>5, <3>6 DEF Holds, Active, Member
    <3>8. Holds(p)'
      BY <3>7, HoldsKept
    <3> QED BY <3>2, <3>8 DEF Holds, Active, Member, Satisfies, RowsOf, Needed
  <2>5. CASE req' # [req EXCEPT ![r] = None]
    <3>1. PICK n \in Nat, label \in {"look", "write"} :
            /\ req' = [req EXCEPT ![r] = [req[r] EXCEPT !.pc = label, !.slug = n]]
            /\ IF label = "look" THEN Guard(r) ELSE req[r].pc = "look"
      BY <1>3, <2>5, GotoEffect DEF TypeOK
    <3>2. Holds(req[r])'
      BY <2>4, <3>1
    <3> QED BY <1>1, <2>2, <3>2 DEF CallerInv
  <2> QED BY <2>3, <2>5
<1>4. ASSUME NEW r \in Requests, req' = [req EXCEPT ![r] = None] PROVE CallerInv'
  <2>1. \A s \in Requests : req'[s] # None => req'[s] = req[s]
    BY <1>4, <1>t
  <2> QED BY <1>1, <2>1 DEF CallerInv
<1>5. CASE req' = req
  BY <1>1, <1>5 DEF CallerInv
<1>6. ASSUME NEW r \in Requests,
             Register(r) \/ CreateWorkspace(r) \/ AddMember(r) \/ RemoveMember(r)
      PROVE  CallerInv'
  BY <1>4, <1>6 DEF Register, CreateWorkspace, AddMember, RemoveMember
<1> QED BY <1>2, <1>3, <1>5, <1>6 DEF Next, MemberNext, vars, memberVars

-----------------------------------------------------------------------------
\* Steps other than the four writers leave the tables alone.
LEMMA TablesKept ==
  ASSUME TypeOK, [Next]_vars,
         \A r \in Requests : ~ (Register(r) \/ CreateWorkspace(r) \/ AddMember(r) \/ RemoveMember(r))
  PROVE  UNCHANGED <<accounts, orgs, workspaces, members, removed>>
<1>1. CASE AdminNext /\ UNCHANGED memberVars
  BY <1>1 DEF AdminNext, AdminBegin, AdminLoad, AdminCommit, AdminFail, memberVars
<1>2. ASSUME NEW r \in Requests, NEW op \in Ops, NEW by \in Users, NEW on \in Places,
             Begin(r, op, by, on)
      PROVE  UNCHANGED <<accounts, orgs, workspaces, members, removed>>
  BY <1>2 DEF Begin, adminVars, tables
<1>3. ASSUME NEW r \in Requests, Guard(r) \/ Look(r) \/ Fail(r)
      PROVE  UNCHANGED <<accounts, orgs, workspaces, members, removed>>
  <2>1. UNCHANGED <<adminVars, tables, spent>>
    BY <1>3, GotoEffect DEF TypeOK
  <2> QED BY <2>1 DEF adminVars, tables
<1>4. CASE UNCHANGED vars
  BY <1>4 DEF vars, adminVars, memberVars
<1> QED BY <1>1, <1>2, <1>3, <1>4 DEF Next, MemberNext

LEMMA UniqueStep ==
  ASSUME TypeOK, ShapeInv, UniqueRows, [Next]_vars
  PROVE  UniqueRows'
<1> USE DEF UniqueRows
<1>0. accounts \subseteq Users /\ Users \intersect Workspaces = {} /\ DOMAIN orgs = accounts
  BY MemberAssumption DEF TypeOK, AdminTypeOK, MemberTypeOK
<1>1. ASSUME NEW r \in Requests, Register(r) PROVE UniqueRows'
  <2> DEFINE q == req[r]
  <2>1. q.row.on = q.by /\ q.row.user = q.by /\ q.by \in Users
    BY <1>1 DEF Register, At, ShapeInv, Shape, TypeOK, MemberTypeOK, Request
  <2>2. \A m \in members : m.on # q.by
    BY <1>0, <1>1, <2>1 DEF Register, ShapeInv, Ids, TypeOK, MemberTypeOK
  <2>3. \A f \in accounts : orgs[f] # q.slug
    BY <1>0, <1>1 DEF Register, OrgSlugs
  <2>4. /\ accounts' = accounts \union {q.by} /\ workspaces' = workspaces
        /\ members' = members \union {q.row} /\ q.by \notin accounts
        /\ \A f \in accounts' : orgs'[f] = IF f = q.by THEN q.slug ELSE orgs[f]
    BY <1>0, <1>1 DEF Register
  <2> HIDE DEF q
  <2>5. \A f, g \in accounts' : orgs'[f] = orgs'[g] => f = g
    BY <2>3, <2>4
  <2>6. \A m, n \in members' : m.on = n.on /\ m.user = n.user => m = n
    BY <2>1, <2>2, <2>4
  <2> QED BY <2>4, <2>5, <2>6
<1>2. ASSUME NEW r \in Requests, CreateWorkspace(r) PROVE UniqueRows'
  <2> DEFINE q == req[r]
             w == [id |-> q.row.on, org |-> q.on, slug |-> q.slug]
  <2>1. q.row.on \in Workspaces \ Ids
    BY <1>2 DEF CreateWorkspace, At, ShapeInv, Shape
  <2>2. \A m \in members : m.on # q.row.on
    BY <1>0, <2>1 DEF ShapeInv
  <2>3. \A v \in workspaces : ~ (v.org = q.on /\ v.slug = q.slug)
    BY <1>2 DEF CreateWorkspace, WsSlugs
  <2>4. /\ UNCHANGED <<accounts, orgs>> /\ workspaces' = workspaces \union {w}
        /\ members' = members \union {q.row} /\ w.org = q.on /\ w.slug = q.slug
    BY <1>2 DEF CreateWorkspace, adminVars
  <2> HIDE DEF q, w
  <2>5. \A v, x \in workspaces' : v.org = x.org /\ v.slug = x.slug => v = x
    BY <2>3, <2>4
  <2>6. \A m, n \in members' : m.on = n.on /\ m.user = n.user => m = n
    BY <2>2, <2>4
  <2> QED BY <2>4, <2>5, <2>6
<1>3. ASSUME NEW r \in Requests, AddMember(r) PROVE UniqueRows'
  <2>1. req[r].row.on = req[r].on
    BY <1>3 DEF AddMember, At, ShapeInv, Shape
  <2>2. \A m \in members : ~ (m.on = req[r].row.on /\ m.user = req[r].row.user)
    BY <1>3, <2>1 DEF AddMember, RowsOf
  <2> QED BY <1>3, <2>2 DEF AddMember, adminVars
<1>4. ASSUME NEW r \in Requests, RemoveMember(r) PROVE UniqueRows'
  BY <1>4 DEF RemoveMember, adminVars
<1> QED BY <1>1, <1>2, <1>3, <1>4, TablesKept

\* Nothing disturbs what the history says of a workspace.
LEMMA OwnersStep ==
  ASSUME TypeOK, ShapeInv, CallerInv, OwnersRemain, [Next]_vars
  PROVE  OwnersRemain'
<1>1. CASE members \subseteq members' /\ removed' = removed /\ workspaces' = workspaces
  BY <1>1 DEF OwnersRemain
<1>2. ASSUME NEW r \in Requests, CreateWorkspace(r) PROVE OwnersRemain'
  <2>1. req[r].row.role = Owner
    BY <1>2 DEF CreateWorkspace, At, ShapeInv, Shape
  <2>2. PICK w : w = [id |-> req[r].row.on, org |-> req[r].on, slug |-> req[r].slug]
    OBVIOUS
  <2>3. /\ w.id = req[r].row.on /\ workspaces' = workspaces \union {w}
        /\ members' = members \union {req[r].row} /\ removed' = removed
    BY <1>2, <2>2 DEF CreateWorkspace
  <2> QED BY <2>1, <2>3 DEF OwnersRemain
<1>3. ASSUME NEW r \in Requests, RemoveMember(r) PROVE OwnersRemain'
  <2> DEFINE q == req[r]
             n == Len(removed) + 1
  <2>1. /\ q \in Request /\ q # None /\ q.pc = "write" /\ q.op = "remove"
        /\ Len(removed) \in Nat
        /\ \A m \in members : m = q.row \/ m \in members'
        /\ \/ members' = members /\ removed' = removed
           \/ /\ q.row \in members
              /\ Len(removed') = n
              /\ \A i \in 1..Len(removed) : removed'[i] = removed[i]
              /\ removed'[n].by = q.by /\ removed'[n].row = q.row
              /\ removed'[n].gone = q.gone
        /\ workspaces' = workspaces
    BY <1>3, RemoveEffect
  <2>2. CASE members' = members /\ removed' = removed
    BY <1>1, <2>1, <2>2
  <2>3. CASE /\ q.row \in members
             /\ Len(removed') = n
             /\ \A i \in 1..Len(removed) : removed'[i] = removed[i]
             /\ removed'[n].by = q.by /\ removed'[n].row = q.row
             /\ removed'[n].gone = q.gone
    <3>d. /\ DOMAIN removed = 1..Len(removed) /\ DOMAIN removed' = 1..n
      <4>1. TypeOK'
        BY MemberTypeStep
      <4> QED BY <2>3, <4>1 DEF TypeOK, MemberTypeOK
    <3> SUFFICES ASSUME NEW w \in workspaces, ~ \E m \in members' : m.on = w.id /\ m.role = Owner
        PROVE \E i \in DOMAIN removed' :
                /\ removed'[i].row.on = w.id
                /\ \/ removed'[i].by = removed'[i].row.user
                   \/ \E k \in (removed'[i].gone + 1)..(i - 1) :
                        removed'[k].row.on = w.id /\ removed'[k].row.user = removed'[i].by
      BY <2>1 DEF OwnersRemain
    <3>1. CASE \E m \in members : m.on = w.id /\ m.role = Owner
      <4>1. q.row.on = w.id /\ q.on = w.id
        BY <2>1, <3>1 DEF ShapeInv, Shape
      <4>2. w.id \in Workspaces /\ w.id \notin Users /\ q.gone \in Nat
        BY <2>1, MemberAssumption DEF TypeOK, MemberTypeOK, Request
      <4>3. Needed(q) = Owner /\ Member(q) /\ q.gone <= Len(removed)
        BY <2>1, <4>1, <4>2 DEF Needed, CallerInv, Holds
      <4>4. CASE Satisfies(q.by, q.on, Owner)
        <5>1. PICK m \in members : m.on = w.id /\ m.user = q.by /\ m.role >= Owner
          BY <4>1, <4>4 DEF Satisfies, RowsOf
        <5>2. m.role = Owner
          BY <5>1 DEF TypeOK, MemberTypeOK, MemberRow, Owner
        <5>3. m = q.row
          BY <2>1, <5>1, <5>2
        <5>4. n \in DOMAIN removed' /\ removed'[n].row.on = w.id
              /\ removed'[n].by = removed'[n].row.user
          BY <2>1, <2>3, <3>d, <5>1, <5>3
        <5> HIDE DEF n
        <5> QED BY <5>4
      <4>5. CASE \E k \in (q.gone + 1)..Len(removed) :
                   removed[k].row.on = q.on /\ removed[k].row.user = q.by
        <5>1. PICK k \in (q.gone + 1)..Len(removed) :
                removed[k].row.on = q.on /\ removed[k].row.user = q.by
          BY <4>5
        <5>2. /\ n \in DOMAIN removed' /\ removed'[n].row.on = w.id
              /\ k \in (removed'[n].gone + 1)..(n - 1)
              /\ removed'[k].row.on = w.id /\ removed'[k].row.user = removed'[n].by
          BY <2>1, <2>3, <3>d, <4>1, <4>2, <5>1
        <5> HIDE DEF n
        <5> QED BY <5>2
      <4> QED BY <4>3, <4>4, <4>5 DEF Member
    <3>2. CASE ~ \E m \in members : m.on = w.id /\ m.role = Owner
      <4>1. PICK i \in DOMAIN removed :
              /\ removed[i].row.on = w.id
              /\ \/ removed[i].by = removed[i].row.user
                 \/ \E k \in (removed[i].gone + 1)..(i - 1) :
                      removed[k].row.on = w.id /\ removed[k].row.user = removed[i].by
        BY <3>2 DEF OwnersRemain
      <4>2. i \in DOMAIN removed' /\ removed'[i] = removed[i] /\ removed[i].gone \in Nat
        <5>1. i \in 1..Len(removed) /\ removed'[i] = removed[i] /\ i \in 1..n
          BY <2>1, <2>3, <3>d
        <5>2. removed[i] \in Removal
          BY <5>1 DEF TypeOK, MemberTypeOK
        <5> QED BY <3>d, <5>1, <5>2 DEF Removal
      <4>3. \A k \in (removed[i].gone + 1)..(i - 1) : removed'[k] = removed[k]
        BY <2>1, <2>3, <3>d, <4>1, <4>2
      <4> QED BY <4>1, <4>2, <4>3
    <3> QED BY <3>1, <3>2
  <2> QED BY <2>1, <2>2, <2>3
<1>4. ASSUME NEW r \in Requests, Register(r) \/ AddMember(r) PROVE OwnersRemain'
  BY <1>1, <1>4 DEF Register, AddMember
<1> QED BY <1>1, <1>2, <1>3, <1>4, TablesKept

-----------------------------------------------------------------------------
LEMMA MembershipInvariant ==
  Spec => [](TypeOK /\ ShapeInv /\ CallerInv /\ UniqueRows /\ OwnersRemain)
<1>1. TypeOK /\ ShapeInv /\ CallerInv /\ [Next]_vars => CallerInv'
  BY MemberTypeStep, CallerStep
<1>2. TypeOK /\ ShapeInv /\ CallerInv /\ OwnersRemain /\ [Next]_vars => OwnersRemain'
  BY OwnersStep
<1>3. TypeOK /\ ShapeInv /\ UniqueRows /\ [Next]_vars => UniqueRows'
  BY UniqueStep
<1> QED BY <1>1, <1>2, <1>3, MemberInitAll, MemberTypeStep, ShapeStep, PTL DEF Spec

\* Every row has its type; accounts and organizations come together.
THEOREM MemberTypeCorrect == Spec => []MemberTypeOK
<1>1. TypeOK => MemberTypeOK
  BY DEF TypeOK
<1> QED BY <1>1, MembershipInvariant, PTL

\* Slugs and memberships stay unique, whatever the requests had looked up.
THEOREM RowsUnique == Spec => []UniqueRows
BY MembershipInvariant, PTL

\* A workspace loses its last owner only by the owner's own removal, or by
\* removals that overlapped.
THEOREM OwnersStay == Spec => []OwnersRemain
BY MembershipInvariant, PTL

-----------------------------------------------------------------------------
\* What one request may change of the memberships.
Entrusted(q, changed) ==
  CASE q.op = "register" -> \A m \in changed : m.on = q.by /\ q.by \notin accounts
    [] q.op = "create"   -> /\ \A m \in changed : m.on \notin Ids /\ m.user = q.by
                            /\ changed # {} => Entitled(q)
    [] OTHER             -> /\ \A m \in changed : m.on = q.on
                            /\ changed # {} => Entitled(q)

LEMMA EntrustedStep ==
  ASSUME TypeOK, ShapeInv, CallerInv, [Next]_vars,
         NEW r \in Requests, req[r] # None, req'[r] = None
  PROVE  Entrusted(req[r], (members \ members') \union (members' \ members))
<1> DEFINE q == req[r]
           changed == (members \ members') \union (members' \ members)
<1>1. CASE members' = members
  BY <1>1 DEF Entrusted
<1>t. q \in Request /\ Shape(q) /\ Holds(q)
  BY DEF TypeOK, MemberTypeOK, ShapeInv, CallerInv
<1>e. q.pc = "write" /\ q.op # "register" => Entitled(q)
  BY <1>t DEF Holds, Active, Member, Entitled
<1>2. ASSUME NEW s \in Requests,
             Register(s) \/ CreateWorkspace(s) \/ AddMember(s) \/ RemoveMember(s)
      PROVE  s = r
  <2>1. req' = [req EXCEPT ![s] = None]
    BY <1>2 DEF Register, CreateWorkspace, AddMember, RemoveMember
  <2> QED BY <2>1 DEF TypeOK, MemberTypeOK
<1>3. CASE Register(r)
  <2>1. q.op = "register" /\ q.by \notin accounts /\ changed \subseteq {q.row}
    BY <1>3 DEF Register
  <2> QED BY <1>t, <2>1 DEF Entrusted, Shape
<1>4. CASE CreateWorkspace(r)
  <2>1. q.op = "create" /\ q.pc = "write" /\ changed \subseteq {q.row}
    BY <1>4 DEF CreateWorkspace, At
  <2> QED BY <1>t, <1>e, <2>1 DEF Entrusted, Shape
<1>5. CASE AddMember(r)
  <2>1. q.op = "add" /\ q.pc = "write" /\ changed \subseteq {q.row}
    BY <1>5 DEF AddMember, At
  <2> QED BY <1>t, <1>e, <2>1 DEF Entrusted, Shape
<1>6. CASE RemoveMember(r)
  <2>1. q.op = "remove" /\ q.pc = "write" /\ changed \subseteq {q.row}
    BY <1>6 DEF RemoveMember, At
  <2> QED BY <1>t, <1>e, <2>1 DEF Entrusted, Shape
<1> QED BY <1>1, <1>2, <1>3, <1>4, <1>5, <1>6, TablesKept

\* Memberships change only on the place a request is about, and only by a
\* caller entitled to it.
THEOREM ChangesEntitled == Spec => MembersChangedByEntitled
<1>1. TypeOK /\ ShapeInv /\ CallerInv /\ [Next]_vars =>
        [\A r \in Requests :
           LET q == req[r]
               changed == (members \ members') \union (members' \ members) IN
           (q # None /\ req'[r] = None) =>
             CASE q.op = "register" -> \A m \in changed : m.on = q.by /\ q.by \notin accounts
               [] q.op = "create"   -> /\ \A m \in changed : m.on \notin Ids /\ m.user = q.by
                                       /\ changed # {} => Entitled(q)
               [] OTHER             -> /\ \A m \in changed : m.on = q.on
                                       /\ changed # {} => Entitled(q)]_<<members, req>>
  BY EntrustedStep DEF Entrusted
<1> QED BY <1>1, MembershipInvariant, PTL DEF MembersChangedByEntitled, Spec

=============================================================================
