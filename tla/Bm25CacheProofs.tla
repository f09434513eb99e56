--------------------------- MODULE Bm25CacheProofs ---------------------------
(***************************************************************************)
(* Theorems about Bm25Cache for any workspaces, chunks, processes,         *)
(* concurrent searches and writers, and any size of the caches.            *)
(***************************************************************************)
EXTENDS Bm25Cache, FiniteSetTheorems, TLAPS

Live(chunks) == chunks \ retired

Types ==
  /\ ContentTypeOK
  /\ SearchTypeOK
  /\ entry \in [Procs -> [Workspaces -> Entries \union {None}]]

\* The rows of two workspaces are disjoint, none of them is retired, and the
\* row a deletion is about to remove is there unless another removed it.
RowsInv ==
  /\ \A v, w \in Workspaces : v # w => rows[v] \intersect rows[w] = {}
  /\ \A w \in Workspaces :
       /\ rows[w] \intersect retired = {}
       /\ announced[w] \subseteq rows[w] \union retired
  /\ \A x \in Writers :
       wpc[x] = "remove" => victim[x] \in Chunks /\ victim[x] \in rows[target[x]] \union retired

\* What an index must contain to serve the current version of a workspace.
Current(w, v, chunks) ==
  /\ v <= version[w]
  /\ v = version[w] => Live(announced[w]) \subseteq chunks

\* Indexes that are cached, or loaded and about to be.
IndexInv ==
  /\ \A p \in Procs : \A w \in Workspaces :
       entry[p][w] # None => Current(w, entry[p][w].version, entry[p][w].chunks)
  /\ \A s \in Searches : pc[s] = "put" => Current(scope[s], ver[s], hits[s])

\* A search that has read a version may use any index of that version, even
\* one that a slower search stores after the version has moved on.
SearchInv(s) ==
  /\ pc[s] # "idle" => Live(since[s]) \subseteq announced[scope[s]]
  /\ pc[s] \in {"lookup", "load"} => ver[s] <= version[scope[s]]
  /\ pc[s] = "lookup" =>
       /\ LET e == entry[Proc(s)][scope[s]] IN
            e # None /\ e.version = ver[s] => Live(since[s]) \subseteq e.chunks
       /\ \A t \in Searches :
            pc[t] = "put" /\ scope[t] = scope[s] /\ ver[t] = ver[s] =>
              Live(since[s]) \subseteq hits[t]
  /\ pc[s] \in {"put", "fetch"} => Live(since[s]) \subseteq hits[s]
  /\ pc[s] = "done" => Live(since[s]) \subseteq context[s]

CacheInv == Types /\ RowsInv /\ IndexInv /\ \A s \in Searches : SearchInv(s)

-----------------------------------------------------------------------------
(* The writers.                                                            *)

\* What a writer does, as far as readers are concerned.
WriteStep ==
  /\ retired \subseteq retired'
  /\ \A w \in Workspaces :
       /\ announced[w] \ retired' \subseteq announced'[w]
       /\ version[w] <= version'[w]
       /\ version'[w] = version[w] => announced'[w] = announced[w]

LEMMA BumpStep ==
  ASSUME Types, RowsInv, NEW w \in Workspaces, Bump(w), UNCHANGED <<rows, retired>>
  PROVE  /\ WriteStep
         /\ version' \in [Workspaces -> Nat]
         /\ announced' \in [Workspaces -> SUBSET Chunks]
         /\ \A v \in Workspaces : announced'[v] \subseteq rows[v] \union retired
BY DEF Bump, Types, ContentTypeOK, RowsInv, WriteStep

LEMMA Writing ==
  ASSUME Types, RowsInv, NEW x \in Writers, Write(x)
  PROVE  WriteStep /\ ContentTypeOK' /\ RowsInv'
<1>1. CASE IngestCommit(x)
  <2>1. PICK w \in Workspaces, c \in Chunks, old \in SUBSET Chunks :
          /\ Unused(c) /\ old \subseteq rows[w]
          /\ rows' = [rows EXCEPT ![w] = (@ \ old) \union {c}]
          /\ retired' = retired \union old
          /\ target' = [target EXCEPT ![x] = w]
    BY <1>1 DEF IngestCommit
  <2>2. ContentTypeOK'
    BY <1>1, <2>1 DEF IngestCommit, Types, ContentTypeOK, redis
  <2>3. WriteStep
    BY <1>1, <2>1 DEF IngestCommit, WriteStep, redis, Types, ContentTypeOK
  <2>4. rows' \in [Workspaces -> SUBSET Chunks] /\ \A v \in Workspaces : v # w => rows'[v] = rows[v]
    BY <2>1, <2>2 DEF Types, ContentTypeOK
  <2>5. rows'[w] = (rows[w] \ old) \union {c}
    BY <2>1 DEF Types, ContentTypeOK
  <2>6. \A v \in Workspaces :
          /\ rows'[v] \intersect retired' = {}
          /\ announced'[v] \subseteq rows'[v] \union retired'
    BY <1>1, <2>1, <2>4, <2>5 DEF IngestCommit, RowsInv, Unused
  <2>7. \A u, v \in Workspaces : u # v => rows'[u] \intersect rows'[v] = {}
    BY <2>1, <2>4, <2>5 DEF RowsInv, Unused
  <2>8. \A y \in Writers : wpc'[y] = "remove" =>
          victim'[y] \in Chunks /\ victim'[y] \in rows'[target'[y]] \union retired'
    <3> SUFFICES ASSUME NEW y \in Writers, wpc'[y] = "remove"
                 PROVE  victim'[y] \in Chunks /\ victim'[y] \in rows'[target'[y]] \union retired'
      OBVIOUS
    <3>1. y # x /\ wpc[y] = "remove" /\ target'[y] = target[y] /\ victim'[y] = victim[y]
      BY <1>1, <2>1 DEF IngestCommit, Types, ContentTypeOK
    <3>2. target[y] \in Workspaces
      BY DEF Types, ContentTypeOK
    <3> QED BY <2>1, <2>4, <2>5, <3>1, <3>2 DEF RowsInv
  <2> QED BY <2>2, <2>3, <2>6, <2>7, <2>8 DEF RowsInv
<1>2. CASE IngestBump(x)
  <2>1. target[x] \in Workspaces
    BY DEF Types, ContentTypeOK
  <2> QED
    BY <1>2, <2>1, BumpStep DEF IngestBump, Types, ContentTypeOK, RowsInv
<1>3. CASE WriterFail(x)
  BY <1>3 DEF WriterFail, Types, ContentTypeOK, RowsInv, WriteStep, content, redis
<1>4. CASE DeleteBump(x)
  <2>1. PICK w \in Workspaces : \E c \in rows[w] :
          /\ Bump(w)
          /\ target' = [target EXCEPT ![x] = w]
          /\ victim' = [victim EXCEPT ![x] = c]
    BY <1>4 DEF DeleteBump
  <2>2. PICK c \in rows[w] :
          /\ Bump(w)
          /\ target' = [target EXCEPT ![x] = w]
          /\ victim' = [victim EXCEPT ![x] = c]
    BY <2>1
  <2>3. c \in Chunks
    BY <2>2 DEF Types, ContentTypeOK
  <2> QED
    BY <1>4, <2>2, <2>3, BumpStep DEF DeleteBump, Types, ContentTypeOK, RowsInv
<1>5. CASE DeleteCommit(x)
  <2>1. target[x] \in Workspaces /\ victim[x] \in Chunks
        /\ victim[x] \in rows[target[x]] \union retired
    BY <1>5 DEF DeleteCommit, Types, ContentTypeOK, RowsInv
  <2>2. ContentTypeOK'
    BY <1>5, <2>1 DEF DeleteCommit, Types, ContentTypeOK, redis
  <2>3. WriteStep
    BY <1>5, <2>1 DEF DeleteCommit, WriteStep, redis, Types, ContentTypeOK
  <2>4. RowsInv'
    BY <1>5, <2>1 DEF DeleteCommit, Types, ContentTypeOK, RowsInv
  <2> QED BY <2>2, <2>3, <2>4
<1> QED BY <1>1, <1>2, <1>3, <1>4, <1>5 DEF Write

LEMMA WritingKeepsInvariant ==
  ASSUME CacheInv, NEW x \in Writers, Write(x)
  PROVE  CacheInv'
<1>1. WriteStep /\ ContentTypeOK' /\ RowsInv'
  BY Writing DEF CacheInv
<1>2. UNCHANGED <<caches, pc, search>>
  BY DEF Write, IngestCommit, IngestBump, WriterFail, DeleteBump, DeleteCommit
<1>3. Types'
  BY <1>1, <1>2 DEF CacheInv, Types, SearchTypeOK, caches, search
<1>4. \A w \in Workspaces, v \in Nat, c \in SUBSET Chunks :
        Current(w, v, c) => Current(w, v, c)'
  <2> TAKE w \in Workspaces, v \in Nat, c \in SUBSET Chunks
  <2>1. version[w] \in Nat /\ version'[w] \in Nat /\ version[w] <= version'[w]
    BY <1>1 DEF WriteStep, CacheInv, Types, ContentTypeOK
  <2>2. v <= version[w] => v <= version'[w] /\ (v = version'[w] => version'[w] = version[w])
    BY <2>1
  <2>3. version'[w] = version[w] => Live(announced[w])' \subseteq Live(announced[w])
    BY <1>1 DEF WriteStep, Live
  <2> QED BY <2>2, <2>3 DEF Current
<1>5. IndexInv'
  BY <1>2, <1>4 DEF IndexInv, CacheInv, Types, SearchTypeOK, Entries, caches, search
<1>6. ASSUME NEW s \in Searches PROVE SearchInv(s)'
  <2>1. SearchInv(s) /\ scope[s] \in Workspaces /\ ver[s] \in Nat
    BY DEF CacheInv, Types, SearchTypeOK
  <2>2. version[scope[s]] \in Nat /\ version'[scope[s]] \in Nat
    BY <1>1, <2>1 DEF CacheInv, Types, ContentTypeOK
  <2> QED
    BY <1>1, <1>2, <2>1, <2>2 DEF WriteStep, SearchInv, Live, caches, search
<1> QED BY <1>1, <1>3, <1>5, <1>6 DEF CacheInv

-----------------------------------------------------------------------------
(* The searches.                                                           *)

LEMMA SearchingKeepsTypes ==
  ASSUME Types, NEW s \in Searches, Search(s)
  PROVE  Types' /\ UNCHANGED <<content, redis, writers>>
<1>0. UNCHANGED <<content, redis, writers>>
  BY DEF Search, Begin, GetVersion, Lookup, Load, Put, Fetch, Abandon
<1>1. ContentTypeOK'
  BY <1>0 DEF Types, ContentTypeOK, content, redis, writers
<1>2. Proc(s) \in Procs /\ scope[s] \in Workspaces
  BY DEF Types, SearchTypeOK, Proc, Searches
<1>3. SearchTypeOK'
  <2>1. CASE Begin(s)
    BY <2>1 DEF Begin, Goto, Label, Types, ContentTypeOK, SearchTypeOK
  <2>4. CASE GetVersion(s)
    BY <2>4, <1>2 DEF GetVersion, Goto, Label, Types, ContentTypeOK, SearchTypeOK
  <2>5. CASE Load(s)
    BY <2>5, <1>2 DEF Load, Goto, Label, Types, ContentTypeOK, SearchTypeOK
  <2>6. CASE Put(s)
    BY <2>6 DEF Put, Goto, Label, Types, SearchTypeOK, search
  <2>7. CASE Abandon(s)
    BY <2>7 DEF Abandon, Forget, Goto, Label, Types, SearchTypeOK
  <2>2. CASE Lookup(s)
    <3>1. entry[Proc(s)][scope[s]] # None => entry[Proc(s)][scope[s]].chunks \in SUBSET Chunks
      BY <1>2 DEF Types, Entries
    <3>2. hits' \in [Searches -> SUBSET Chunks]
      BY <2>2, <3>1 DEF Lookup, Types, SearchTypeOK
    <3>3. pc' \in [Searches -> Label]
      BY <2>2 DEF Lookup, Goto, Label, Types, SearchTypeOK
    <3> QED BY <2>2, <3>2, <3>3 DEF Lookup, Types, SearchTypeOK
  <2>3. CASE Fetch(s)
    BY <2>3, <1>2 DEF Fetch, Found, Forget, Goto, Label, Types, ContentTypeOK, SearchTypeOK
  <2> QED BY <2>1, <2>2, <2>3, <2>4, <2>5, <2>6, <2>7 DEF Search
<1>4. entry' \in [Procs -> [Workspaces -> Entries \union {None}]]
  <2>1. CASE Put(s)
    <3>1. NewEntry(s) \in Entries
      BY DEF NewEntry, Entries, Types, SearchTypeOK
    <3> QED BY <2>1, <3>1, <1>2 DEF Put, Types
  <2>2. CASE ~Put(s)
    BY <2>2 DEF Search, Begin, GetVersion, Lookup, Load, Fetch, Abandon, caches, Types
  <2> QED BY <2>1, <2>2
<1> QED BY <1>0, <1>1, <1>3, <1>4 DEF Types

\* A search leaves the other searches alone.
LEMMA OnlyOneSearches ==
  ASSUME Types, NEW s \in Searches, Search(s), NEW t \in Searches, t # s
  PROVE  /\ pc'[t] = pc[t] /\ scope'[t] = scope[t] /\ ver'[t] = ver[t]
         /\ hits'[t] = hits[t] /\ context'[t] = context[t]
         /\ since'[t] = since[t] /\ gone'[t] = gone[t]
BY DEF Search, Begin, GetVersion, Lookup, Load, Put, Fetch, Abandon, Forget, Goto,
   Types, SearchTypeOK, search

\* The entry of a workspace after a search that stores its index.
LEMMA PutStep ==
  ASSUME Types, NEW s \in Searches, Put(s), NEW p \in Procs, NEW w \in Workspaces
  PROVE  \/ entry'[p][w] = None
         \/ entry'[p][w] = entry[p][w]
         \/ p = Proc(s) /\ w = scope[s] /\ entry'[p][w] = NewEntry(s)
BY DEF Put, Types, Proc, Searches

LEMMA SearchingKeepsRows ==
  ASSUME CacheInv, NEW s \in Searches, Search(s)
  PROVE  RowsInv' /\ UNCHANGED <<rows, version, announced, retired>>
BY SearchingKeepsTypes DEF CacheInv, RowsInv, content, redis, writers

LEMMA SearchingKeepsIndexes ==
  ASSUME CacheInv, NEW s \in Searches, Search(s)
  PROVE  IndexInv'
<1> USE DEF CacheInv
<1>0. Types' /\ UNCHANGED <<content, redis, writers>>
  BY SearchingKeepsTypes
<1>1. scope[s] \in Workspaces /\ ver[s] \in Nat /\ hits[s] \in SUBSET Chunks /\ Proc(s) \in Procs
  BY DEF Types, SearchTypeOK, Proc, Searches
<1>2. ASSUME NEW p \in Procs, NEW w \in Workspaces, entry'[p][w] # None
      PROVE  Current(w, entry[p][w].version, entry[p][w].chunks)'
  <2>1. CASE entry'[p][w] = entry[p][w]
    <3>1. entry[p][w] \in Entries
      BY <1>2, <2>1 DEF Types
    <3>2. entry[p][w].version \in Nat /\ entry[p][w].chunks \in SUBSET Chunks
      BY <3>1 DEF Entries
    <3> QED BY <1>2, <2>1, <3>2, SearchingKeepsRows DEF IndexInv, Current, Live
  <2>2. CASE Put(s) /\ p = Proc(s) /\ w = scope[s] /\ entry'[p][w] = NewEntry(s)
    <3>1. Current(w, ver[s], hits[s])
      BY <2>2 DEF IndexInv, Put
    <3> QED BY <1>1, <2>2, <3>1, SearchingKeepsRows DEF NewEntry, Current, Live
  <2>3. Put(s) \/ entry' = entry
    BY DEF Search, Begin, GetVersion, Lookup, Load, Fetch, Abandon, caches
  <2> QED BY <1>2, <2>1, <2>2, <2>3, PutStep
<1>3. ASSUME NEW t \in Searches, pc'[t] = "put"
      PROVE  Current(scope[t], ver[t], hits[t])'
  <2>1. CASE t # s
    <3>1. Current(scope[t], ver[t], hits[t])
      BY <1>3, <2>1, OnlyOneSearches DEF IndexInv
    <3>2. scope[t] \in Workspaces /\ ver[t] \in Nat /\ hits[t] \in SUBSET Chunks
      BY DEF Types, SearchTypeOK
    <3> QED BY <2>1, <3>1, <3>2, OnlyOneSearches, SearchingKeepsRows DEF Current, Live
  <2>2. CASE t = s
    <3>1. Load(s)
      BY <1>3, <2>2 DEF Search, Begin, GetVersion, Lookup, Load, Put, Fetch, Abandon, Goto,
         Types, SearchTypeOK
    <3>2. hits'[s] = rows[scope[s]] /\ UNCHANGED <<scope, ver>>
      BY <3>1 DEF Load, Types, SearchTypeOK
    <3>3. ver[s] <= version[scope[s]]
      BY <3>1 DEF Load, SearchInv
    <3>4. Current(scope[s], ver[s], rows[scope[s]])
      BY <1>1, <3>3 DEF Current, RowsInv, Live
    <3>5. rows[scope[s]] \in SUBSET Chunks
      BY <1>1 DEF Types, ContentTypeOK
    <3> QED BY <1>1, <2>2, <3>2, <3>4, <3>5, SearchingKeepsRows DEF Current, Live
  <2> QED BY <2>1, <2>2
<1> QED BY <1>2, <1>3 DEF IndexInv

LEMMA SearchingKeepsOwn ==
  ASSUME CacheInv, NEW s \in Searches, Search(s)
  PROVE  SearchInv(s)'
<1> USE DEF CacheInv
<1>0. Types' /\ UNCHANGED <<content, redis, writers>>
  BY SearchingKeepsTypes
<1>1. scope[s] \in Workspaces /\ ver[s] \in Nat /\ Proc(s) \in Procs /\ version[scope[s]] \in Nat
  BY DEF Types, SearchTypeOK, ContentTypeOK, Proc, Searches
<1>2. SearchInv(s)
  OBVIOUS
<1>3. CASE Begin(s)
  <2>1. pc'[s] = "version" /\ since'[s] = announced[scope'[s]]
    BY <1>3 DEF Begin, Goto, Types, SearchTypeOK
  <2> QED BY <2>1, <1>0 DEF SearchInv, Live, content
<1>4. CASE GetVersion(s)
  <2>1. pc'[s] = "lookup" /\ ver'[s] = version[scope[s]]
        /\ UNCHANGED <<scope, since, hits, entry, announced, retired, version>>
    BY <1>4 DEF GetVersion, Goto, Types, SearchTypeOK, content, redis, caches
  <2>2. Live(since[s]) \subseteq Live(announced[scope[s]])
    BY <1>2, <1>4 DEF SearchInv, GetVersion, Live
  <2>3. ASSUME entry[Proc(s)][scope[s]] # None,
               entry[Proc(s)][scope[s]].version = version[scope[s]]
        PROVE  Live(since[s]) \subseteq entry[Proc(s)][scope[s]].chunks
    BY <1>1, <2>2, <2>3 DEF IndexInv, Current
  <2>4. ASSUME NEW t \in Searches, pc[t] = "put", scope[t] = scope[s], ver[t] = version[scope[s]]
        PROVE  Live(since[s]) \subseteq hits[t]
    BY <2>2, <2>4 DEF IndexInv, Current
  <2>5. \A t \in Searches : pc'[t] = "put" => t # s /\ pc[t] = "put" /\ ver'[t] = ver[t]
    BY <2>1, OnlyOneSearches
  <2>6. version[scope[s]] <= version[scope[s]]
    BY <1>1
  <2> QED BY <1>2, <1>4, <2>1, <2>3, <2>4, <2>5, <2>6 DEF SearchInv, Live, GetVersion
<1>5. CASE Lookup(s)
  <2>1. \/ /\ pc'[s] = "fetch" /\ hits'[s] = entry[Proc(s)][scope[s]].chunks
           /\ entry[Proc(s)][scope[s]] # None /\ entry[Proc(s)][scope[s]].version = ver[s]
        \/ pc'[s] = "load"
    BY <1>5 DEF Lookup, Goto, Types, SearchTypeOK
  <2>2. UNCHANGED <<scope, since, ver, announced, retired, version>> /\ pc[s] = "lookup"
    BY <1>5 DEF Lookup, content, redis
  <2> QED BY <1>2, <2>1, <2>2 DEF SearchInv, Live
<1>6. CASE Load(s)
  <2>1. pc'[s] = "put" /\ hits'[s] = rows[scope[s]] /\ pc[s] = "load"
        /\ UNCHANGED <<scope, since, ver, announced, retired, version>>
    BY <1>6 DEF Load, Goto, Types, SearchTypeOK, content, redis
  <2>2. Live(announced[scope[s]]) \subseteq rows[scope[s]]
    BY <1>1 DEF RowsInv, Live
  <2> QED BY <1>2, <2>1, <2>2 DEF SearchInv, Live
<1>7. CASE Put(s)
  <2>1. pc'[s] = "fetch" /\ pc[s] = "put"
        /\ UNCHANGED <<scope, since, ver, hits, announced, retired, version>>
    BY <1>7 DEF Put, Goto, Types, SearchTypeOK, content, redis, search
  <2> QED BY <1>2, <2>1 DEF SearchInv, Live
<1>8. CASE Fetch(s)
  <2>1. pc'[s] = "done" /\ pc[s] = "fetch" /\ hits[s] \intersect rows[scope[s]] \subseteq context'[s]
        /\ UNCHANGED <<scope, since, announced, retired>>
    BY <1>8 DEF Fetch, Found, Goto, Types, SearchTypeOK, content
  <2>2. Live(since[s]) \subseteq rows[scope[s]]
    BY <1>1, <1>2, <2>1 DEF SearchInv, RowsInv, Live
  <2> QED BY <1>2, <2>1, <2>2 DEF SearchInv, Live
<1>9. CASE Abandon(s)
  <2>1. pc'[s] = "idle"
    BY <1>9 DEF Abandon, Goto, Types, SearchTypeOK
  <2> QED BY <2>1 DEF SearchInv
<1> QED BY <1>3, <1>4, <1>5, <1>6, <1>7, <1>8, <1>9 DEF Search

LEMMA SearchingKeepsOthers ==
  ASSUME CacheInv, NEW s \in Searches, Search(s), NEW t \in Searches, t # s
  PROVE  SearchInv(t)'
<1> USE DEF CacheInv
<1>0. Types' /\ UNCHANGED <<content, redis, writers>>
  BY SearchingKeepsTypes
<1>1. /\ pc'[t] = pc[t] /\ scope'[t] = scope[t] /\ ver'[t] = ver[t]
      /\ hits'[t] = hits[t] /\ context'[t] = context[t] /\ since'[t] = since[t]
  BY OnlyOneSearches
<1>2. SearchInv(t) /\ scope[t] \in Workspaces /\ Proc(t) \in Procs
  BY DEF Types, SearchTypeOK, Proc, Searches
<1>3. ASSUME pc[t] = "lookup", entry'[Proc(t)][scope[t]] # None,
             entry'[Proc(t)][scope[t]].version = ver[t]
      PROVE  Live(since[t]) \subseteq entry'[Proc(t)][scope[t]].chunks
  <2>1. CASE entry'[Proc(t)][scope[t]] = entry[Proc(t)][scope[t]]
    BY <1>2, <1>3, <2>1 DEF SearchInv
  <2>2. CASE Put(s) /\ scope[t] = scope[s] /\ entry'[Proc(t)][scope[t]] = NewEntry(s)
    BY <1>2, <1>3, <2>2 DEF SearchInv, NewEntry, Put
  <2>3. Put(s) \/ entry' = entry
    BY DEF Search, Begin, GetVersion, Lookup, Load, Fetch, Abandon, caches
  <2> QED BY <1>2, <1>3, <2>1, <2>2, <2>3, PutStep
<1>4. ASSUME pc[t] = "lookup", NEW u \in Searches, pc'[u] = "put",
             scope'[u] = scope[t], ver'[u] = ver[t]
      PROVE  Live(since[t]) \subseteq hits'[u]
  <2>1. CASE u # s
    BY <1>2, <1>4, <2>1, OnlyOneSearches DEF SearchInv
  <2>2. CASE u = s
    <3>1. Load(s)
      BY <1>4, <2>2 DEF Search, Begin, GetVersion, Lookup, Load, Put, Fetch, Abandon, Goto,
         Types, SearchTypeOK
    <3>2. hits'[s] = rows[scope[s]] /\ UNCHANGED scope
      BY <3>1 DEF Load, Types, SearchTypeOK
    <3>3. Live(since[t]) \subseteq rows[scope[t]]
      BY <1>2, <1>4 DEF SearchInv, RowsInv, Live
    <3> QED BY <1>4, <2>2, <3>2, <3>3
  <2> QED BY <2>1, <2>2
<1>5. UNCHANGED <<retired, announced, version>>
  BY <1>0 DEF content, redis
<1> QED BY <1>1, <1>2, <1>3, <1>4, <1>5 DEF SearchInv, Live

\* Redis loses increments only by a restart, which is counted.
LEMMA LossesStep == losses \in Nat /\ [Next]_vars /\ losses' = 0 => losses = 0 /\ ~RedisRestart
<1> SUFFICES ASSUME losses \in Nat, [Next]_vars, losses' = 0 PROVE losses = 0 /\ ~RedisRestart
  OBVIOUS
<1>1. ASSUME NEW x \in Writers, Write(x) PROVE losses' = losses
  BY <1>1 DEF Write, IngestCommit, IngestBump, WriterFail, DeleteBump, DeleteCommit, Bump, redis
<1>2. ASSUME NEW s \in Searches, Search(s) PROVE losses' = losses
  BY <1>2 DEF Search, Begin, GetVersion, Lookup, Load, Put, Fetch, Abandon, redis
<1>3. ~RedisRestart
  BY DEF RedisRestart
<1> QED BY <1>1, <1>2, <1>3 DEF Next, vars, redis

LEMMA CacheStep == ~RedisRestart /\ CacheInv /\ [Next]_vars => CacheInv'
<1> SUFFICES ASSUME ~RedisRestart, CacheInv, [Next]_vars PROVE CacheInv'
  OBVIOUS
<1>1. ASSUME NEW x \in Writers, Write(x) PROVE CacheInv'
  BY <1>1, WritingKeepsInvariant
<1>2. ASSUME NEW s \in Searches, Search(s) PROVE CacheInv'
  <2>1. Types' /\ RowsInv' /\ IndexInv'
    BY <1>2, SearchingKeepsTypes, SearchingKeepsRows, SearchingKeepsIndexes DEF CacheInv
  <2>2. \A t \in Searches : SearchInv(t)'
    BY <1>2, SearchingKeepsOwn, SearchingKeepsOthers
  <2> QED BY <2>1, <2>2 DEF CacheInv
<1>3. CASE UNCHANGED vars
  BY <1>3 DEF vars, content, redis, writers, caches, search, CacheInv, Types, ContentTypeOK,
     SearchTypeOK, RowsInv, IndexInv, Current, SearchInv, Live
<1> QED BY <1>1, <1>2, <1>3 DEF Next

LEMMA CacheInit == Init => CacheInv
BY CacheAssumption DEF Init, CacheInv, Types, ContentTypeOK, SearchTypeOK, Label, Entries,
   RowsInv, IndexInv, Current, SearchInv, Live, Searches

\* A search finds every chunk that was committed and announced when it began
\* and still exists, in any process and through any cache (sparse_search),
\* until Redis loses an increment.
THEOREM SearchesFindAnnounced == Spec => []FindsAnnounced
<1> DEFINE Inv == losses \in Nat /\ (losses = 0 => CacheInv)
<1>1. Init => Inv
  BY CacheInit DEF Init
<1>2. Inv /\ [Next]_vars => Inv'
  <2> SUFFICES ASSUME Inv, [Next]_vars PROVE Inv'
    OBVIOUS
  <2>1. losses' \in Nat
    BY DEF Next, Write, Search, IngestCommit, IngestBump, WriterFail, DeleteBump, DeleteCommit,
       Bump, Begin, GetVersion, Lookup, Load, Put, Fetch, Abandon, RedisRestart, vars, redis
  <2>2. losses' = 0 => CacheInv'
    BY LossesStep, CacheStep
  <2> QED BY <2>1, <2>2
<1>3. Inv => FindsAnnounced
  BY DEF CacheInv, SearchInv, FindsAnnounced, Live
<1> QED BY <1>1, <1>2, <1>3, PTL DEF Spec

-----------------------------------------------------------------------------
(* Deleted chunks, whatever happens to the counters.                       *)

\* What was gone when a search began is still gone, and not in its context.
GoneInv ==
  \A s \in Searches :
    /\ pc[s] # "idle" => gone[s] \subseteq retired
    /\ pc[s] = "done" => context[s] \intersect gone[s] = {}

LEMMA RowsStep ==
  ASSUME Types, RowsInv, [Next]_vars
  PROVE  Types' /\ RowsInv' /\ retired \subseteq retired'
<1>1. ASSUME NEW x \in Writers, Write(x) PROVE Types' /\ RowsInv' /\ retired \subseteq retired'
  <2>1. UNCHANGED <<caches, pc, search>>
    BY <1>1 DEF Write, IngestCommit, IngestBump, WriterFail, DeleteBump, DeleteCommit
  <2> QED BY <1>1, <2>1, Writing DEF WriteStep, Types, SearchTypeOK, caches, search
<1>2. ASSUME NEW s \in Searches, Search(s) PROVE Types' /\ RowsInv' /\ retired \subseteq retired'
  BY <1>2, SearchingKeepsTypes DEF RowsInv, content, redis, writers
<1>3. CASE RedisRestart
  <2>1. version' \in [Workspaces -> Nat] /\ losses' \in Nat
    BY <1>3 DEF RedisRestart, Types, ContentTypeOK
  <2> QED
    BY <1>3, <2>1 DEF RedisRestart, Types, ContentTypeOK, SearchTypeOK, RowsInv,
       content, writers, caches, search
<1>4. CASE UNCHANGED vars
  BY <1>4 DEF vars, content, redis, writers, caches, search, Types, ContentTypeOK,
     SearchTypeOK, RowsInv
<1> QED BY <1>1, <1>2, <1>3, <1>4 DEF Next

LEMMA GoneStep ==
  ASSUME Types, RowsInv, GoneInv, [Next]_vars
  PROVE  GoneInv'
<1>0. retired \subseteq retired'
  BY RowsStep
<1>1. CASE UNCHANGED <<pc, gone, context>>
  BY <1>0, <1>1 DEF GoneInv
<1>2. ASSUME NEW s \in Searches, Search(s) PROVE GoneInv'
  <2>1. \A t \in Searches : t # s =>
          pc'[t] = pc[t] /\ gone'[t] = gone[t] /\ context'[t] = context[t]
    BY <1>2, OnlyOneSearches
  <2>2. pc'[s] # "idle" => gone'[s] \subseteq retired'
    BY <1>0, <1>2 DEF Search, Begin, GetVersion, Lookup, Load, Put, Fetch, Abandon, Goto,
       GoneInv, Types, SearchTypeOK, search
  <2>3. pc'[s] = "done" => context'[s] \intersect gone'[s] = {}
    <3>1. ASSUME pc'[s] = "done" PROVE Fetch(s)
      BY <1>2, <3>1 DEF Search, Begin, GetVersion, Lookup, Load, Put, Fetch, Abandon, Goto,
         Types, SearchTypeOK
    <3>2. Fetch(s) => /\ context'[s] \subseteq UNION {rows[w] : w \in Workspaces}
                      /\ gone'[s] = gone[s]
                      /\ gone[s] \subseteq retired
      BY DEF Fetch, Found, GoneInv, Types, SearchTypeOK
    <3> QED BY <3>1, <3>2 DEF RowsInv
  <2> QED BY <1>0, <2>1, <2>2, <2>3 DEF GoneInv
<1>3. ASSUME NEW x \in Writers, Write(x) PROVE UNCHANGED <<pc, gone, context>>
  BY <1>3 DEF Write, IngestCommit, IngestBump, WriterFail, DeleteBump, DeleteCommit, search
<1>4. RedisRestart \/ UNCHANGED vars => UNCHANGED <<pc, gone, context>>
  BY DEF RedisRestart, vars, search
<1> QED BY <1>1, <1>2, <1>3, <1>4 DEF Next

\* A chunk deleted before a search began is never in what it found, stale
\* caches, orphan vectors and lost counters included (hybrid_retrieve_node).
THEOREM DeletedChunksNeverFound == Spec => []DeletedNeverFound
<1>1. Init => Types /\ RowsInv /\ GoneInv
  BY CacheAssumption DEF Init, Types, ContentTypeOK, SearchTypeOK, Label, Entries, RowsInv,
     GoneInv, Searches
<1>2. Types /\ RowsInv /\ GoneInv /\ [Next]_vars => (Types /\ RowsInv /\ GoneInv)'
  BY RowsStep, GoneStep
<1>3. GoneInv => DeletedNeverFound
  BY DEF GoneInv, DeletedNeverFound
<1> QED BY <1>1, <1>2, <1>3, PTL DEF Spec

-----------------------------------------------------------------------------
(* The LRU caches.                                                         *)

Once(order)      == \A i, j \in DOMAIN order : order[i] = order[j] => i = j
Listed(order, w) == \E i \in DOMAIN order : order[i] = w
Before(order, v, w) == \E i, j \in DOMAIN order : i < j /\ order[i] = v /\ order[j] = w

\* Taking one element out of a list.
LEMMA RemoveFacts ==
  ASSUME NEW S, NEW s \in Seq(S), NEW p \in DOMAIN s
  PROVE  /\ RemoveAt(s, p) \in Seq(S)
         /\ DOMAIN RemoveAt(s, p) = 1..(Len(s) - 1)
         /\ \A i \in 1..(Len(s) - 1) : RemoveAt(s, p)[i] = IF i < p THEN s[i] ELSE s[i + 1]
<1> DEFINE low  == SubSeq(s, 1, p - 1)
           high == SubSeq(s, p + 1, Len(s))
<1>1. p \in Nat /\ 1 <= p /\ p <= Len(s) /\ Len(s) \in Nat
  OBVIOUS
<1>2. low \in Seq(S) /\ Len(low) = p - 1 /\ \A i \in 1..(p - 1) : low[i] = s[i]
  BY <1>1
<1>3. high \in Seq(S) /\ Len(high) = Len(s) - p /\ \A i \in 1..(Len(s) - p) : high[i] = s[p + i]
  BY <1>1
<1>4. RemoveAt(s, p) = low \o high
  BY DEF RemoveAt
<1> HIDE DEF low, high
<1>5. low \o high \in Seq(S) /\ Len(low \o high) = Len(s) - 1
  BY <1>1, <1>2, <1>3
<1>6. ASSUME NEW i \in 1..(Len(s) - 1)
      PROVE  (low \o high)[i] = IF i < p THEN s[i] ELSE s[i + 1]
  <2>1. CASE i < p
    BY <1>1, <1>2, <1>3, <2>1
  <2>2. CASE ~(i < p)
    <3>1. (low \o high)[i] = high[i - (p - 1)]
      BY <1>1, <1>2, <1>3, <2>2
    <3>2. i - (p - 1) \in 1..(Len(s) - p) /\ p + (i - (p - 1)) = i + 1
      BY <1>1, <2>2
    <3> QED BY <1>3, <2>2, <3>1, <3>2
  <2> QED BY <2>1, <2>2
<1> QED BY <1>4, <1>5, <1>6

\* Taking one key out of the order of a cache.
LEMMA RemoveKey ==
  ASSUME NEW order \in Seq(Workspaces), Once(order), NEW p \in DOMAIN order
  PROVE  /\ RemoveAt(order, p) \in Seq(Workspaces)
         /\ Len(RemoveAt(order, p)) = Len(order) - 1
         /\ Once(RemoveAt(order, p))
         /\ \A k : Listed(RemoveAt(order, p), k) <=> Listed(order, k) /\ k # order[p]
         /\ \A k, l : Before(RemoveAt(order, p), k, l) => Before(order, k, l)
<1> DEFINE n == Len(order)
           s == RemoveAt(order, p)
<1>1. p \in Nat /\ 1 <= p /\ p <= n /\ n \in Nat /\ DOMAIN order = 1..n
  OBVIOUS
<1>2. s \in Seq(Workspaces) /\ DOMAIN s = 1..(n - 1)
  BY RemoveFacts
<1>3. \A i \in 1..(n - 1) : s[i] = IF i < p THEN order[i] ELSE order[i + 1]
  BY RemoveFacts
<1> HIDE DEF s, n
<1>4. Len(s) = n - 1
  BY <1>1, <1>2
<1>5. Once(s)
  <2>1. SUFFICES ASSUME NEW i \in 1..(n - 1), NEW j \in 1..(n - 1), s[i] = s[j] PROVE i = j
    BY <1>2 DEF Once
  <2> DEFINE from(x) == IF x < p THEN x ELSE x + 1
  <2>2. from(i) \in DOMAIN order /\ from(j) \in DOMAIN order
    BY <1>1
  <2>3. order[from(i)] = order[from(j)]
    BY <1>3, <2>1
  <2>4. from(i) = from(j)
    BY <2>2, <2>3 DEF Once
  <2> QED BY <1>1, <2>4
<1>6. ASSUME NEW k PROVE Listed(s, k) <=> Listed(order, k) /\ k # order[p]
  <2>1. ASSUME Listed(s, k) PROVE Listed(order, k) /\ k # order[p]
    <3>1. PICK i \in 1..(n - 1) : s[i] = k
      BY <1>2, <2>1 DEF Listed
    <3> DEFINE x == IF i < p THEN i ELSE i + 1
    <3>2. x \in DOMAIN order /\ x # p
      BY <1>1
    <3>3. order[x] = k
      BY <1>3, <3>1
    <3> HIDE DEF x
    <3> QED BY <3>2, <3>3 DEF Listed, Once
  <2>2. ASSUME NEW j \in DOMAIN order, order[j] = k, k # order[p] PROVE Listed(s, k)
    <3>1. CASE j < p
      BY <1>1, <1>3, <1>2, <2>2, <3>1 DEF Listed
    <3>2. CASE j > p
      <4>1. j - 1 \in 1..(n - 1) /\ ~(j - 1 < p) /\ (j - 1) + 1 = j
        BY <1>1, <3>2
      <4> QED BY <1>3, <1>2, <2>2, <4>1 DEF Listed
    <3> QED BY <1>1, <2>2, <3>1, <3>2
  <2> QED BY <2>1, <2>2 DEF Listed
<1>7. ASSUME NEW i \in 1..(n - 1), NEW j \in 1..(n - 1), i < j
      PROVE  Before(order, s[i], s[j])
  <2> DEFINE from(x) == IF x < p THEN x ELSE x + 1
  <2>1. from(i) \in DOMAIN order /\ from(j) \in DOMAIN order /\ from(i) < from(j)
    BY <1>1, <1>7
  <2>2. s[i] = order[from(i)] /\ s[j] = order[from(j)]
    BY <1>3
  <2> HIDE DEF from
  <2> QED BY <2>1, <2>2 DEF Before
<1>8. \A k, l : Before(s, k, l) => Before(order, k, l)
  BY <1>2, <1>7 DEF Before
<1> QED BY <1>2, <1>4, <1>5, <1>6, <1>8 DEF s, n

\* A use makes a key the most recent one; a new key makes the order longer.
LEMMA MoveFacts ==
  ASSUME NEW order \in Seq(Workspaces), Once(order), NEW w \in Workspaces
  PROVE  /\ MoveToEnd(order, w) \in Seq(Workspaces)
         /\ Once(MoveToEnd(order, w))
         /\ Len(MoveToEnd(order, w)) = IF Listed(order, w) THEN Len(order) ELSE Len(order) + 1
         /\ MoveToEnd(order, w)[Len(MoveToEnd(order, w))] = w
         /\ \A k : Listed(MoveToEnd(order, w), k) <=> Listed(order, k) \/ k = w
         /\ \A k, l : Before(MoveToEnd(order, w), k, l) => k # w /\ (l = w \/ Before(order, k, l))
<1> DEFINE rest == RemoveFirst(order, w)
           moved == MoveToEnd(order, w)
<1>0. Len(order) \in Nat /\ DOMAIN order = 1..Len(order)
  OBVIOUS
<1>1. /\ rest \in Seq(Workspaces) /\ Once(rest)
      /\ Len(rest) = IF Listed(order, w) THEN Len(order) - 1 ELSE Len(order)
      /\ \A k : Listed(rest, k) <=> Listed(order, k) /\ k # w
      /\ \A k, l : Before(rest, k, l) => Before(order, k, l)
  <2>1. CASE Listed(order, w)
    <3>1. PICK p \in DOMAIN order : order[p] = w
      BY <2>1 DEF Listed
    <3>2. {i \in 1..Len(order) : order[i] = w} = {p}
      BY <1>0, <3>1 DEF Once
    <3>3. Min({p}) = p
      BY <1>0, <3>1 DEF Min
    <3>4. SelectInSeq(order, LAMBDA v : v = w) = p
      BY <3>2, <3>3 DEF SelectInSeq
    <3>5. rest = RemoveAt(order, p)
      BY <1>0, <3>1, <3>4 DEF RemoveFirst
    <3> QED BY <2>1, <3>1, <3>5, RemoveKey
  <2>2. CASE ~Listed(order, w)
    <3>1. rest = order
      BY <1>0, <2>2 DEF RemoveFirst, Listed
    <3> QED BY <2>2, <3>1 DEF Listed
  <2> QED BY <2>1, <2>2
<1>2. moved = Append(rest, w)
  BY DEF MoveToEnd
<1> HIDE DEF rest, moved
<1>3. /\ moved \in Seq(Workspaces) /\ Len(moved) = Len(rest) + 1 /\ Len(rest) \in Nat
      /\ DOMAIN moved = 1..(Len(rest) + 1) /\ DOMAIN rest = 1..Len(rest)
      /\ moved[Len(rest) + 1] = w /\ \A i \in 1..Len(rest) : moved[i] = rest[i]
  BY <1>1, <1>2
<1>4. \A i \in DOMAIN rest : rest[i] # w
  BY <1>1 DEF Listed
<1>5. Once(moved)
  BY <1>1, <1>3, <1>4 DEF Once
<1>6. ASSUME NEW k PROVE Listed(moved, k) <=> Listed(rest, k) \/ k = w
  BY <1>3 DEF Listed
<1>7. Len(moved) = IF Listed(order, w) THEN Len(order) ELSE Len(order) + 1
  <2>1. CASE Listed(order, w)
    BY <1>0, <1>1, <1>3, <2>1
  <2>2. CASE ~Listed(order, w)
    BY <1>0, <1>1, <1>3, <2>2
  <2> QED BY <2>1, <2>2
<1>8. ASSUME NEW i \in DOMAIN moved, NEW j \in DOMAIN moved, i < j
      PROVE  moved[i] # w /\ (moved[j] = w \/ Before(order, moved[i], moved[j]))
  <2>1. i \in DOMAIN rest /\ (j \in DOMAIN rest \/ j = Len(rest) + 1)
    BY <1>3, <1>8
  <2>2. moved[i] = rest[i] /\ rest[i] # w
    BY <1>3, <1>4, <2>1
  <2>3. CASE j \in DOMAIN rest
    <3>1. moved[j] = rest[j] /\ Before(rest, rest[i], rest[j])
      BY <1>3, <1>8, <2>1, <2>3 DEF Before
    <3> QED BY <1>1, <2>2, <3>1
  <2>4. CASE j = Len(rest) + 1
    BY <1>3, <2>2, <2>4
  <2> QED BY <2>1, <2>3, <2>4
<1>9. \A k, l : Before(moved, k, l) => k # w /\ (l = w \/ Before(order, k, l))
  BY <1>8 DEF Before
<1> QED BY <1>1, <1>3, <1>5, <1>6, <1>7, <1>9 DEF moved

\* The key an eviction takes is the one least recently used.
LEMMA EvictFacts ==
  ASSUME NEW order \in Seq(Workspaces), Once(order), Len(order) > 1
  PROVE  /\ Tail(order) \in Seq(Workspaces) /\ Once(Tail(order))
         /\ Len(Tail(order)) = Len(order) - 1
         /\ \A k : Listed(Tail(order), k) <=> Listed(order, k) /\ k # Head(order)
         /\ Head(order) # order[Len(order)]
         /\ \A k, l : Before(Tail(order), k, l) => Before(order, k, l)
         /\ \A k : Listed(Tail(order), k) => Before(order, Head(order), k)
<1> DEFINE n == Len(order)
           z == Tail(order)
<1>1. /\ n \in Nat /\ DOMAIN order = 1..n /\ Head(order) = order[1] /\ z \in Seq(Workspaces)
      /\ Len(z) = n - 1 /\ DOMAIN z = 1..(n - 1) /\ \A i \in 1..(n - 1) : z[i] = order[i + 1]
  OBVIOUS
<1>2. n > 1
  OBVIOUS
<1> HIDE DEF n, z
<1>3. Once(z)
  <2>1. SUFFICES ASSUME NEW i \in 1..(n - 1), NEW j \in 1..(n - 1), z[i] = z[j] PROVE i = j
    BY <1>1 DEF Once
  <2>2. i + 1 \in DOMAIN order /\ j + 1 \in DOMAIN order
    BY <1>1
  <2>3. order[i + 1] = order[j + 1]
    BY <1>1, <2>1
  <2>4. i + 1 = j + 1
    BY <2>2, <2>3 DEF Once
  <2> QED BY <2>4
<1>4. ASSUME NEW k PROVE Listed(z, k) <=> Listed(order, k) /\ k # Head(order)
  <2>1. Listed(z, k) => Listed(order, k) /\ k # Head(order)
    BY <1>1, <1>2 DEF Listed, Once
  <2>2. ASSUME NEW j \in DOMAIN order, order[j] = k, k # Head(order) PROVE Listed(z, k)
    <3>1. j - 1 \in 1..(n - 1) /\ (j - 1) + 1 = j
      BY <1>1, <2>2
    <3> QED BY <1>1, <2>2, <3>1 DEF Listed
  <2> QED BY <2>1, <2>2 DEF Listed
<1>5. Head(order) # order[n]
  BY <1>1, <1>2 DEF Once
<1>6. ASSUME NEW i \in 1..(n - 1)
      PROVE  /\ Before(order, Head(order), z[i])
             /\ \A j \in 1..(n - 1) : i < j => Before(order, z[i], z[j])
  <2>1. 1 \in DOMAIN order /\ i + 1 \in DOMAIN order /\ 1 < i + 1 /\ z[i] = order[i + 1]
    BY <1>1, <1>2
  <2>2. ASSUME NEW j \in 1..(n - 1), i < j PROVE Before(order, z[i], z[j])
    <3>1. j + 1 \in DOMAIN order /\ i + 1 < j + 1 /\ z[j] = order[j + 1]
      BY <1>1, <2>2
    <3> QED BY <2>1, <3>1 DEF Before
  <2>3. Before(order, Head(order), z[i])
    BY <1>1, <2>1 DEF Before
  <2> QED BY <2>2, <2>3
<1>7. ASSUME NEW k, NEW l, Before(z, k, l) PROVE Before(order, k, l)
  <2>1. PICK i \in DOMAIN z, j \in DOMAIN z : i < j /\ z[i] = k /\ z[j] = l
    BY <1>7 DEF Before
  <2>2. i \in 1..(n - 1) /\ j \in 1..(n - 1)
    BY <1>1
  <2>3. Before(order, z[i], z[j])
    BY <1>6, <2>1, <2>2
  <2> QED BY <2>1, <2>3
<1>8. \A k : Listed(z, k) => Before(order, Head(order), k)
  BY <1>1, <1>6 DEF Listed
<1> QED BY <1>1, <1>3, <1>4, <1>5, <1>7, <1>8 DEF n, z

\* A cache: its order lists its keys once, and there are not too many.
LruOf(p, ents, order) ==
  /\ order \in Seq(Workspaces) /\ Once(order) /\ Len(order) <= MaxEntries
  /\ \A w \in Workspaces : ents[w] # None <=> Listed(order, w)

LruInv == \A p \in Procs : LruOf(p, entry[p], lru[p])

\* A hit changes the order of one cache, and no entry.
LEMMA LookupKeepsLru ==
  ASSUME Types, LruInv, DOMAIN lru = Procs, NEW s \in Searches, Lookup(s)
  PROVE  LruInv' /\ DOMAIN lru' = Procs
<1>1. CASE UNCHANGED caches
  BY <1>1 DEF caches, LruInv, LruOf
<1>2. CASE ~UNCHANGED caches
  <2> DEFINE p == Proc(s)
             w == scope[s]
  <2>1. p \in Procs /\ w \in Workspaces
    BY DEF Searches, Proc, Types, SearchTypeOK
  <2>2. /\ entry' = entry /\ entry[p][w] # None
        /\ lru' = [lru EXCEPT ![p] = MoveToEnd(lru[p], w)]
    BY <1>2 DEF Lookup, caches
  <2>3. LruOf(p, entry[p], lru[p])
    BY <2>1 DEF LruInv
  <2>4. LruOf(p, entry[p], MoveToEnd(lru[p], w))
    BY <2>1, <2>2, <2>3, MoveFacts DEF LruOf
  <2>5. \A q \in Procs : lru'[q] = IF q = p THEN MoveToEnd(lru[p], w) ELSE lru[q]
    BY <2>1, <2>2
  <2> QED BY <2>1, <2>2, <2>4, <2>5 DEF LruInv
<1> QED BY <1>1, <1>2

\* A put adds the key, and makes room for it; the entry it stores stays.
LEMMA PutKeepsLru ==
  ASSUME Types, LruInv, DOMAIN lru = Procs, NEW s \in Searches, Put(s)
  PROVE  LruInv' /\ DOMAIN lru' = Procs /\ entry'[Proc(s)][scope[s]] # None
<1> DEFINE p     == Proc(s)
           w     == scope[s]
           order == MoveToEnd(lru[p], w)
           out   == IF TooMany(order) THEN {Head(order)} ELSE {}
           next  == IF TooMany(order) THEN Tail(order) ELSE order
           ents  == [k \in Workspaces |->
                       IF k \in out THEN None ELSE IF k = w THEN NewEntry(s) ELSE entry[p][k]]
<1>1. p \in Procs /\ w \in Workspaces
  BY DEF Searches, Proc, Types, SearchTypeOK
<1>2. NewEntry(s) # None
  <2>1. ver[s] \in Nat /\ hits[s] \in SUBSET Chunks
    BY DEF Types, SearchTypeOK
  <2>2. NewEntry(s) \in [version : Nat, chunks : SUBSET Chunks]
    BY <2>1 DEF NewEntry
  <2> QED BY <2>2, CacheAssumption
<1>3. entry' = [entry EXCEPT ![p] = ents] /\ lru' = [lru EXCEPT ![p] = next]
  BY DEF Put
<1>4. DOMAIN entry = Procs
  BY DEF Types
<1>5. LruOf(p, entry[p], lru[p])
  BY <1>1 DEF LruInv
<1>6. /\ order \in Seq(Workspaces) /\ Once(order) /\ Len(order) \in Nat
      /\ Len(order) <= MaxEntries + 1
      /\ order[Len(order)] = w
      /\ \A k : Listed(order, k) <=> Listed(lru[p], k) \/ k = w
  <2>1. lru[p] \in Seq(Workspaces) /\ Once(lru[p]) /\ Len(lru[p]) <= MaxEntries /\ Len(lru[p]) \in Nat
    BY <1>5 DEF LruOf
  <2>2. /\ order \in Seq(Workspaces) /\ Once(order)
        /\ Len(order) = IF Listed(lru[p], w) THEN Len(lru[p]) ELSE Len(lru[p]) + 1
        /\ order[Len(order)] = w
        /\ \A k : Listed(order, k) <=> Listed(lru[p], k) \/ k = w
    BY <1>1, <2>1, MoveFacts
  <2> HIDE DEF order
  <2> QED BY <2>1, <2>2, CacheAssumption
<1>7. LruOf(p, ents, next) /\ ents[w] # None
  <2>1. CASE TooMany(order)
    <3>1. Len(order) = MaxEntries + 1 /\ Len(order) > 1
      BY <1>6, <2>1, CacheAssumption DEF TooMany
    <3>2. out = {Head(order)} /\ next = Tail(order)
      BY <2>1
    <3> HIDE DEF order, out, next
    <3>3. /\ Tail(order) \in Seq(Workspaces) /\ Once(Tail(order))
          /\ Len(Tail(order)) = Len(order) - 1
          /\ \A k : Listed(Tail(order), k) <=> Listed(order, k) /\ k # Head(order)
          /\ Head(order) # w
      BY <1>6, <3>1, EvictFacts
    <3>4. \A k \in Workspaces : ents[k] # None <=> Listed(next, k)
      BY <1>2, <1>5, <1>6, <3>2, <3>3 DEF LruOf
    <3>5. ents[w] # None
      BY <1>1, <1>2, <3>2, <3>3
    <3> QED BY <1>6, <3>1, <3>2, <3>3, <3>4, <3>5, CacheAssumption DEF LruOf
  <2>2. CASE ~TooMany(order)
    <3>1. Len(order) <= MaxEntries
      BY <1>6, <2>2, CacheAssumption DEF TooMany
    <3>2. out = {} /\ next = order
      BY <2>2
    <3> HIDE DEF order, out, next
    <3>3. \A k \in Workspaces : ents[k] # None <=> Listed(next, k)
      BY <1>2, <1>5, <1>6, <3>2 DEF LruOf
    <3> QED BY <1>1, <1>2, <1>6, <3>1, <3>2, <3>3 DEF LruOf
  <2> QED BY <2>1, <2>2
<1> HIDE DEF p, w, order, out, next, ents
<1>8. \A q \in Procs : entry'[q] = IF q = p THEN ents ELSE entry[q]
  BY <1>1, <1>3, <1>4
<1>9. \A q \in Procs : lru'[q] = IF q = p THEN next ELSE lru[q]
  BY <1>1, <1>3
<1>10. LruInv' /\ DOMAIN lru' = Procs
  BY <1>3, <1>7, <1>8, <1>9 DEF LruInv
<1> QED BY <1>1, <1>7, <1>8, <1>10 DEF p, w

LEMMA LruStep ==
  ASSUME Types, LruInv, DOMAIN lru = Procs, [Next]_vars
  PROVE  LruInv' /\ DOMAIN lru' = Procs
<1>1. CASE UNCHANGED caches
  BY <1>1 DEF caches, LruInv
<1>2. ASSUME NEW s \in Searches, Search(s) PROVE LruInv' /\ DOMAIN lru' = Procs
  <2>1. CASE Lookup(s)
    BY <2>1, LookupKeepsLru
  <2>2. CASE Put(s)
    BY <2>2, PutKeepsLru
  <2>3. CASE ~Lookup(s) /\ ~Put(s)
    BY <1>1, <1>2, <2>3 DEF Search, Begin, GetVersion, Load, Fetch, Abandon
  <2> QED BY <2>1, <2>2, <2>3
<1>3. ASSUME NEW x \in Writers, Write(x) PROVE UNCHANGED caches
  BY <1>3 DEF Write, IngestCommit, IngestBump, WriterFail, DeleteBump, DeleteCommit
<1>4. RedisRestart \/ UNCHANGED vars => UNCHANGED caches
  BY DEF RedisRestart, vars
<1> QED BY <1>1, <1>2, <1>3, <1>4 DEF Next

\* The types, the rows and the caches, whatever the searches find.
CachesInv == Types /\ RowsInv /\ LruInv /\ DOMAIN lru = Procs

LEMMA CachesInvariant == Spec => []CachesInv
<1>1. Init => CachesInv
  <2> SUFFICES ASSUME Init PROVE CachesInv
    OBVIOUS
  <2>1. Types /\ RowsInv
    BY CacheAssumption DEF Init, Types, ContentTypeOK, SearchTypeOK, Label, Entries, RowsInv, Searches
  <2>2. DOMAIN lru = Procs /\ \A p \in Procs : lru[p] = <<>> /\ \A w \in Workspaces : entry[p][w] = None
    BY DEF Init
  <2>3. <<>> \in Seq(Workspaces) /\ Len(<<>>) = 0 /\ DOMAIN <<>> = {}
    OBVIOUS
  <2>4. LruInv
    <3>1. SUFFICES ASSUME NEW p \in Procs PROVE LruOf(p, entry[p], <<>>)
      BY <2>2 DEF LruInv
    <3>2. Once(<<>>) /\ \A w \in Workspaces : ~Listed(<<>>, w)
      BY <2>3 DEF Once, Listed
    <3>3. Len(<<>>) <= MaxEntries
      BY <2>3, CacheAssumption
    <3> QED BY <2>2, <2>3, <3>2, <3>3 DEF LruOf
  <2> QED BY <2>1, <2>2, <2>4 DEF CachesInv
<1>2. CachesInv /\ [Next]_vars => CachesInv'
  BY RowsStep, LruStep DEF CachesInv
<1> QED BY <1>1, <1>2, PTL DEF Spec

\* No sequence of hits, puts and evictions, of however many searches, lets a
\* cache outgrow its maximum or evicts the index just stored: a search whose
\* put is followed by the next await finds it there (_WorkspaceBM25Cache.put).
THEOREM CachesStayBounded == Spec => CacheBounded
<1>1. CachesInv /\ CachesInv' /\ [Next]_vars =>
        \A p \in Procs :
          /\ Len(lru'[p]) <= MaxEntries
          /\ \A s \in Searches :
               Proc(s) = p /\ pc[s] = "put" /\ pc'[s] = "fetch" => entry'[p][scope[s]] # None
  <2> SUFFICES ASSUME CachesInv, CachesInv', [Next]_vars, NEW p \in Procs
               PROVE  /\ Len(lru'[p]) <= MaxEntries
                      /\ \A s \in Searches :
                           Proc(s) = p /\ pc[s] = "put" /\ pc'[s] = "fetch" => entry'[p][scope[s]] # None
    OBVIOUS
  <2>1. Len(lru'[p]) <= MaxEntries
    BY DEF CachesInv, LruInv, LruOf
  <2>2. ASSUME NEW s \in Searches, pc[s] = "put", pc'[s] = "fetch"
        PROVE  Put(s)
    <3>1. ASSUME NEW x \in Writers, Write(x) PROVE FALSE
      BY <2>2, <3>1 DEF Write, IngestCommit, IngestBump, WriterFail, DeleteBump, DeleteCommit
    <3>2. ~RedisRestart /\ ~UNCHANGED vars
      BY <2>2 DEF RedisRestart, vars
    <3>3. PICK t \in Searches : Search(t)
      BY <3>1, <3>2 DEF Next
    <3>4. t = s
      BY <2>2, <3>3, OnlyOneSearches DEF CachesInv
    <3> QED BY <2>2, <3>3, <3>4 DEF Search, Begin, GetVersion, Lookup, Load, Fetch, Abandon, Goto,
               CachesInv, Types, SearchTypeOK
  <2> QED BY <2>1, <2>2, PutKeepsLru DEF CachesInv
<1> QED BY <1>1, CachesInvariant, PTL DEF Spec, CacheBounded

-----------------------------------------------------------------------------
(* What is evicted is what has not been used for longest.                  *)

\* What has been used after a cached key is at least what follows it in the
\* order; after an evicted one, at least as many as there is room for.
UsedInv(order, used) ==
  /\ DOMAIN used \in SUBSET Workspaces
  /\ \A w : Listed(order, w) => w \in DOMAIN used
  /\ \A w \in DOMAIN used :
       /\ IsFiniteSet(used[w])
       /\ ~Listed(order, w) => Cardinality(used[w]) >= MaxEntries
  /\ \A v, w : Before(order, v, w) => w \in used[v]

LatersInv ==
  /\ DOMAIN later = Procs
  /\ \A p \in Procs : UsedInv(lru[p], later[p])

\* An order has as many keys as it is long.
LEMMA KeyCount ==
  ASSUME NEW order \in Seq(Workspaces), Once(order)
  PROVE  /\ IsFiniteSet({order[i] : i \in DOMAIN order})
         /\ Cardinality({order[i] : i \in DOMAIN order}) = Len(order)
<1> DEFINE n == Len(order)
           K == {order[i] : i \in DOMAIN order}
<1>1. n \in Nat /\ order \in [1..n -> Workspaces] /\ DOMAIN order = 1..n
  OBVIOUS
<1> HIDE DEF n
<1>2. order \in Surjection(1..n, K) /\ order \in Injection(1..n, K)
  BY <1>1 DEF Once, Surjection, Injection, IsInjective
<1>3. IsFiniteSet(1..n) /\ Cardinality(1..n) = n
  <2>1. 1 \in Int /\ n \in Int /\ (1 > n => n = 0) /\ n - 1 + 1 = n
    BY <1>1
  <2> QED BY ONLY <2>1, FS_Interval
<1> HIDE DEF K
<1>4. IsFiniteSet(K) /\ Cardinality(K) = n
  BY <1>2, <1>3, FS_Surjection
<1> QED BY <1>4 DEF K, n

\* A use of w keeps what is said of a cache before it is cut.
LEMMA UseFacts ==
  ASSUME NEW order \in Seq(Workspaces), Once(order), NEW used, UsedInv(order, used),
         NEW w \in Workspaces
  PROVE  UsedInv(MoveToEnd(order, w), Use(used, w))
<1> DEFINE moved == MoveToEnd(order, w)
           then  == Use(used, w)
<1>1. /\ \A k : Listed(moved, k) <=> Listed(order, k) \/ k = w
      /\ \A k, l : Before(moved, k, l) => k # w /\ (l = w \/ Before(order, k, l))
  BY MoveFacts
<1>2. /\ DOMAIN then = DOMAIN used \union {w} /\ then[w] = {}
      /\ \A v \in DOMAIN used : v # w => then[v] = used[v] \union {w}
  BY DEF Use
<1> HIDE DEF moved, then
<1>3. DOMAIN then \in SUBSET Workspaces /\ \A v : Listed(moved, v) => v \in DOMAIN then
  BY <1>1, <1>2 DEF UsedInv
<1>4. ASSUME NEW v \in DOMAIN then
      PROVE  IsFiniteSet(then[v]) /\ (~Listed(moved, v) => Cardinality(then[v]) >= MaxEntries)
  <2>1. CASE v = w
    BY <1>1, <1>2, <2>1, FS_EmptySet
  <2>2. CASE v # w
    <3>1. v \in DOMAIN used /\ IsFiniteSet(used[v]) /\ then[v] = used[v] \union {w}
      BY <1>2, <2>2 DEF UsedInv
    <3>2. IsFiniteSet(then[v]) /\ Cardinality(used[v]) <= Cardinality(then[v])
      <4>1. IsFiniteSet(used[v] \union {w})
        BY <3>1, FS_AddElement
      <4>2. used[v] \in SUBSET then[v]
        BY <3>1
      <4> QED BY <3>1, <4>1, <4>2, FS_Subset
    <3>3. ~Listed(moved, v) => Cardinality(used[v]) >= MaxEntries
      BY <1>1, <3>1 DEF UsedInv
    <3>4. Cardinality(used[v]) \in Nat /\ Cardinality(then[v]) \in Nat /\ MaxEntries \in Nat
      BY <3>1, <3>2, FS_CardinalityType, CacheAssumption
    <3> QED BY <3>2, <3>3, <3>4
  <2> QED BY <2>1, <2>2
<1>5. ASSUME NEW v, NEW u, Before(moved, v, u) PROVE u \in then[v]
  <2>1. v # w /\ v \in DOMAIN then
    <3>1. Listed(moved, v)
      BY <1>5 DEF Before, Listed
    <3> QED BY <1>1, <1>3, <1>5, <3>1
  <2>2. then[v] = used[v] \union {w}
    BY <1>2, <2>1
  <2> QED BY <1>1, <1>5, <2>2 DEF UsedInv
<1> QED BY <1>3, <1>4, <1>5 DEF UsedInv, moved, then

\* Nor does cutting one that has outgrown its maximum.
LEMMA EvictionFacts ==
  ASSUME NEW order \in Seq(Workspaces), Once(order), NEW used, UsedInv(order, used),
         Len(order) = MaxEntries + 1
  PROVE  UsedInv(Tail(order), used)
<1> DEFINE z == Tail(order)
           K == {z[i] : i \in DOMAIN z}
<1>0. MaxEntries \in Nat /\ Len(order) > 1
  BY CacheAssumption
<1>1. /\ z \in Seq(Workspaces) /\ Once(z) /\ Len(z) = Len(order) - 1
      /\ \A k : Listed(z, k) <=> Listed(order, k) /\ k # Head(order)
      /\ \A k, l : Before(z, k, l) => Before(order, k, l)
      /\ \A k : Listed(z, k) => Before(order, Head(order), k)
  BY <1>0, EvictFacts
<1> HIDE DEF z
<1>2. Len(z) = MaxEntries
  BY <1>0, <1>1
<1>3. Cardinality(K) = MaxEntries /\ \A k \in K : Listed(z, k)
  <2>1. \A k \in K : Listed(z, k)
    BY DEF Listed
  <2>2. Cardinality(K) = Len(z)
    BY <1>1, KeyCount
  <2> QED BY <1>2, <2>1, <2>2
<1> HIDE DEF K
<1>4. ASSUME NEW v \in DOMAIN used
      PROVE  IsFiniteSet(used[v]) /\ (~Listed(z, v) => Cardinality(used[v]) >= MaxEntries)
  <2>1. IsFiniteSet(used[v]) /\ (~Listed(order, v) => Cardinality(used[v]) >= MaxEntries)
    BY DEF UsedInv
  <2>2. CASE v = Head(order)
    <3>1. K \in SUBSET used[v]
      BY <1>1, <1>3, <2>2 DEF UsedInv
    <3>2. Cardinality(K) <= Cardinality(used[v])
      BY <2>1, <3>1, FS_Subset
    <3>3. Cardinality(used[v]) \in Nat
      BY <2>1, FS_CardinalityType
    <3> QED BY <1>0, <1>3, <2>1, <3>2, <3>3
  <2>3. CASE v # Head(order)
    BY <1>1, <2>1, <2>3
  <2> QED BY <2>2, <2>3
<1> QED BY <1>1, <1>4 DEF UsedInv, z

LEMMA LatersStep ==
  ASSUME CachesInv, LatersInv, [Next]_vars
  PROVE  LatersInv'
<1>1. CASE UNCHANGED caches
  BY <1>1 DEF caches, LatersInv, UsedInv
<1>2. ASSUME NEW s \in Searches, Search(s), ~UNCHANGED caches PROVE LatersInv'
  <2> DEFINE p     == Proc(s)
             w     == scope[s]
             moved == MoveToEnd(lru[p], w)
             next  == IF Put(s) /\ TooMany(moved) THEN Tail(moved) ELSE moved
  <2>1. p \in Procs /\ w \in Workspaces
    BY DEF Searches, Proc, CachesInv, Types, SearchTypeOK
  <2>2. Lookup(s) \/ Put(s)
    BY <1>2 DEF Search, Begin, GetVersion, Load, Fetch, Abandon
  <2>3. lru' = [lru EXCEPT ![p] = next] /\ later' = [later EXCEPT ![p] = Use(later[p], w)]
    <3>1. CASE Put(s)
      BY <3>1 DEF Put
    <3>2. CASE Lookup(s) /\ ~Put(s)
      BY <1>2, <3>2 DEF Lookup, caches
    <3> QED BY <2>2, <3>1, <3>2
  <2>4. lru[p] \in Seq(Workspaces) /\ Once(lru[p]) /\ Len(lru[p]) <= MaxEntries /\ UsedInv(lru[p], later[p])
    BY <2>1 DEF CachesInv, LruInv, LruOf, LatersInv
  <2>5. UsedInv(moved, Use(later[p], w))
    BY <2>1, <2>4, UseFacts
  <2>6. /\ moved \in Seq(Workspaces) /\ Once(moved)
        /\ Len(moved) = IF Listed(lru[p], w) THEN Len(lru[p]) ELSE Len(lru[p]) + 1
    BY <2>1, <2>4, MoveFacts
  <2>7. UsedInv(next, Use(later[p], w))
    <3>1. CASE TooMany(moved) /\ Put(s)
      <4>1. Len(lru[p]) \in Nat /\ MaxEntries \in Nat
        BY <2>4, CacheAssumption
      <4> HIDE DEF moved
      <4>2. Len(moved) = MaxEntries + 1
        BY <2>4, <2>6, <3>1, <4>1 DEF TooMany
      <4> QED BY <2>5, <2>6, <3>1, <4>2, EvictionFacts
    <3>2. CASE ~(TooMany(moved) /\ Put(s))
      BY <2>5, <3>2
    <3> QED BY <3>1, <3>2
  <2> HIDE DEF p, w, next
  <2>8. \A q \in Procs : /\ lru'[q] = IF q = p THEN next ELSE lru[q]
                         /\ later'[q] = IF q = p THEN Use(later[p], w) ELSE later[q]
    BY <2>1, <2>3 DEF CachesInv, LatersInv
  <2>9. \A q \in Procs : UsedInv(lru'[q], later'[q])
    BY <2>7, <2>8 DEF LatersInv
  <2>10. DOMAIN later' = Procs
    BY <2>3 DEF LatersInv
  <2> QED BY <2>9, <2>10 DEF LatersInv, UsedInv
<1>3. ASSUME NEW x \in Writers, Write(x) PROVE UNCHANGED caches
  BY <1>3 DEF Write, IngestCommit, IngestBump, WriterFail, DeleteBump, DeleteCommit
<1>4. RedisRestart \/ UNCHANGED vars => UNCHANGED caches
  BY DEF RedisRestart, vars
<1> QED BY <1>1, <1>2, <1>3, <1>4 DEF Next

\* A cache evicts no index before as many others have been used as it has room
\* for, however many searches hit, miss together and store late
\* (_WorkspaceBM25Cache).
THEOREM RecentIndexesStay == Spec => []RecentStay
<1>1. Init => LatersInv
  <2> SUFFICES ASSUME Init PROVE LatersInv
    OBVIOUS
  <2>1. DOMAIN <<>> = {}
    OBVIOUS
  <2>2. \A p \in Procs : lru[p] = <<>> /\ later[p] = <<>>
    BY DEF Init
  <2>3. UsedInv(<<>>, <<>>)
    BY <2>1 DEF UsedInv, Listed, Before
  <2> QED BY <2>2, <2>3 DEF Init, LatersInv
<1>2. CachesInv /\ LatersInv /\ [Next]_vars => LatersInv'
  BY LatersStep
<1>3. CachesInv /\ LatersInv => RecentStay
  <2> SUFFICES ASSUME CachesInv, LatersInv, NEW p \in Procs, NEW w \in DOMAIN later[p],
                      Cardinality(later[p][w]) < MaxEntries
               PROVE  entry[p][w] # None
    BY DEF RecentStay
  <2>1. UsedInv(lru[p], later[p]) /\ LruOf(p, entry[p], lru[p])
    BY DEF LatersInv, CachesInv, LruInv
  <2>2. w \in Workspaces /\ IsFiniteSet(later[p][w])
    BY <2>1 DEF UsedInv
  <2>3. Cardinality(later[p][w]) \in Nat /\ MaxEntries \in Nat
    BY <2>2, FS_CardinalityType, CacheAssumption
  <2>4. Listed(lru[p], w)
    BY <2>1, <2>3 DEF UsedInv
  <2> QED BY <2>1, <2>2, <2>4 DEF LruOf
<1> QED BY <1>1, <1>2, <1>3, CachesInvariant, PTL DEF Spec

=============================================================================
