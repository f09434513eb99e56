------------------------------ MODULE Bm25Cache ------------------------------
(***************************************************************************)
(* Keyword retrieval: the BM25 version counter of a workspace in Redis,    *)
(* the writers that commit chunk rows and increment it, the LRU cache of   *)
(* indexes every API process keeps, and the searches that go through it up *)
(* to the row lookup of hybrid_retrieve_node.                              *)
(*                                                                         *)
(* A document's chunk set is one chunk here, an index is the set of chunks *)
(* it was built from, and the ranking cuts are left out (the instances     *)
(* have fewer chunks than any top_k).  What runs between two awaits of an  *)
(* API process is one action.                                              *)
(*                                                                         *)
(* KeepPlace, LateVersion, RoomForOneMore and WithoutLookup are no part *)
(* of the specification: each stands before the definition it gets wrong.  *)
(***************************************************************************)
EXTENDS Naturals, Sequences, SequencesExt

CONSTANTS
  Workspaces,  (* Workspaces, the keys of the cache.                       *)
  Chunks,      (* Chunk ids; uuid4, so none is ever used twice.            *)
  Procs,       (* API processes, each with a cache of its own.             *)
  Slots,       (* Searches an API process runs at one time.                *)
  Dense,       (* Candidates the dense search may return.                  *)
  Writers,     (* Ingestion runs and deletions under way at one time.      *)
  MaxEntries,  (* _CACHE_MAX_WORKSPACES; 32 in the code.                   *)
  MaxLosses,   (* Bound: Redis restarts that lose the latest increments.   *)
  MaxVersion,  (* Bound: the highest version an increment may give.        *)
  None         (* No entry, no chunk.                                      *)

ASSUME CacheAssumption ==
  /\ MaxEntries \in Nat \ {0}
  /\ MaxLosses \in Nat
  /\ MaxVersion \in Nat
  /\ Dense \subseteq SUBSET Chunks
  /\ None \notin Chunks \union [version : Nat, chunks : SUBSET Chunks]

VARIABLES
  rows,       \* rows[w]: the chunks of w committed in Postgres
  retired,    \* chunks whose rows were deleted
  version,    \* version[w]: Redis key bm25:version:w
  announced,  \* announced[w]: rows[w] as of the last INCR
  losses,     \* Redis restarts so far
  wpc,        \* wpc[x]: what writer x still has to do
  target,     \* target[x]: the workspace it writes
  victim,     \* victim[x]: the chunk a deletion is about to remove
  entry,      \* entry[p][w]: the cached index of w in process p, or None
  lru,        \* lru[p]: the cached workspaces of p, most recent last
  later,      \* later[p][w]: the workspaces whose index p used after w's
  pc,         \* pc[s]: the next step of search s
  scope,      \* scope[s]: the workspace s searches
  ver,        \* ver[s]: the version s read
  hits,       \* hits[s]: the chunks of the index s searched
  context,    \* context[s]: context_chunks, what s found
  since,      \* since[s]: announced[scope[s]] when s began
  gone        \* gone[s]: retired when s began

content  == <<rows, retired, announced>>
redis    == <<version, losses>>
writers  == <<wpc, target, victim>>
caches   == <<entry, lru, later>>
search   == <<scope, ver, hits, context, since, gone>>
vars     == <<content, redis, writers, caches, pc, search>>

Searches == Procs \X Slots
Proc(s)  == s[1]

Entries  == [version : Nat, chunks : SUBSET Chunks]
Label    == {"idle", "version", "lookup", "load", "put", "fetch", "done"}

ContentTypeOK ==
  /\ rows \in [Workspaces -> SUBSET Chunks]
  /\ retired \in SUBSET Chunks
  /\ announced \in [Workspaces -> SUBSET Chunks]
  /\ version \in [Workspaces -> Nat]
  /\ losses \in Nat
  /\ wpc \in [Writers -> {"idle", "announce", "remove"}]
  /\ target \in [Writers -> Workspaces]
  /\ victim \in [Writers -> Chunks \union {None}]

SearchTypeOK ==
  /\ pc \in [Searches -> Label]
  /\ scope \in [Searches -> Workspaces]
  /\ ver \in [Searches -> Nat]
  /\ hits \in [Searches -> SUBSET Chunks]
  /\ context \in [Searches -> SUBSET Chunks]
  /\ since \in [Searches -> SUBSET Chunks]
  /\ gone \in [Searches -> SUBSET Chunks]

Init ==
  /\ rows = [w \in Workspaces |-> {}]
  /\ retired = {}
  /\ announced = [w \in Workspaces |-> {}]
  /\ version = [w \in Workspaces |-> 0]
  /\ losses = 0
  /\ wpc = [x \in Writers |-> "idle"]
  /\ \E w \in Workspaces : target = [x \in Writers |-> w]
  /\ victim = [x \in Writers |-> None]
  /\ entry = [p \in Procs |-> [w \in Workspaces |-> None]]
  /\ lru = [p \in Procs |-> << >>]
  /\ later = [p \in Procs |-> << >>]
  /\ pc = [s \in Searches |-> "idle"]
  /\ \E w \in Workspaces : scope = [s \in Searches |-> w]
  /\ ver = [s \in Searches |-> 0]
  /\ hits = [s \in Searches |-> {}]
  /\ context = [s \in Searches |-> {}]
  /\ since = [s \in Searches |-> {}]
  /\ gone = [s \in Searches |-> {}]

-----------------------------------------------------------------------------
(* The writers.                                                            *)

Unused(c) == c \notin retired /\ \A w \in Workspaces : c \notin rows[w]

\* INCR: the rows readers are told of are those committed by now.
Bump(w) ==
  /\ version[w] < MaxVersion
  /\ version' = [version EXCEPT ![w] = @ + 1]
  /\ announced' = [announced EXCEPT ![w] = rows[w]]

\* The final transaction of an ingestion run: new rows, and the old ones of
\* the document, if it had any, are gone.
IngestCommit(x) ==
  /\ wpc[x] = "idle"
  /\ \E w \in Workspaces, c \in Chunks, old \in SUBSET Chunks :
       /\ Unused(c)
       /\ old \subseteq rows[w]
       /\ \A a, b \in old : a = b
       /\ rows' = [rows EXCEPT ![w] = (@ \ old) \union {c}]
       /\ retired' = retired \union old
       /\ target' = [target EXCEPT ![x] = w]
  /\ wpc' = [wpc EXCEPT ![x] = "announce"]
  /\ UNCHANGED <<announced, redis, victim, caches, pc, search>>

\* The run tells the readers ...
IngestBump(x) ==
  /\ wpc[x] = "announce"
  /\ Bump(target[x])
  /\ wpc' = [wpc EXCEPT ![x] = "idle"]
  /\ UNCHANGED <<rows, retired, losses, target, victim, caches, pc, search>>

\* ... or Redis fails or the worker dies, and it does not.  A deletion that
\* does not reach its commit is rolled back.
WriterFail(x) ==
  /\ wpc[x] # "idle"
  /\ wpc' = [wpc EXCEPT ![x] = "idle"]
  /\ victim' = [victim EXCEPT ![x] = None]
  /\ UNCHANGED <<content, redis, target, caches, pc, search>>

\* delete_document increments the version and commits afterwards.
DeleteBump(x) ==
  /\ wpc[x] = "idle"
  /\ \E w \in Workspaces : \E c \in rows[w] :
       /\ Bump(w)
       /\ target' = [target EXCEPT ![x] = w]
       /\ victim' = [victim EXCEPT ![x] = c]
  /\ wpc' = [wpc EXCEPT ![x] = "remove"]
  /\ UNCHANGED <<rows, retired, losses, caches, pc, search>>

DeleteCommit(x) ==
  /\ wpc[x] = "remove"
  /\ rows' = [rows EXCEPT ![target[x]] = @ \ {victim[x]}]
  /\ retired' = retired \union {victim[x]}
  /\ wpc' = [wpc EXCEPT ![x] = "idle"]
  /\ victim' = [victim EXCEPT ![x] = None]
  /\ UNCHANGED <<announced, redis, target, caches, pc, search>>

\* Redis restarts from a snapshot older than the latest increments.
RedisRestart ==
  /\ losses < MaxLosses
  /\ losses' = losses + 1
  /\ \E w \in Workspaces : \E v \in 0..version[w] :
       version' = [version EXCEPT ![w] = v]
  /\ UNCHANGED <<content, writers, caches, pc, search>>

-----------------------------------------------------------------------------
(* The cache of an API process.                                            *)

(* mutant: a key that is listed stays where it is *)
KeepPlace(order, w) == IF Contains(order, w) THEN order ELSE Append(order, w)

\* OrderedDict: w, listed once or new, becomes the most recent key.
MoveToEnd(order, w) == Append(RemoveFirst(order, w), w)

\* What has been used later, now that w is: an observation, no state of the code.
Use(used, w) == [v \in DOMAIN used \union {w} |-> IF v = w THEN {} ELSE used[v] \union {w}]

LateVersion(s) == [version |-> version[scope[s]], chunks |-> hits[s]]

\* The index s built, under the version s read before it loaded the rows.
NewEntry(s) == [version |-> ver[s], chunks |-> hits[s]]

RoomForOneMore(order) == Len(order) > MaxEntries + 1

TooMany(order) == Len(order) > MaxEntries

WithoutLookup(s, dense) == hits[s] \union dense

\* The rows of the candidates that still exist; the lookup is by id alone.
Found(s, dense) == (hits[s] \union dense) \intersect UNION {rows[w] : w \in Workspaces}

-----------------------------------------------------------------------------
(* sparse_search and the row lookup after it.                              *)

Goto(s, label) == pc' = [pc EXCEPT ![s] = label]

\* The local variables of a search that is over.
Forget(s) ==
  /\ ver' = [ver EXCEPT ![s] = 0]
  /\ hits' = [hits EXCEPT ![s] = {}]

Begin(s) ==
  /\ pc[s] \in {"idle", "done"}
  /\ \E w \in Workspaces :
       /\ scope' = [scope EXCEPT ![s] = w]
       /\ since' = [since EXCEPT ![s] = announced[w]]
  /\ gone' = [gone EXCEPT ![s] = retired]
  /\ context' = [context EXCEPT ![s] = {}]
  /\ Goto(s, "version")
  /\ UNCHANGED <<content, redis, writers, caches, ver, hits>>

GetVersion(s) ==
  /\ pc[s] = "version"
  /\ ver' = [ver EXCEPT ![s] = version[scope[s]]]
  /\ Goto(s, "lookup")
  /\ UNCHANGED <<content, redis, writers, caches, scope, hits, context, since, gone>>

\* _cache.get, once the version has arrived.
Lookup(s) ==
  LET p == Proc(s)
      w == scope[s]
      hit == entry[p][w] # None /\ entry[p][w].version = ver[s]
  IN
  /\ pc[s] = "lookup"
  /\ \/ /\ hit
        /\ hits' = [hits EXCEPT ![s] = entry[p][w].chunks]
        /\ lru' = [lru EXCEPT ![p] = MoveToEnd(@, w)]
        /\ later' = [later EXCEPT ![p] = Use(@, w)]
        /\ Goto(s, "fetch")
     \/ /\ ~hit
        /\ Goto(s, "load")
        /\ UNCHANGED <<hits, lru, later>>
  /\ UNCHANGED <<content, redis, writers, entry, scope, ver, context, since, gone>>

\* The SELECT of the workspace's chunks sees the rows committed by then.
Load(s) ==
  /\ pc[s] = "load"
  /\ hits' = [hits EXCEPT ![s] = rows[scope[s]]]
  /\ Goto(s, "put")
  /\ UNCHANGED <<content, redis, writers, caches, scope, ver, context, since, gone>>

\* _cache.put, once the rows have arrived.
Put(s) ==
  LET p     == Proc(s)
      w     == scope[s]
      order == MoveToEnd(lru[p], w)
      out   == IF TooMany(order) THEN {Head(order)} ELSE {}
  IN
  /\ pc[s] = "put"
  /\ entry' = [entry EXCEPT ![p] = [k \in Workspaces |->
                 IF k \in out THEN None ELSE IF k = w THEN NewEntry(s) ELSE @[k]]]
  /\ lru' = [lru EXCEPT ![p] = IF TooMany(order) THEN Tail(order) ELSE order]
  /\ later' = [later EXCEPT ![p] = Use(@, w)]
  /\ Goto(s, "fetch")
  /\ UNCHANGED <<content, redis, writers, search>>

\* hybrid_retrieve_node: the dense candidates may be any chunks, indexed but
\* not committed or left behind by a deletion.
Fetch(s) ==
  /\ pc[s] = "fetch"
  /\ \E dense \in Dense : context' = [context EXCEPT ![s] = Found(s, dense)]
  /\ Forget(s)
  /\ Goto(s, "done")
  /\ UNCHANGED <<content, redis, writers, caches, scope, since, gone>>

\* One of the awaits raises, or the client is gone.
Abandon(s) ==
  /\ pc[s] \notin {"idle", "done"}
  /\ Forget(s)
  /\ since' = [since EXCEPT ![s] = {}]
  /\ gone' = [gone EXCEPT ![s] = {}]
  /\ Goto(s, "idle")
  /\ UNCHANGED <<content, redis, writers, caches, scope, context>>

-----------------------------------------------------------------------------

Write(x) ==
  \/ IngestCommit(x)
  \/ IngestBump(x)
  \/ WriterFail(x)
  \/ DeleteBump(x)
  \/ DeleteCommit(x)

Search(s) ==
  \/ Begin(s)
  \/ GetVersion(s)
  \/ Lookup(s)
  \/ Load(s)
  \/ Put(s)
  \/ Fetch(s)
  \/ Abandon(s)

Next ==
  \/ \E x \in Writers : Write(x)
  \/ \E s \in Searches : Search(s)
  \/ RedisRestart

Spec == Init /\ [][Next]_vars

-----------------------------------------------------------------------------
(* Properties.                                                             *)

\* A search finds every chunk that was committed and announced when it began
\* and still exists, whichever process, cache hit, eviction or late put of an
\* older index it goes through ("the web process's cache correctly detects
\* staleness", bm25_index.py:13-14), as long as Redis has lost no increment.
FindsAnnounced ==
  losses = 0 =>
    \A s \in Searches : pc[s] = "done" => since[s] \ retired \subseteq context[s]

\* A chunk deleted before a search began is not in what the search found,
\* although the index it used may still list it (nodes.py:83-86).
DeletedNeverFound ==
  \A s \in Searches : pc[s] = "done" => context[s] \intersect gone[s] = {}

\* An index stays cached until as many others have been used as there is room
\* for: whatever hits, late puts of older indexes and evictions of searches that
\* overlap, the busy workspaces of a process are not indexed anew (move_to_end in
\* _WorkspaceBM25Cache.get and put).
RecentStay ==
  \A p \in Procs : \A w \in DOMAIN later[p] :
    Cardinality(later[p][w]) < MaxEntries => entry[p][w] # None

\* No sequence of hits, puts and evictions lets a cache outgrow its maximum,
\* or evicts the index that was just stored (_WorkspaceBM25Cache.put).
CacheBounded ==
  [][\A p \in Procs :
       /\ Len(lru'[p]) <= MaxEntries
       /\ \A s \in Searches :
            Proc(s) = p /\ pc[s] = "put" /\ pc'[s] = "fetch" => entry'[p][scope[s]] # None]_vars

=============================================================================
