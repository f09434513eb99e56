# RAGForge in TLA+

Specifications, model-checking runs and machine-checked proofs for the
repository's backend and web client: a multi-tenant service that ingests
documents into two indexes and answers questions over them.

## 1. The system

| Part | Source (under `src/`) | State it keeps | Operations |
| --- | --- | --- | --- |
| Ingestion worker | `backend/app/workers/` | `documents.status`, `ingestion_jobs`, `document_chunks`, Qdrant points, usage ledger | `process_document_task`, its retries and `on_failure` |
| Document API | `services/document_service.py`, `api/v1/endpoints/documents.py` | `documents`, stored files, enqueued messages | upload, reingest, delete, list, status |
| BM25 index | `ai/retrieval/bm25_index.py` | a Redis version per workspace, an LRU cache per API process | `invalidate_workspace_bm25_cache`, `sparse_search` |
| Hybrid retrieval and RAG graph | `ai/retrieval/hybrid_retriever.py`, `ai/graph/` | none of its own | dense + sparse search, reciprocal rank fusion, row lookup, rerank |
| Chat | `services/chat_service.py`, `endpoints/conversations.py` | `conversations`, `messages`, `message_citations` | `stream_chat_turn`, delete conversation |
| Auth | `services/auth_service.py`, `core/security.py`, `api/deps.py` | `refresh_tokens`, `users` | login, rotate, logout, resolve a token |
| Web client session | `frontend/src/lib/api/client.ts`, `store/auth-store.ts` | tokens in the store, one shared refresh promise | `apiFetch`, refresh, logout |
| Organizations, workspaces, members, admin | `services/organization_service.py`, `workspace_service.py`, `admin_service.py` | memberships, roles, superuser and active flags | invite, remove, change role, deactivate |
| Rate limiter | `middleware/rate_limit.py` | one Redis counter per client and minute | admit or reject |
| API process | `main.py`, `api/deps.py`, `db/session.py` | a pool of database connections | guard, endpoint, stream |
| Usage and analytics | `services/usage_service.py`, `analytics_service.py` | append-only `usage_records` | record, aggregate |
| Evaluation harness | `ai/evaluation/` | none | rank a benchmark by four strategies, average the metrics |
| Web client chat page | `frontend/src/hooks/use-chat.ts`, `components/chat/`, `app/(dashboard)/chat/` | messages on the page, the stream being read | send, load a history, navigate |
| Chunking and parsers | `ai/chunking/`, `ai/parsers/` | none | split |
| Document polling in the client | `frontend/src/hooks/use-documents.ts` | query cache | poll until settled |

They meet in six places: the message queue between the document API and the
workers; the chunk rows and vectors that workers write and retrieval reads; the
BM25 version counter that workers and the API write and every API process
reads; the citation rows of chat, whose foreign keys point at chunk rows that a
re-ingestion removes; and the refresh tokens that the client rotates while
other requests of it are in flight; and the connections of an API process,
which the guards of an endpoint and the turns it streams share.

What is hard: several processes write one document without any lock around a
run; the four stores of a run have no common transaction; the broker redelivers;
state read before an `await` is used after it; and clean-up happens in one store
before it is known to succeed in the next. `PROJECT.json` lists the hazards,
each at its line.

What makes each part correct:

- *Ingestion*: a completed document has chunks, and the same ones in both
  indexes; a deleted one has none and stays deleted; whatever fails, a document
  ends completed, failed or deleted; usage is counted once.
- *BM25*: a search finds what was announced before it began, and nothing that
  was deleted before it began.
- *Chat*: a turn ends with one event that tells the truth about what was saved;
  answer, citations and usage record are saved together; answers are listed
  after their questions; follow-ups see the exchanges before them.
- *Auth and client session*: a rotated or revoked token stays dead; a session
  survives concurrent requests; logout ends it.
- *Members and administration*: a guard's answer is still true when the write
  behind it commits; someone can always administer.
- *Rate limiter and API process*: no more than the limit per minute, nobody
  refused below it, and every request ends and returns its connections.
- *Retrieval*: the ranks of the two searches decide what the model reads; a
  marker means the same excerpt to the model, in the live view and on reload.
- *Evaluation*: the metrics agree with each other and with what they measure.
- *Chat page*: it shows one conversation, whatever is still in flight for
  another, and lets its user write again.

## 2. Plan

| Order | Modules | Composes | Status |
| --- | --- | --- | --- |
| 1 | `Ingestion`, abstract `ChunkStore`, `IngestionProofs` | document API, queue, workers, four stores | done |
| 2 | `Bm25Cache`, `Bm25CacheProofs` | writers, Redis counter, caches of several API processes, searches | done |
| 3 | `ChatTurn`, abstract `TurnProtocol`, `ChatTurnProofs` | turns, conversations, removal of chunk rows | done |
| 4 | `RefreshTokens`, `AuthClient`, `AuthClientProofs` | `AuthClient` runs against `RefreshTokens` | done |
| 5 | `Administration`, `Membership`, `MembershipProofs` | `Membership` runs next to the panel, which deactivates its callers | done |
| 6 | `RateLimiter`, `ApiServer`, `ApiServerProofs` | limiter, guards, chat turns and the connection pool of one process | done |
| 7 | `RankFusion`, `Retrieval`, `RetrievalProofs`, `Evaluation` | both retrieval and the evaluation harness fuse by `RankFusion` | done |
| 8 | `ChatClient`, `ChatClientProofs` | the chat page against turns that do what `TurnProtocol` promises | done |

Every safety property that a run checks is a theorem by now; liveness is left to
TLC (see section 5). Section 6 says which parts stay unmodelled and why.

## 3. The modules

### Ingestion

`process_document_task` is a worker `w` that takes a message and runs
`_process_document`; `pc[w]` is its position, one label per transaction or store
call: `Start` (mark processing, add a job), `Prepare` (load, parse, chunk,
embed), `ClearVectors` and `Upsert` (Qdrant), `PersistDelete` and
`PersistCommit` (the final transaction, whose `DELETE` has its own snapshot),
`Invalidate` (the BM25 counter), `Ack`. A run that raises goes to `Retry`, which
is Celery's decision between a new message and `on_failure`, and to
`MarkFailed`. `Crash` is a worker host that dies (the message comes back),
`Kill` a pool child that dies (its parent acknowledges the message). The API's
upload and deletion are one action per call, because workers run between them.
`Faults` lists what may fail in an instance, so that one module serves runs with
and without each fault. `SerialSpec` restricts `Spec` to runs of one document
that do not overlap; the abstract `ChunkStore` is what readers may rely on then.
`docker-compose.yml` starts Celery with as many processes as the host has cores, so
runs can overlap there: what is stated of `SerialSpec` holds only as long as
they do not, and says nothing of an overlap.

### Bm25Cache

Writers commit rows and increment the counter in the order of the code: an
ingestion after its commit, a deletion before it. A search reads the counter,
looks the cache up, may load the rows and store an index, and finally reads the
rows of its candidates. What runs between two awaits of an API process is one
action. A document's chunk set is one chunk; ranking cuts are left out.
`announced`, `since` and `gone` only record history for the properties, and
`later` is what `RecentStay` observes: which other indexes a process used after
each. The cache's own order decides what goes; `later` does not look at it.

### ChatTurn

A turn is `stream_chat_turn`: `Begin` and `LoadHistory` (the two reads of the
first transaction), `OpenCommit` or `OpenFail`, `Retrieve`, `Token` and
`Generated`, `PersistCommit` or `PersistFail`, `Report`. `GenerationFail` is the
except clause around retrieval and generation; `Leave` is the cancellation that
a disconnected consumer causes at any await. `started` is the order of
`created_at`: PostgreSQL takes `now()` from the start of the inserting
transaction, so an answer is dated to the first read of its retrieval.
`DeleteConversation` and `RemoveChunk` (a document re-ingested or deleted) come
from other requests. The final transaction is one action: the key locks its
inserts take make its foreign keys hold until it commits. `TurnProtocol` is what
the consumer of the stream sees; the phase of a turn is computed from its label
and the events it was sent.

### RefreshTokens and AuthClient

`RefreshTokens` is the server's side for one account: a login or refresh request
`r` goes through the SELECTs of `authenticate_user` or `rotate_refresh_token`
(`Authenticate`; `CheckToken`, `CheckUser`) to `Issue`, its commit. `Revoke` is
the logout endpoint, `Deactivate` the admin panel's, `Lapse` the expiry of a
refresh token. `Issue` revokes the presented token whatever happened to it since
it was read, as the code does, which takes no row lock. `ServerSpec` is the
endpoints under any client.

`AuthClient` extends it with the browser. A call of `apiFetch` is `Fetch` (with
`getValidAccessToken`), `Serve` or `Disconnect`, and after a 401 `Denied`, the
wait, and the repeated request. The shared `refreshPromise` of a tab is its one
refresh request: it is set while that request is anything but `"none"`.
`Settle` stores the reply, resets the promise and resumes its waiters in one
step, because no event runs in between; `Login` is the form of the login page,
which opens in a tab that is logged in, too; `Logout` presents the token the user
menu was rendered with and `Leave` empties the store afterwards. An access token
and the refresh token issued with it are one number; `aged` are those whose
access half expired. Tabs keep their tokens in memory: `persist` writes them to
`localStorage`, which another tab reads only when it loads.

### Administration and Membership

An endpoint of `Administration` is one transaction at READ COMMITTED:
`AdminBegin` reads the row of its caller, which `get_current_user`,
`require_superuser` and the guards against self-demotion all look at;
`AdminLoad` reads the row to change; `AdminCommit` writes it together with its
audit row; `AdminFail` rolls both back. Others commit in between. The ORM writes
only columns that differ from what it loaded (`Written`), so a change that
another request has overwritten since may be skipped. An organization is known
by its founder, so that its plan is a third column of users.

`Membership` extends it: a request `r` passes `Begin` (the caller's row),
`Guard` (`require_membership`, `require_workspace_role`), `Look` (the slugs
taken, the user to add, the row to remove) and one of `Register`,
`CreateWorkspace`, `AddMember`, `RemoveMember`, which meet the unique
constraints. Organization and workspace members are one set of rows, because
the two tables and the two role hierarchies have one shape; roles are ranks. A
row is named by its id in the path of a removal, so that `Requested` lets a
request name any row. `gone`, `audited` and `removed` record history.

### RankFusion, Retrieval and Evaluation

`RankFusion` is reciprocal rank fusion on sequences without repetitions: `Fuse`
orders by `Score` and, because Python's sort is stable, by the order of entry.
The reciprocals are integers over a common multiple of the denominators.

`Retrieval` is one turn's way from two rankings to the excerpts behind the
markers: `Search`, `HybridRetrieveNode` (which drops candidates without a row),
`RerankNode`, `Answer` (any numbers in brackets), `Persist` or `PersistFail`
(a cited chunk has no row any more, or the save fails otherwise), `ShowDone` and `Reload`, with `RemoveChunk` at any time. An
excerpt goes by a different key at each step, and `MarkersResolve` relates them.
The cut to `FusedTopK` comes before the look-up, so stale candidates take the
places of live ones: `BestSurvive` counts them among the chunks that outrank one.

`Evaluation` translates the metrics and the four strategies of the harness. A
scorer may order the documents in any way, so a step `Evaluate` of the model is
one query with any list the strategy can return. Its specification is
`EvaluationSpec`, so that one module of proofs can extend it and `Retrieval`. Metrics are ten-thousandths, as
`round(_, 4)` leaves them; gains and discounts are scaled to integers.

### ChatClient

`view` is the state of the mounted `ChatView`, `route` its conversation, `going`
a navigation not yet carried out. `Send` is the synchronous part of
`sendMessage`; `Serve(t)` is the server's turn; `Read` handles one event of the
stream from `inbox`; `Navigate`, `Arrive` and `Stay` are the router;
`ServeHistory` and `DeliverHistory` the load of a conversation, with its
`cancelled` flag. A new route mounts a new `ChatView` and aborts the stream of
the old one, but only when the router is done: until then the page that created
a conversation goes on, with its id in its state. A server turn does no more than
`TurnProtocol` allows: an answer is stored before its `done` event. When the
connection breaks (`Break`) the turn goes on until the server notices (`Leave`),
unless the turn itself was at fault. That
Next.js remounts a page for another parameter, and that uvicorn breaks the
connection when the generator raises, is taken from how the code relies on it.

Two consequences the model shows are left as they are: a message sent between
the first answer of a new chat and the change of the route is aborted by the
unmount, and a navigation under way is overridden by the `router.replace` of a
first answer. After an error in a new chat, the next message starts another
conversation.

### RateLimiter and ApiServer

In `RateLimiter` the middleware takes the minute from the clock, sends the
`INCR`, and sends `EXPIRE` after the first; each is a step, `Tick` comes between
any two, and Redis may fail before or after either (the answer is then a 500).
A client is what `_identify_client` returns. For a bearer token that is a `hash`,
which Python salts per process: with several API processes a caller is counted
as several clients, and the limit of such a caller is one per process.
`ApiServer` takes an admitted request on: `Guard` opens the session of the
dependencies, `Answer` is a plain endpoint, `AnswerAtOnce` an exempt path that
needs no session, and a chat turn opens a session of
its own for `OpenTurn`, `CommitUser`, `Retrieve` and `EndTurn`. A session holds
a connection of the pool from its first statement to its commit or close: a turn
gives its own back after it has saved the question, and takes one again for the
retrieval, which it keeps until the answer is saved.
`GiveUp` is the pool's timeout, `Disconnect` a client that leaves. Whether the
guards' session stays open while the answer streams depends on the version of
FastAPI; `requirements.txt` allows versions of both kinds, so `keeps` is either.

## 4. The runs

Every run passes.

| Run | Configuration | Shows | Bounds |
| --- | --- | --- | --- |
| `ingestion_overlap` | `IngestionOverlap.cfg` | completed documents have chunks, deleted ones stay deleted, unfinished ones are scheduled, chunks are announced, usage is counted once | one document, two workers, two requests: two overlapping runs, a retry and a deletion |
| `ingestion_serial` | `IngestionSerial.cfg` | rows and vectors agree; refines `ChunkStore`; failed attempts stay failed | runs that do not overlap, every fault but a failing deletion |
| `ingestion_progress` | `IngestionProgress.cfg` | every ingestion settles | one crash with redelivery, retries, failing bumps and deletions |
| `bm25` | `Bm25Cache.cfg` | searches find what was announced and nothing deleted; the cache keeps its bound, and what was used last | one process, two searches, two writers, three workspaces that compete for two cache entries, one lost increment: enough for hits that reorder, evictions and a late put of an older index |
| `chat_turns` | `ChatTurn.cfg` | answer, citations, usage and question agree; follow-ups see completed exchanges; turns refine `TurnProtocol`; turns end | two turns of one conversation, two chunks, every fault; a window of one message, for which the question and the answer of the other turn compete |
| `auth_session` | `AuthClient.cfg` | finished tokens and accounts get nothing; concurrent calls keep the session and end | one tab, two calls, five tokens: two waiters of one refresh, or a call, a logout and a login, or a login over a session |
| `administration` | `Administration.cfg` | someone can always administer, unless requests overlapped; the audit log tells the state; every change is audited | two superusers, two open requests, three audited changes: enough for each to demote the other |
| `membership` | `Membership.cfg` | slugs, accounts and memberships are unique; workspaces keep an owner; only the entitled change memberships | three users, one of them still to register, two requests at once, one deactivation; a workspace in use and one to create |
| `retrieval` | `Retrieval.cfg` | ranks decide, a stale candidate costs one place, markers mean one excerpt | four chunks, rankings and cuts of three: every pair of rankings with a candidate too many |
| `evaluation` | `Evaluation.cfg` | averages agree; NDCG is 1 for ideal lists only | two queries with graded, relevant and irrelevant documents, five documents, cut-offs 1, 3 and 5 |
| `chat_client` | `ChatClient.cfg` | the page shows its conversation only; follow-ups join it; the input comes back | two messages, two conversations, two history loads in flight |
| `api_server` | `ApiServer.cfg` | the limit holds for requests counted in time; refusals are justified; every request ends | three requests, a limit of two, two minutes of two seconds, a pool of two that chat turns want two of |

Disagreements between the code and what the repository says of it that follow
from the models:

- Two overlapping runs of a document may both keep their rows
  (`ingestion_tasks.py`: "re-running replaces the previous chunk set"), which
  is why `CompletedIndexesAgree` is stated of `SerialSpec`.
- A run in flight may write vectors after a deletion has cleared them
  (`base.py:51`: "Remove all points for a document").
- A rotation issues a pair for a token that a logout or another tab has revoked
  since it was read (`auth_service.py:103-105`: "a replayed old token is a hard
  failure").
- An unknown conversation ends a stream without an event
  (`chat_service.py:123-125`: "then exactly one `ChatStreamDone` ... or
  `ChatStreamError`"); `TurnProtocol` has this outcome as one of its own.
- `UnfinishedIsScheduled` fails once `"kill"` is among the faults: a pool child
  that is killed has its message acknowledged by its parent, and the document
  stays processing (`celery_app.py:20` says a task is redelivered then).
- `UsageOncePerRequest` fails once `"crash"` is: a worker that dies after its
  commit is redelivered and records its usage again, although
  `celery_app.py:21-22` calls at-least-once delivery safe.
- `FindsAnnounced` is stated while Redis has lost no increment: one that
  restarts from a snapshot repeats a version, and an index cached under it is
  taken for current, although `DATABASE.md:3` says nothing in Redis is a system
  of record.
- A deletion announces itself to BM25 readers before it commits
  (`document_service.py:131`), so the deleted rows may stay indexed until the
  next increment, which only costs candidates, as `DeletedNeverFound` shows.
- Of two overlapping runs, the one that ends later writes its status into the
  newest job, which may be the other's (`ingestion_tasks.py:191`);
  `FailedAttemptsStay` is stated of `SerialSpec`.
- The pending job that an upload or a re-ingestion adds is never touched again,
  because every run adds its own (`ingestion_tasks.py:106`).
- `SessionKept` fails for two tabs: the second presents a token the first has
  rotated out and logs its user out. And in one tab, a logout does not wait for
  a refresh in flight, whose reply may fill the store again, or empty it under
  the next login (the last disjunct of `SessionKept`).
- Two superusers whose requests overlap can demote each other, and two owners
  remove each other: the guards look at rows that may change before the commit.
  `SomeoneAdministers` and `OwnersRemain` say that nothing else leads there,
  except that an owner of a workspace may remove the own row.
- Two audited changes of one column that overlap may leave it as the first
  audit row says, because the ORM skips the write of a value it has loaded.
- A removal from an organization leaves the memberships of its workspaces.
- The limit of the rate limiter is one of a minute on the clock: around its
  boundary twice as many requests pass, and an `INCR` that arrives after its key
  expired starts the key anew. `OnTimeBounded` counts requests whose `INCR`
  takes effect in the minute they were named for.

`CHECK_DEADLOCK FALSE` stands where the bounds let the system stop: all
requests made, all turns over, every document and conversation gone.

*Why the bounds are enough.* A document, a conversation or a workspace never
waits for another, so the properties are about one of them with as many
processes as can meet on it: two runs and a deletion, two searches and two
writers, two turns and the requests that delete under them, two requests that
invalidate each other's guard. Slugs and superusers are shared by all users; two
requests for one slug, or two callers that change each other, are the smallest
conflict over them. `Retrieval` and `Evaluation` run over one list at a time, and
all lists of the lengths given are tried. Counters of the models
(`MaxVersion`, `MaxTokens`, `MaxAudit`, `MaxRequests`, `MaxSuffix`, `MaxMarkers`,
`MaxLoads`, `MaxMinute`, and the bounds that `Ingestion` declares) bound
how long an instance goes on, not what it can do in between.

*Fairness.* `ingestion_progress` assumes weak fairness of every step of the
workers and of the broker (they poll without end), and strong fairness of each
run's step: the step of a run is disabled while a deletion holds the row's lock,
which it does again and again only if deletions are requested without end.
`chat_turns` assumes, for `TurnsEnd`, weak fairness of each turn: it is a task of the event loop
whose awaits return or raise, and a model's answer is finite. `auth_session` assumes, for `CallsEnd`, that requests are
answered and that the event loop runs what their replies resume; `chat_client`,
for `InputComesBack`, the same of each turn, of the events of the stream being read
and of the history loads; `api_server`, for `EveryRequestEnds`, that Redis, the
database and the providers answer or fail and that a request whose next step stays
possible takes it (one that waits for a connection may always time out). Nothing is
assumed of users: uploads, deletions, disconnects, navigation and new turns may
never come. `InputComesBack` is conditional on a user who stops changing pages.

## 5. The proofs

All theorems hold for any sets and bounds the assumptions on the constants
allow. Each follows from an inductive invariant that was checked by TLC first.

`IngestionProofs`: `TypeCorrect`, `CompletedHaveChunks` and
`DeletedDocumentsStayDeleted` for `Spec`; `UnfinishedAreScheduled` with its
three faults excluded; `SerialImplementsChunkStore` and
`CompletedDocumentsAgree` for `SerialSpec`. That a completed document has chunks
is not inductive: the invariant adds what a run between `PersistDelete` and
`PersistCommit` has deleted and is about to write, and that rows need their
document. Agreement of the two indexes needs, for each position of a run, which
generation is in which store. `UnannouncedAreTransient` supposes that Redis and
the worker processes survive (`AnnouncementsSurvive`): the increment that follows
a commit is lost with either. `UsageCountedOnce` supposes that no worker host
dies (`RunsDeliveredOnce`), as section 4 explains; its invariant `UsageInv` is an
account: what the ledger counts, the requests not yet published, the messages in
the broker and the runs that may still count are together no more than the
requests. `FailedAttemptsStayFailed`, for `SerialSpec`, needs that the newest row
of `ingestion_jobs` is no failed one while a run may complete it (`AttemptInv`),
because the code finds its row again by "the latest".

`Bm25CacheProofs`: `SearchesFindAnnounced` until Redis loses an increment, and
`DeletedChunksNeverFound` without that. The invariant of the first says of every
index, cached or about to be stored, that if its version is the current one it
contains every live chunk announced by now; versions never exceed the counter,
so an index loaded early can only be stored as older than it is. The second
needs only that rows are never retired. `CachesStayBounded` and
`RecentIndexesStay` are about the LRU order: its list has every key of the
dictionary once and no other (`LruInv`), through hits, puts of new and known keys
and evictions, so that the key at its head is one the cache holds; and whatever
comes after a key in that order was used after it. The keys behind the one that
is evicted are `MaxEntries` in number (`KeyCount`), so as many other indexes were
used since.

`ChatTurnProofs`: `TypeCorrect`, `CitationsAlwaysMatch`, `UsageAlwaysMatches`,
`AnswersAlwaysFollow`, `FollowUpsRemember` and `TurnsKeepProtocol`. The invariant
says per turn that until `PersistCommit` nothing of its answer is stored or
counted, that a counted answer is stored until its conversation goes, and that
only a closed turn was told it is done; `AnswersAlwaysFollow` adds that a
question's transaction starts before its answer's. For `FollowUpsRemember` (`MemoryInv`) a
turn that its user knows to be answered must have both messages stored for as
long as the conversation lives, and the order of `created_at` must put nothing
new before what has started: the messages that displace one of them from the
history stay newer than it.

`AuthClientProofs`: `LateAlwaysGetsNothing` for `ServerSpec`, and, because
`ClientUsesEndpoints` shows that `AuthClient` implements it, for the client;
`TypeCorrect`; `RejectedOnlyWhenOver` for any number of tabs;
`OneTabKeepsSession` if there is one. The invariant behind the last two says
that a token on its way to the client is live and held by nobody else, so that
what a settling refresh stores and hands out works; for one tab it adds that the
token of the store works unless a logout is under way, time or the account is
over, or a refresh has replaced it and its reply is still to be stored.

`MembershipProofs`, of the panel: `AdminTypeCorrect`, `AdministratorsRemain`,
`AuditIsTrue` and `ChangesAudited` for `AdminSpec`. The invariant says what a
guard and a look-up are still worth later: the caller of an open request is a
superuser, or an audit row written since it began says who took that away
(`GuardInv`); and a loaded value is the current one, or a row since then is about
the same column (`LoadInv`). A superuser who is the last one can then only be
demoted by a request that overlapped the one that made him the last. Of
memberships: `MemberTypeCorrect`, `RowsUnique`, `OwnersStay` and
`ChangesEntitled` for `Spec`, panel included, by the same argument on
memberships (`CallerInv`); `ShapeInv` says of what shape the row of each
request is, that the ids of workspaces to come are fresh, and that nobody is a
member of what does not exist.

`RetrievalProofs`: `MarkersMeanTheirExcerpts` rests on two lemmas, `NthElement` (a
finite set of numbers has an n-th smallest element, for each n up to its size)
and `IndicesNumberExcerpts` (whatever the model writes, what is extracted numbers
excerpts). `RanksDecide` and `StaleCostsOnePlace` rest on `FuseSorts`: outranking
is a strict total order of what the searches list, ties included, and `Fuse`
lists all of it in that order, once. `RanksDecide` supposes
`SearchTopK <= RrfK + 1`, which the code satisfies (50 and 60) and which is
tight: the last of 62 ranks is worth half a first one, and a chunk that both
searches list last ties with one that a single search lists first.
`AveragesAlwaysAgree` is about the harness: by the same lemmas no strategy
returns a document twice, so that hits are no more than ranks and no more than
relevant documents; what holds of the metrics of each list (`Agree`) then holds
of their sums. `PerfectListsAreIdeal` is a rearrangement argument. A gain is
worth 4, 6 and 60 for reaching the grades 1, 2 and 6, so that what the gains up
to a rank are short of the best ones is a weighted number of documents missing
there (`Lack`); as discounts decrease, what is lacking at one rank costs more than
a later one can repay (`Losses`), and nothing is lacking at any rank exactly for
lists with the best documents first (`BestFirstLacksNothing`). That the rounding
to four digits tells the two apart needs a bound on the ideal gain
(`BestGains`, `RoundedBelow`). It supposes `TopK <= Cardinality(Docs)`: the
benchmark has 20 documents and no cut-off above 10, and with fewer documents
than the cut-off even the best list falls short of the ideal one. `UpTo`
stands in for induction: it takes a set where a predicate is meant.

`ChatClientProofs`: `PageShowsItsConversation` and `FollowUpsStay`, for any
messages, conversations and loads. Their invariant relates three parties that see
each other late: the bubbles of the mounted page, the turn of the server and its
rows, and the events and histories on their way. A bubble of the page is a
message of a turn whose home, once known, is the page's conversation (`BubbleInv`);
the page reads the stream of its last message, which ends only after an event
that fills the open bubble (`EndInv`); at most one load in flight is still wanted,
by the page that waits for it, and what it carries was read from the rows of that
conversation (`LoadInv`); complete answers have the page's conversation as their
home (`JoinInv`).
`Forward` collects what no step takes back, for the facts that a load
or an event carries from an earlier state.

`ApiServerProofs`: `LimiterTypeCorrect`, `LimitHolds` and `RefusalsJustified` for
the `Spec` of `ApiServer`. The invariant relates a counter to the requests
counted in it. No key ends within the minute it is named after (`KeyInv`), so a
request counted in time got a value of its own, none above the counter's
(`RankInv`): at most the limit of them got one up to the limit. And no counter,
and no value got from one, exceeds the number of requests counted (`CountInv`):
who is refused is one of more than the limit.

Only model-checked: liveness (`Settles`, `TurnsEnd`, `CallsEnd`,
`EveryRequestEnds`, `InputComesBack`), which is out of the prover's reach.

## 6. Not modelled

- Remote providers, storage and the Qdrant client appear only as calls that
  succeed or fail; parsers and text splitting as the chunks they yield. The
  rewriting of the query is such a call and changes no state.
- Tokenisation, BM25 scores, prompts and wording are data the properties do not
  look at; rankings are any order.
- The sums of the usage dashboard and the panel's lists are SQL that changes no
  state, and `update_workspace` changes only a name and a description.
- The polling of the documents page shows the last status read, which
  `Ingestion` models; its cache belongs to a library. Other pages, charts and
  dialogs are presentation.
- A commit whose acknowledgement is lost counts as not applied.
- Schemas and migrations are data shapes; the constraints that matter are in the
  models that meet them. Tables nobody writes (`api_keys` and the like) are left
  out.
- Configuration, logging and request ids have no state that a property could be
  about.
