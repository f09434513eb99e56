------------------------------ MODULE Ingestion ------------------------------
(***************************************************************************)
(* Document ingestion: the document endpoints of the API, the Celery       *)
(* broker, the worker processes that run process_document_task, and the    *)
(* four stores a run writes (Postgres, Qdrant, the file storage and the    *)
(* BM25 version counter in Redis).                                         *)
(*                                                                         *)
(* One database transaction is one action (read committed, with the row    *)
(* lock that a flushed DELETE of the document holds until its commit); one *)
(* call to another store is one action.  The two transactions that are     *)
(* long enough to interleave with others are split: the final transaction  *)
(* of a run at the snapshot its DELETE statement sees, and delete_document *)
(* at every call it makes.  A chunk set is written in one transaction and  *)
(* in one upsert, so it is abstracted to one value, its generation.        *)
(*                                                                         *)
(* ExistedOnce, SetOldestJob, RaiseUnrecorded, AddRows, InsertThenDelete,  *)
(* ClearNothing, InvalidateNothing, InvalidateOrRetry and RetryOrGiveUp    *)
(* are no part of the specification: each stands before the definition it  *)
(* gets wrong, to show that a property would notice.                       *)
(***************************************************************************)
EXTENDS Naturals, Sequences, FiniteSets

CONSTANTS
  Docs,         (* Document ids of one workspace, fresh ones included.     *)
  Workers,      (* Worker processes, each running one task at a time.      *)
  MaxRetries,   (* max_retries of process_document_task; 3 in the code.    *)
  Faults,       (* The kinds of failure the environment may produce.       *)
  MaxGen,       (* Bound: chunk generations alive at one time.             *)
  MaxRequests,  (* Bound: uploads and re-ingestions of one document.       *)
  MaxCrashes,   (* Bound: worker crashes.                                  *)
  None          (* The message of a worker that has none.                  *)

FaultKinds ==
  { "upstream",  \* the embedding provider or Qdrant raises UpstreamProviderError
    "terminal",  \* any other exception while parsing, chunking or indexing
    "db",        \* a transaction of a worker fails
    "redis",     \* INCR of the BM25 version fails in a worker
    "broker",    \* publishing a message fails, or its publisher dies first
    "delete",    \* one of the calls of delete_document fails
    "upload",    \* the commit of an upload fails after its file was saved
    "crash",     \* a worker dies with its parent: its message is redelivered
    "kill" }     \* a pool child is killed: its parent acknowledges the message

Gens     == 1..MaxGen
Messages == [doc : Docs, tries : 0..MaxRetries]

ASSUME IngestionAssumption ==
  /\ MaxRetries \in Nat
  /\ MaxGen \in Nat
  /\ MaxRequests \in Nat
  /\ MaxCrashes \in Nat
  /\ Faults \subseteq FaultKinds
  /\ None \notin Messages
  /\ 0 \notin Gens

VARIABLES
  \* Postgres
  doc,        \* doc[d]: documents.status, "absent" or "gone" without a row
  jobs,       \* jobs[d]: ingestion_jobs.status in created_at order
  rows,       \* rows[d]: the generations of d's document_chunks
  usage,      \* usage[d]: DOCUMENT_INGESTED events written for d
  \* the other stores
  vecs,       \* vecs[d]: the generations of d's points in Qdrant
  files,      \* the documents whose file is stored
  announced,  \* the chunk rows as of the last INCR of the BM25 version
  \* broker and API
  queue,      \* queue[m]: how many messages m wait in the broker
  pend,       \* pend[d]: committed requests whose .delay() has not run yet
  del,        \* del[d]: the next call of delete_document(d), "no" if none
  \* worker processes
  pc,         \* pc[w]: the next step of _process_document
  msg,        \* msg[w]: the message w holds unacknowledged
  gen,        \* gen[w]: the generation w prepared, 0 before that
  seen,       \* seen[w]: the rows the DELETE of w's final transaction hits
  \* counters
  requests,   \* requests[d]: uploads and re-ingestions accepted for d
  crashes     \* worker crashes so far

database == <<doc, jobs, rows, usage>>
stores   == <<vecs, files, announced>>
api      == <<pend, del, requests>>
run      == <<msg, gen, seen>>
vars     == <<database, stores, queue, api, pc, run, crashes>>

DocStatus == {"absent", "pending", "processing", "completed", "failed", "gone"}
JobStatus == {"pending", "running", "completed", "failed"}
DelStep   == {"no", "file", "flush", "bump", "commit"}
Label     == {"idle", "start", "prepare", "clear", "upsert", "persist", "commit",
              "invalidate", "retry", "marking", "on_failure", "ack"}

DatabaseTypeOK ==
  /\ doc \in [Docs -> DocStatus]
  /\ jobs \in [Docs -> Seq(JobStatus)]
  /\ rows \in [Docs -> SUBSET Gens]
  /\ usage \in [Docs -> Nat]

StoresTypeOK ==
  /\ vecs \in [Docs -> SUBSET Gens]
  /\ files \in SUBSET Docs
  /\ announced \in [Docs -> SUBSET Gens]

ApiTypeOK ==
  /\ queue \in [Messages -> Nat]
  /\ pend \in [Docs -> Nat]
  /\ del \in [Docs -> DelStep]
  /\ requests \in [Docs -> Nat]
  /\ crashes \in Nat

\* Where a run holds the chunks it prepared.
Indexing == {"clear", "upsert", "persist", "commit"}

\* A worker holds a message from Take until it releases it.
WorkersTypeOK ==
  /\ pc \in [Workers -> Label]
  /\ msg \in [Workers -> Messages \union {None}]
  /\ \A w \in Workers : pc[w] # "idle" => msg[w] \in Messages
  /\ gen \in [Workers -> Gens \union {0}]
  /\ \A w \in Workers : pc[w] \in Indexing => gen[w] \in Gens
  /\ seen \in [Workers -> SUBSET Gens]

\* The type invariant.
TypeOK == DatabaseTypeOK /\ StoresTypeOK /\ ApiTypeOK /\ WorkersTypeOK

Init ==
  /\ doc = [d \in Docs |-> "absent"]
  /\ jobs = [d \in Docs |-> << >>]
  /\ rows = [d \in Docs |-> {}]
  /\ usage = [d \in Docs |-> 0]
  /\ vecs = [d \in Docs |-> {}]
  /\ files = {}
  /\ announced = [d \in Docs |-> {}]
  /\ queue = [m \in Messages |-> 0]
  /\ pend = [d \in Docs |-> 0]
  /\ del = [d \in Docs |-> "no"]
  /\ pc = [w \in Workers |-> "idle"]
  /\ msg = [w \in Workers |-> None]
  /\ gen = [w \in Workers |-> 0]
  /\ seen = [w \in Workers |-> {}]
  /\ requests = [d \in Docs |-> 0]
  /\ crashes = 0

-----------------------------------------------------------------------------
(* Shared helpers.                                                         *)

ExistedOnce(d) == doc[d] # "absent"

Exists(d) == doc[d] \notin {"absent", "gone"}

\* The DELETE of the document row is flushed and not yet committed: a
\* transaction that writes the row, or rows that reference it, waits.
Locked(d) == del[d] \in {"bump", "commit"}

DocOf(w) == msg[w].doc

Goto(w, label) == pc' = [pc EXCEPT ![w] = label]

SetOldestJob(d, status) ==
  jobs' = [jobs EXCEPT ![d] =
             IF @ = << >> THEN @ ELSE [@ EXCEPT ![1] = status]]

\* The newest ingestion_jobs row of d, if there is one, gets a new status.
SetLatestJob(d, status) ==
  jobs' = [jobs EXCEPT ![d] =
             IF @ = << >> THEN @ ELSE [@ EXCEPT ![Len(@)] = status]]

AddJob(d, status) == jobs' = [jobs EXCEPT ![d] = Append(@, status)]

Publish(m) == queue' = [queue EXCEPT ![m] = @ + 1]

\* No store, worker or BM25 reader refers to the generation.
Unused(g) ==
  /\ \A d \in Docs : g \notin rows[d] \union vecs[d] \union announced[d]
  /\ \A w \in Workers : g # gen[w]

\* uuid4 ids: a generation nothing refers to, the smallest one of them.
Fresh(g) ==
  /\ Unused(g)
  /\ \A h \in Gens : Unused(h) => g <= h

\* The chunks of a run that is over, or that failed, are forgotten.
Forget(w) ==
  /\ gen' = [gen EXCEPT ![w] = 0]
  /\ seen' = [seen EXCEPT ![w] = {}]

Proceed(w, label) == Goto(w, label) /\ UNCHANGED <<gen, seen>>

RaiseUnrecorded(w) ==
  /\ Forget(w)
  /\ \/ "upstream" \in Faults /\ Goto(w, "retry")
     \/ "terminal" \in Faults /\ Goto(w, "ack")

\* An indexing call raised.
Raise(w) ==
  /\ Forget(w)
  /\ \/ "upstream" \in Faults /\ Goto(w, "retry")
     \/ "terminal" \in Faults /\ Goto(w, "marking")

AddRows(w) == rows' = [rows EXCEPT ![DocOf(w)] = @ \union {gen[w]}]

InsertThenDelete(w) == rows' = [rows EXCEPT ![DocOf(w)] = {}]

\* The DELETE of the final transaction, then its inserts.
ReplaceRows(w) ==
  rows' = [rows EXCEPT ![DocOf(w)] = (@ \ seen[w]) \union {gen[w]}]

-----------------------------------------------------------------------------
(* The document endpoints.                                                 *)

\* create_document saves the file before it writes any row.
UploadSave(d) ==
  /\ doc[d] = "absent"
  /\ d \notin files
  /\ files' = files \union {d}
  /\ UNCHANGED <<database, vecs, announced, queue, api, pc, run, crashes>>

\* The document and its pending job, committed by the endpoint.
UploadCommit(d) ==
  /\ doc[d] = "absent"
  /\ d \in files
  /\ requests[d] < MaxRequests
  /\ doc' = [doc EXCEPT ![d] = "pending"]
  /\ AddJob(d, "pending")
  /\ pend' = [pend EXCEPT ![d] = @ + 1]
  /\ requests' = [requests EXCEPT ![d] = @ + 1]
  /\ UNCHANGED <<rows, usage, stores, queue, del, pc, run, crashes>>

\* The insert or the commit fails: get_db rolls back and the file stays.
UploadFail(d) ==
  /\ "upload" \in Faults
  /\ doc[d] = "absent"
  /\ d \in files
  /\ doc' = [doc EXCEPT ![d] = "gone"]
  /\ UNCHANGED <<jobs, rows, usage, stores, queue, api, pc, run, crashes>>

\* enqueue_ingestion, after the commit.
Enqueue(d) ==
  /\ pend[d] > 0
  /\ pend' = [pend EXCEPT ![d] = @ - 1]
  /\ \/ Publish([doc |-> d, tries |-> 0])
     \/ "broker" \in Faults /\ UNCHANGED queue
  /\ UNCHANGED <<database, stores, del, requests, pc, run, crashes>>

\* reingest_document: no guard on the status the document has.
Reingest(d) ==
  /\ Exists(d)
  /\ ~Locked(d)
  /\ requests[d] < MaxRequests
  /\ doc' = [doc EXCEPT ![d] = "pending"]
  /\ AddJob(d, "pending")
  /\ pend' = [pend EXCEPT ![d] = @ + 1]
  /\ requests' = [requests EXCEPT ![d] = @ + 1]
  /\ UNCHANGED <<rows, usage, stores, queue, del, pc, run, crashes>>

\* delete_document: vectors, file, row (flushed), BM25 version, commit.  One
\* deletion of a document at a time.
DeleteVectors(d) ==
  /\ Exists(d)
  /\ del[d] = "no"
  /\ vecs' = [vecs EXCEPT ![d] = {}]
  /\ del' = [del EXCEPT ![d] = "file"]
  /\ UNCHANGED <<database, files, announced, queue, pend, requests, pc, run, crashes>>

DeleteFile(d) ==
  /\ del[d] = "file"
  /\ files' = files \ {d}
  /\ del' = [del EXCEPT ![d] = "flush"]
  /\ UNCHANGED <<database, vecs, announced, queue, pend, requests, pc, run, crashes>>

DeleteFlush(d) ==
  /\ del[d] = "flush"
  /\ del' = [del EXCEPT ![d] = "bump"]
  /\ UNCHANGED <<database, stores, queue, pend, requests, pc, run, crashes>>

\* A reader that loads the index under the new version still sees d's rows.
DeleteBump(d) ==
  /\ del[d] = "bump"
  /\ announced' = rows
  /\ del' = [del EXCEPT ![d] = "commit"]
  /\ UNCHANGED <<database, vecs, files, queue, pend, requests, pc, run, crashes>>

DeleteCommit(d) ==
  /\ del[d] = "commit"
  /\ doc' = [doc EXCEPT ![d] = "gone"]
  /\ jobs' = [jobs EXCEPT ![d] = << >>]
  /\ rows' = [rows EXCEPT ![d] = {}]
  /\ del' = [del EXCEPT ![d] = "no"]
  /\ UNCHANGED <<usage, stores, queue, pend, requests, pc, run, crashes>>

\* A call of the deletion fails, or the API process dies: the transaction
\* rolls back, what the earlier calls did to the other stores stays.
DeleteFail(d) ==
  /\ "delete" \in Faults
  /\ del[d] # "no"
  /\ del' = [del EXCEPT ![d] = "no"]
  /\ UNCHANGED <<database, stores, queue, pend, requests, pc, run, crashes>>

-----------------------------------------------------------------------------
(* process_document_task.                                                  *)

Take(w) ==
  /\ pc[w] = "idle"
  /\ \E m \in Messages :
       /\ queue[m] > 0
       /\ queue' = [queue EXCEPT ![m] = @ - 1]
       /\ msg' = [msg EXCEPT ![w] = m]
  /\ Goto(w, "start")
  /\ UNCHANGED <<database, stores, api, gen, seen, crashes>>

\* The first transaction: a running job of its own, the document processing.
\* (One that read a document whose deletion then commits raises instead, and
\* on_failure finds neither document nor job.)
Start(w) ==
  LET d == DocOf(w) IN
  /\ pc[w] = "start"
  /\ \/ /\ Exists(d)
        /\ ~Locked(d)
        /\ doc' = [doc EXCEPT ![d] = "processing"]
        /\ AddJob(d, "running")
        /\ Goto(w, "prepare")
     \/ /\ ~Exists(d)
        /\ Goto(w, "ack")
        /\ UNCHANGED <<doc, jobs>>
     \/ /\ "db" \in Faults
        /\ Goto(w, "on_failure")
        /\ UNCHANGED <<doc, jobs>>
  /\ UNCHANGED <<rows, usage, stores, queue, api, run, crashes>>

\* Read, parse, chunk, embed; the chunks get fresh ids.
Prepare(w) ==
  /\ pc[w] = "prepare"
  /\ \/ /\ DocOf(w) \in files
        /\ \E g \in Gens : Fresh(g) /\ gen' = [gen EXCEPT ![w] = g]
        /\ Goto(w, "clear")
     \/ /\ DocOf(w) \notin files \/ "terminal" \in Faults
        /\ Goto(w, "marking")
        /\ UNCHANGED gen
     \/ /\ "upstream" \in Faults
        /\ Goto(w, "retry")
        /\ UNCHANGED gen
  /\ UNCHANGED <<database, stores, queue, api, msg, seen, crashes>>

ClearNothing(w) ==
  /\ pc[w] = "clear"
  /\ Proceed(w, "upsert")
  /\ UNCHANGED <<database, stores, queue, api, msg, crashes>>

\* delete_by_document; a call that raised may have been applied.
ClearVectors(w) ==
  /\ pc[w] = "clear"
  /\ \/ /\ vecs' = [vecs EXCEPT ![DocOf(w)] = {}]
        /\ Proceed(w, "upsert") \/ Raise(w)
     \/ UNCHANGED vecs /\ Raise(w)
  /\ UNCHANGED <<database, files, announced, queue, api, msg, crashes>>

Upsert(w) ==
  /\ pc[w] = "upsert"
  /\ \/ /\ vecs' = [vecs EXCEPT ![DocOf(w)] = @ \union {gen[w]}]
        /\ Proceed(w, "persist") \/ Raise(w)
     \/ UNCHANGED vecs /\ Raise(w)
  /\ UNCHANGED <<database, files, announced, queue, api, msg, crashes>>

\* DELETE FROM document_chunks hits the rows its snapshot sees.
PersistDelete(w) ==
  /\ pc[w] = "persist"
  /\ seen' = [seen EXCEPT ![w] = rows[DocOf(w)]]
  /\ Goto(w, "commit")
  /\ UNCHANGED <<database, stores, queue, api, msg, gen, crashes>>

\* The rest of the final transaction.  Without the document row its inserts
\* break their foreign keys (or its update matches no row), and it raises.
PersistCommit(w) ==
  LET d == DocOf(w) IN
  /\ pc[w] = "commit"
  /\ \/ /\ Exists(d)
        /\ ~Locked(d)
        /\ ReplaceRows(w)
        /\ doc' = [doc EXCEPT ![d] = "completed"]
        /\ SetLatestJob(d, "completed")
        /\ usage' = [usage EXCEPT ![d] = @ + 1]
        /\ Goto(w, "invalidate")
     \/ /\ ~Exists(d) \/ "db" \in Faults
        /\ Goto(w, "on_failure")
        /\ UNCHANGED database
  /\ Forget(w)
  /\ UNCHANGED <<stores, queue, api, msg, crashes>>

InvalidateNothing(w) ==
  /\ pc[w] = "invalidate"
  /\ Goto(w, "ack")
  /\ UNCHANGED <<database, stores, queue, api, run, crashes>>

InvalidateOrRetry(w) ==
  /\ pc[w] = "invalidate"
  /\ \/ announced' = rows /\ Goto(w, "ack")
     \/ "upstream" \in Faults /\ UNCHANGED announced /\ Goto(w, "retry")
  /\ UNCHANGED <<database, vecs, files, queue, api, run, crashes>>

\* invalidate_workspace_bm25_cache, after the commit and outside any try.
Invalidate(w) ==
  /\ pc[w] = "invalidate"
  /\ \/ announced' = rows /\ Goto(w, "ack")
     \/ "redis" \in Faults /\ UNCHANGED announced /\ Goto(w, "on_failure")
  /\ UNCHANGED <<database, vecs, files, queue, api, run, crashes>>

RetryOrGiveUp(w) ==
  /\ pc[w] = "retry"
  /\ Goto(w, "ack")
  /\ IF msg[w].tries < MaxRetries
     THEN Publish([msg[w] EXCEPT !.tries = @ + 1])
     ELSE UNCHANGED queue
  /\ UNCHANGED <<database, stores, api, run, crashes>>

\* Celery's autoretry: a new message with the next retry count, or the
\* exception itself once the retries are used up.  A retry that cannot be
\* published rejects the message.
Retry(w) ==
  /\ pc[w] = "retry"
  /\ IF msg[w].tries < MaxRetries
     THEN /\ Goto(w, "ack")
          /\ \/ Publish([msg[w] EXCEPT !.tries = @ + 1])
             \/ "broker" \in Faults /\ UNCHANGED queue
     ELSE /\ Goto(w, "on_failure")
          /\ UNCHANGED queue
  /\ UNCHANGED <<database, stores, api, run, crashes>>

\* _mark_failed, called by the handler in the task ("marking", whose own
\* failure leads to on_failure) and by on_failure (whose failure is lost).
MarkFailed(w) ==
  LET d == DocOf(w) IN
  /\ pc[w] \in {"marking", "on_failure"}
  /\ \/ /\ Exists(d)
        /\ ~Locked(d)
        /\ doc' = [doc EXCEPT ![d] = "failed"]
        /\ SetLatestJob(d, "failed")
        /\ Goto(w, "ack")
     \/ /\ ~Exists(d)
        /\ Goto(w, "ack")
        /\ UNCHANGED <<doc, jobs>>
     \/ /\ "db" \in Faults
        /\ Goto(w, IF pc[w] = "marking" THEN "on_failure" ELSE "ack")
        /\ UNCHANGED <<doc, jobs>>
  /\ UNCHANGED <<rows, usage, stores, queue, api, run, crashes>>

\* The worker forgets its message and its run.
Release(w) ==
  /\ Goto(w, "idle")
  /\ msg' = [msg EXCEPT ![w] = None]
  /\ Forget(w)

\* task_acks_late: the message is acknowledged when the task is over.
Ack(w) ==
  /\ pc[w] = "ack"
  /\ Release(w)
  /\ UNCHANGED <<database, stores, queue, api, crashes>>

\* The worker dies, its open transaction with it, and the broker redelivers.
Crash(w) ==
  /\ "crash" \in Faults
  /\ pc[w] # "idle"
  /\ crashes < MaxCrashes
  /\ crashes' = crashes + 1
  /\ Publish(msg[w])
  /\ Release(w)
  /\ UNCHANGED <<database, stores, api>>

\* The hard time limit or the kernel kills the pool child.  Its parent
\* acknowledges: task_reject_on_worker_lost is not set, and on_failure of the
\* task is not called.
Kill(w) ==
  /\ "kill" \in Faults
  /\ pc[w] # "idle"
  /\ crashes < MaxCrashes
  /\ crashes' = crashes + 1
  /\ Release(w)
  /\ UNCHANGED <<database, stores, queue, api>>

-----------------------------------------------------------------------------

DeleteStep(d) ==
  \/ DeleteFile(d)
  \/ DeleteFlush(d)
  \/ DeleteBump(d)
  \/ DeleteCommit(d)
  \/ DeleteFail(d)

Api(d) ==
  \/ UploadSave(d)
  \/ UploadCommit(d)
  \/ UploadFail(d)
  \/ Enqueue(d)
  \/ Reingest(d)
  \/ DeleteVectors(d)
  \/ DeleteStep(d)

RunStep(w) ==
  \/ Start(w)
  \/ Prepare(w)
  \/ ClearVectors(w)
  \/ Upsert(w)
  \/ PersistDelete(w)
  \/ PersistCommit(w)
  \/ Invalidate(w)
  \/ Retry(w)
  \/ MarkFailed(w)
  \/ Ack(w)

Next ==
  \/ \E d \in Docs : Api(d)
  \/ \E w \in Workers : Take(w) \/ RunStep(w) \/ Crash(w) \/ Kill(w)

Spec == Init /\ [][Next]_vars

\* A worker process keeps consuming and a run keeps going (the time limits end
\* one that hangs); a request that began goes on to its next call.  A run that
\* waits for a row lock gets it between two deletions: Postgres grants locks
\* in the order they were asked for.
Fairness ==
  /\ \A w \in Workers : WF_vars(Take(w)) /\ SF_vars(RunStep(w))
  /\ \A d \in Docs : WF_vars(Enqueue(d)) /\ WF_vars(DeleteStep(d))

FairSpec == Spec /\ Fairness

\* The runs of one document do not overlap.
RunsAlone ==
  \A v, w \in Workers :
    pc[v] # "idle" /\ pc[w] # "idle" /\ v # w => DocOf(v) # DocOf(w)

TakeAlone(w) == Take(w) /\ RunsAlone'

\* The deployments and schedules in which they never do: a single worker
\* process, or editors who wait for a run before they ask for the next.
SerialNext ==
  \/ \E d \in Docs : Api(d)
  \/ \E w \in Workers : TakeAlone(w) \/ RunStep(w) \/ Crash(w) \/ Kill(w)

SerialSpec == Init /\ [][SerialNext]_vars

-----------------------------------------------------------------------------
(* Properties.                                                             *)

\* A worker whose run of d can still change d's status.
Running(w, d) ==
  /\ pc[w] \notin {"idle", "invalidate", "ack"}
  /\ DocOf(w) = d

\* Some request or some run of d has yet to finish.
Scheduled(d) ==
  \/ pend[d] > 0
  \/ \E m \in Messages : m.doc = d /\ queue[m] > 0
  \/ \E w \in Workers : Running(w, d)

\* A document reported completed has chunks to retrieve, however many runs,
\* re-ingestions and failures of it interleave (_process_document 180-189).
CompletedHasChunks == \A d \in Docs : doc[d] = "completed" => rows[d] # {}

\* A deleted document stays deleted and no run that was under way brings
\* chunk rows back for it (delete_document against the final transaction).
DeletedStaysDeleted ==
  [][\A d \in Docs : doc[d] = "gone" => doc'[d] = "gone" /\ rows'[d] = {}]_vars

\* A document shown as pending or processing has a request, a message or a
\* run that will settle it: retries, redelivery and overlapping runs never
\* drop the last of them (the retry path, on_failure and acks_late).
UnfinishedIsScheduled ==
  \A d \in Docs : doc[d] \in {"pending", "processing"} => Scheduled(d)

\* The clear-then-write order of a run and its final transaction leave the
\* two indexes of a completed document equal and free of older generations
\* ("clears any vectors from a prior attempt", ingestion_tasks.py:167).
CompletedIndexesAgree ==
  \A d \in Docs :
    doc[d] = "completed" /\ del[d] = "no" =>
      \E g \in Gens : rows[d] = {g} /\ vecs[d] = {g}

\* An attempt recorded as failed is never turned into a completed one by a
\* later run that picks "the latest job" (_process_document 190-201; the other
\* way round, a failing BM25 bump does fail a completed attempt).
FailedAttemptsStay ==
  [][\A d \in Docs : \A i \in DOMAIN jobs[d] :
       jobs[d][i] = "failed" /\ doc'[d] # "gone" =>
         i \in DOMAIN jobs'[d] /\ jobs'[d][i] = "failed"]_vars

\* Committed chunk rows that BM25 readers were not told of belong to a run
\* that is about to tell them (invalidate_workspace_bm25_cache).
UnannouncedIsTransient ==
  \A d \in Docs :
    doc[d] # "gone" /\ announced[d] # rows[d] =>
      \E w \in Workers : pc[w] = "invalidate" /\ DocOf(w) = d

\* The usage ledger counts a requested ingestion at most once (record_usage
\* in the final transaction, with retries and overlapping runs).
UsageOncePerRequest == \A d \in Docs : usage[d] <= requests[d]

\* Every document that starts ingestion settles: transient failures run out
\* of retries, crashed runs are redelivered, the rest ends in a final status.
Settles ==
  \A d \in Docs :
    doc[d] \in {"pending", "processing"} ~>
      doc[d] \in {"completed", "failed", "gone"}

\* Readers of the chunk rows see the abstract chunk store.
Store ==
  INSTANCE ChunkStore WITH
    content <- rows,
    removed <- { d \in Docs : doc[d] = "gone" }

\* With runs that do not overlap, ingestion implements the chunk store.
ImplementsChunkStore == Store!Spec

=============================================================================
