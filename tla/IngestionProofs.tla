--------------------------- MODULE IngestionProofs ---------------------------
(***************************************************************************)
(* Theorems about Ingestion for every set of documents and workers, every  *)
(* number of retries and every bound.                                      *)
(***************************************************************************)
EXTENDS Ingestion, FiniteSetTheorems, TLAPS

-----------------------------------------------------------------------------
(* What the helpers of the model preserve.                                 *)

LEMMA WorkerMessage ==
  ASSUME WorkersTypeOK, NEW w \in Workers, pc[w] # "idle"
  PROVE  msg[w] \in Messages /\ DocOf(w) \in Docs
BY DEF WorkersTypeOK, Messages, DocOf

LEMMA PublishType ==
  ASSUME queue \in [Messages -> Nat], NEW m \in Messages, Publish(m)
  PROVE  queue' \in [Messages -> Nat]
BY DEF Publish

LEMMA NextAttempt ==
  ASSUME NEW m \in Messages, m.tries < MaxRetries
  PROVE  /\ [m EXCEPT !.tries = @ + 1] \in Messages
         /\ [m EXCEPT !.tries = @ + 1].doc = m.doc
BY IngestionAssumption DEF Messages

LEMMA AddJobType ==
  ASSUME jobs \in [Docs -> Seq(JobStatus)], NEW d \in Docs,
         NEW status \in JobStatus, AddJob(d, status)
  PROVE  jobs' \in [Docs -> Seq(JobStatus)]
BY DEF AddJob

LEMMA SetLatestJobType ==
  ASSUME jobs \in [Docs -> Seq(JobStatus)], NEW d \in Docs,
         NEW status \in JobStatus, SetLatestJob(d, status)
  PROVE  jobs' \in [Docs -> Seq(JobStatus)]
<1>1. jobs[d] # << >> => [jobs[d] EXCEPT ![Len(jobs[d])] = status] \in Seq(JobStatus)
  OBVIOUS
<1> QED BY <1>1 DEF SetLatestJob

\* A step of a run moves pc[w] alone and keeps its message.
LEMMA MoveType ==
  ASSUME WorkersTypeOK, NEW w \in Workers, pc[w] # "idle", NEW l \in Label,
         Goto(w, l), UNCHANGED msg,
         gen' \in [Workers -> Gens \union {0}], seen' \in [Workers -> SUBSET Gens],
         \A v \in Workers : v # w => gen'[v] = gen[v],
         l \in Indexing => gen'[w] \in Gens
  PROVE  WorkersTypeOK'
BY DEF WorkersTypeOK, Goto, Indexing

LEMMA ForgetType ==
  ASSUME WorkersTypeOK, NEW w \in Workers, Forget(w)
  PROVE  /\ gen' \in [Workers -> Gens \union {0}] /\ seen' \in [Workers -> SUBSET Gens]
         /\ \A v \in Workers : v # w => gen'[v] = gen[v]
BY DEF WorkersTypeOK, Forget

LEMMA ReleaseType ==
  ASSUME WorkersTypeOK, NEW w \in Workers, Release(w)
  PROVE  WorkersTypeOK'
BY ForgetType DEF WorkersTypeOK, Release, Goto, Label, Indexing

LEMMA UnchangedType ==
  ASSUME TypeOK
  PROVE  /\ UNCHANGED database => DatabaseTypeOK'
         /\ UNCHANGED stores => StoresTypeOK'
         /\ UNCHANGED <<queue, api, crashes>> => ApiTypeOK'
         /\ UNCHANGED <<pc, run>> => WorkersTypeOK'
BY DEF TypeOK, DatabaseTypeOK, StoresTypeOK, ApiTypeOK, WorkersTypeOK,
       database, stores, api, run

-----------------------------------------------------------------------------
(* Type correctness.                                                       *)

LEMMA ApiType ==
  ASSUME TypeOK, NEW d \in Docs, Api(d)
  PROVE  TypeOK'
<1> USE UnchangedType DEF api
<1>1. CASE UploadSave(d)
  BY <1>1 DEF UploadSave, TypeOK, StoresTypeOK
<1>2. CASE UploadCommit(d) \/ Reingest(d)
  <2>1. jobs' \in [Docs -> Seq(JobStatus)]
    BY <1>2, AddJobType DEF UploadCommit, Reingest, TypeOK, DatabaseTypeOK, JobStatus
  <2>2. DatabaseTypeOK'
    BY <1>2, <2>1 DEF UploadCommit, Reingest, TypeOK, DatabaseTypeOK, DocStatus
  <2>3. ApiTypeOK'
    BY <1>2 DEF UploadCommit, Reingest, TypeOK, ApiTypeOK
  <2> QED BY <1>2, <2>2, <2>3 DEF UploadCommit, Reingest, TypeOK
<1>3. CASE UploadFail(d)
  <2>1. DatabaseTypeOK'
    BY <1>3 DEF UploadFail, TypeOK, DatabaseTypeOK, DocStatus
  <2> QED BY <1>3, <2>1 DEF UploadFail, TypeOK
<1>4. CASE Enqueue(d)
  <2>1. [doc |-> d, tries |-> 0] \in Messages
    BY IngestionAssumption DEF Messages
  <2>2. queue' \in [Messages -> Nat]
    BY <1>4, <2>1, PublishType DEF Enqueue, TypeOK, ApiTypeOK
  <2>3. ApiTypeOK'
    BY <1>4, <2>2 DEF Enqueue, TypeOK, ApiTypeOK
  <2> QED BY <1>4, <2>3 DEF Enqueue, TypeOK
<1>6. CASE DeleteVectors(d)
  <2>1. StoresTypeOK'
    BY <1>6 DEF DeleteVectors, TypeOK, StoresTypeOK
  <2>2. ApiTypeOK'
    BY <1>6 DEF DeleteVectors, TypeOK, ApiTypeOK, DelStep
  <2> QED BY <1>6, <2>1, <2>2 DEF DeleteVectors, TypeOK
<1>7. CASE DeleteStep(d)
  <2>1. ApiTypeOK'
    BY <1>7 DEF DeleteStep, DeleteFile, DeleteFlush, DeleteBump, DeleteCommit,
                DeleteFail, TypeOK, ApiTypeOK, DelStep
  <2>2. StoresTypeOK'
    BY <1>7 DEF DeleteStep, DeleteFile, DeleteFlush, DeleteBump, DeleteCommit,
                DeleteFail, TypeOK, StoresTypeOK, DatabaseTypeOK, stores
  <2>3. DatabaseTypeOK'
    <3>1. CASE DeleteCommit(d)
      BY <3>1 DEF DeleteCommit, TypeOK, DatabaseTypeOK, DocStatus
    <3> QED BY <1>7, <3>1 DEF DeleteStep, DeleteFile, DeleteFlush, DeleteBump, DeleteFail
  <2> QED
    BY <1>7, <2>1, <2>2, <2>3 DEF DeleteStep, DeleteFile, DeleteFlush,
       DeleteBump, DeleteCommit, DeleteFail, TypeOK
<1> QED
  BY <1>1, <1>2, <1>3, <1>4, <1>6, <1>7 DEF Api

LEMMA RunActive ==
  ASSUME NEW w \in Workers, RunStep(w)
  PROVE  pc[w] # "idle"
BY DEF RunStep, Start, Prepare, ClearVectors, Upsert, PersistDelete,
       PersistCommit, Invalidate, Retry, MarkFailed, Ack

LEMMA RunType ==
  ASSUME TypeOK, NEW w \in Workers, RunStep(w)
  PROVE  TypeOK'
<1>0. pc[w] # "idle" /\ msg[w] \in Messages /\ DocOf(w) \in Docs
  BY RunActive, WorkerMessage DEF TypeOK
<1>w. WorkersTypeOK'
  <2> USE <1>0, MoveType DEF TypeOK, WorkersTypeOK, Label, Indexing
  <2>1. CASE Start(w) \/ Retry(w) \/ MarkFailed(w) \/ Invalidate(w)
    <3>1. \E l \in Label \ Indexing : Goto(w, l)
      BY <2>1 DEF Start, Retry, MarkFailed, Invalidate
    <3>2. UNCHANGED run
      BY <2>1 DEF Start, Retry, MarkFailed, Invalidate
    <3> QED BY <3>1, <3>2 DEF run
  <2>2. CASE Prepare(w)
    <3>1. CASE UNCHANGED gen /\ (Goto(w, "marking") \/ Goto(w, "retry"))
      BY <2>2, <3>1 DEF Prepare
    <3>2. CASE \E g \in Gens : gen' = [gen EXCEPT ![w] = g] /\ Goto(w, "clear")
      BY <2>2, <3>2 DEF Prepare
    <3> QED BY <2>2, <3>1, <3>2 DEF Prepare
  <2>3. CASE ClearVectors(w) \/ Upsert(w)
    <3>1. CASE Raise(w)
      <4>1. \E l \in Label \ Indexing : Goto(w, l)
        BY <3>1 DEF Raise
      <4> QED BY <2>3, <3>1, <4>1, ForgetType DEF ClearVectors, Upsert, Raise
    <3>2. CASE Proceed(w, "upsert") \/ Proceed(w, "persist")
      <4>1. gen[w] \in Gens
        BY <2>3 DEF ClearVectors, Upsert
      <4> QED BY <2>3, <3>2, <4>1 DEF ClearVectors, Upsert, Proceed
    <3> QED BY <2>3, <3>1, <3>2 DEF ClearVectors, Upsert
  <2>4. CASE PersistDelete(w)
    <3>1. rows[DocOf(w)] \in SUBSET Gens
      BY DEF DatabaseTypeOK
    <3>2. UNCHANGED <<msg, gen>> /\ seen' \in [Workers -> SUBSET Gens]
      BY <2>4, <3>1 DEF PersistDelete
    <3>3. gen[w] \in Gens
      BY <2>4 DEF PersistDelete
    <3> QED BY <2>4, <3>2, <3>3 DEF PersistDelete
  <2>5. CASE PersistCommit(w)
    <3>1. \E l \in Label \ Indexing : Goto(w, l)
      BY <2>5 DEF PersistCommit
    <3> QED BY <2>5, <3>1, ForgetType DEF PersistCommit
  <2>6. CASE Ack(w)
    BY <2>6, ReleaseType DEF Ack
  <2> QED BY <2>1, <2>2, <2>3, <2>4, <2>5, <2>6 DEF RunStep
<1>d. DatabaseTypeOK'
  <2>1. CASE Start(w)
    <3>1. jobs' \in [Docs -> Seq(JobStatus)]
      BY <2>1, <1>0, AddJobType DEF Start, TypeOK, DatabaseTypeOK, JobStatus
    <3> QED BY <2>1, <3>1, <1>0 DEF Start, TypeOK, DatabaseTypeOK, DocStatus
  <2>2. CASE PersistCommit(w)
    <3>1. CASE UNCHANGED database
      BY <3>1, UnchangedType
    <3>2. CASE /\ rows' = [rows EXCEPT ![DocOf(w)] = (@ \ seen[w]) \union {gen[w]}]
               /\ doc' = [doc EXCEPT ![DocOf(w)] = "completed"]
               /\ SetLatestJob(DocOf(w), "completed")
               /\ usage' = [usage EXCEPT ![DocOf(w)] = @ + 1]
      <4>1. jobs' \in [Docs -> Seq(JobStatus)]
        BY <3>2, <1>0, SetLatestJobType DEF TypeOK, DatabaseTypeOK, JobStatus
      <4>2. (rows[DocOf(w)] \ seen[w]) \union {gen[w]} \in SUBSET Gens
        BY <2>2, <1>0 DEF PersistCommit, ReplaceRows, Indexing, TypeOK, DatabaseTypeOK, WorkersTypeOK
      <4>3. rows' \in [Docs -> SUBSET Gens]
        BY <3>2, <4>2, <1>0 DEF TypeOK, DatabaseTypeOK
      <4>4. doc' \in [Docs -> DocStatus] /\ usage' \in [Docs -> Nat]
        BY <3>2, <1>0 DEF TypeOK, DatabaseTypeOK, DocStatus
      <4> QED BY <4>1, <4>3, <4>4 DEF DatabaseTypeOK
    <3> QED BY <2>2, <3>1, <3>2 DEF PersistCommit, ReplaceRows
  <2>3. CASE MarkFailed(w)
    <3>1. jobs' \in [Docs -> Seq(JobStatus)]
      BY <2>3, <1>0, SetLatestJobType DEF MarkFailed, TypeOK, DatabaseTypeOK, JobStatus
    <3> QED BY <2>3, <3>1, <1>0 DEF MarkFailed, TypeOK, DatabaseTypeOK, DocStatus
  <2> QED
    BY <2>1, <2>2, <2>3, UnchangedType DEF RunStep, Prepare, ClearVectors, Upsert,
       PersistDelete, Invalidate, Retry, Ack
<1>s. StoresTypeOK'
  <2>1. CASE ClearVectors(w)
    BY <2>1, <1>0 DEF ClearVectors, TypeOK, StoresTypeOK
  <2>2. CASE Upsert(w)
    <3>1. gen[w] \in Gens /\ vecs[DocOf(w)] \subseteq Gens
      BY <2>2, <1>0 DEF Upsert, Indexing, TypeOK, StoresTypeOK, WorkersTypeOK
    <3> QED BY <2>2, <3>1, <1>0 DEF Upsert, TypeOK, StoresTypeOK
  <2>3. CASE Invalidate(w)
    BY <2>3 DEF Invalidate, TypeOK, StoresTypeOK, DatabaseTypeOK
  <2> QED
    BY <2>1, <2>2, <2>3, UnchangedType DEF RunStep, Start, Prepare, PersistDelete,
       PersistCommit, Retry, MarkFailed, Ack
<1>a. ApiTypeOK'
  <2>1. CASE Retry(w)
    <3>1. msg[w].tries < MaxRetries => [msg[w] EXCEPT !.tries = @ + 1] \in Messages
      BY <1>0, NextAttempt
    <3> QED BY <2>1, <3>1, PublishType DEF Retry, TypeOK, ApiTypeOK, api
  <2> QED
    BY <2>1, UnchangedType DEF RunStep, Start, Prepare, ClearVectors, Upsert,
       PersistDelete, PersistCommit, Invalidate, MarkFailed, Ack
<1> QED BY <1>w, <1>d, <1>s, <1>a DEF TypeOK

LEMMA TypeStep == TypeOK /\ [Next]_vars => TypeOK'
<1> SUFFICES ASSUME TypeOK, [Next]_vars PROVE TypeOK'
  OBVIOUS
<1>1. ASSUME NEW w \in Workers, Take(w) PROVE TypeOK'
  <2>1. PICK m \in Messages :
          /\ queue[m] > 0
          /\ queue' = [queue EXCEPT ![m] = @ - 1]
          /\ msg' = [msg EXCEPT ![w] = m]
    BY <1>1 DEF Take
  <2>2. ApiTypeOK'
    BY <1>1, <2>1 DEF Take, TypeOK, ApiTypeOK, api
  <2>3. WorkersTypeOK'
    BY <1>1, <2>1 DEF Take, TypeOK, WorkersTypeOK, Goto, Label, Indexing
  <2> QED BY <1>1, <2>2, <2>3, UnchangedType DEF Take, TypeOK
<1>2. ASSUME NEW w \in Workers, Crash(w) PROVE TypeOK'
  <2>1. ApiTypeOK'
    BY <1>2, PublishType, WorkerMessage DEF Crash, TypeOK, ApiTypeOK, api
  <2> QED BY <1>2, <2>1, ReleaseType, UnchangedType DEF Crash, TypeOK
<1>3. ASSUME NEW w \in Workers, Kill(w) PROVE TypeOK'
  <2>1. ApiTypeOK'
    BY <1>3 DEF Kill, TypeOK, ApiTypeOK, api
  <2> QED BY <1>3, <2>1, ReleaseType, UnchangedType DEF Kill, TypeOK
<1>4. CASE UNCHANGED vars
  BY <1>4, UnchangedType DEF vars, TypeOK
<1> QED
  BY <1>1, <1>2, <1>3, <1>4, ApiType, RunType DEF Next

\* Every variable keeps its type: in particular a worker past Take holds a
\* message of one of the documents until it releases it.
THEOREM TypeCorrect == Spec => []TypeOK
<1>1. Init => TypeOK
  BY IngestionAssumption DEF Init, TypeOK, DatabaseTypeOK, StoresTypeOK, ApiTypeOK,
     WorkersTypeOK, DocStatus, JobStatus, DelStep, Label, Indexing
<1> QED BY <1>1, TypeStep, PTL DEF Spec

-----------------------------------------------------------------------------
(* Documents and their chunk rows under any interleaving and any fault.    *)

\* Everything a step can do to the status and the rows of one document.
DocumentStep(d) ==
  \/ doc'[d] = doc[d] /\ rows'[d] = rows[d]
  \/ doc[d] = "absent" /\ doc'[d] \in {"pending", "gone"} /\ rows'[d] = rows[d]
  \/ Exists(d) /\ doc'[d] \in {"pending", "processing", "failed"} /\ rows'[d] = rows[d]
  \/ Exists(d) /\ doc'[d] = "completed" /\ rows'[d] # {}
  \/ Exists(d) /\ doc'[d] = "gone" /\ rows'[d] = {}

\* Only its own deletion removes a document, so the row is there until then.
DeletionsHaveRow == \A d \in Docs : del[d] # "no" => Exists(d)

LEMMA StepOfDocument ==
  ASSUME TypeOK, DeletionsHaveRow, [Next]_vars, NEW d \in Docs
  PROVE  DocumentStep(d)
<1> USE DEF TypeOK, DatabaseTypeOK, DocStatus, database, DocumentStep, Exists
<1>1. ASSUME NEW e \in Docs, Api(e) PROVE DocumentStep(d)
  <2>1. CASE UploadCommit(e) \/ UploadFail(e) \/ Reingest(e)
    BY <1>1, <2>1 DEF UploadCommit, UploadFail, Reingest
  <2>2. CASE DeleteCommit(e)
    BY <2>2 DEF DeleteCommit, DeletionsHaveRow
  <2> QED
    BY <1>1, <2>1, <2>2 DEF Api, UploadSave, Enqueue, DeleteVectors, DeleteStep,
       DeleteFile, DeleteFlush, DeleteBump, DeleteFail
<1>2. ASSUME NEW w \in Workers, RunStep(w) PROVE DocumentStep(d)
  <2>1. DocOf(w) \in Docs
    BY <1>2, RunActive, WorkerMessage
  <2>2. CASE Start(w) \/ MarkFailed(w)
    BY <2>1, <2>2 DEF Start, MarkFailed
  <2>3. CASE PersistCommit(w)
    BY <2>1, <2>3 DEF PersistCommit, ReplaceRows
  <2> QED
    BY <1>2, <2>2, <2>3 DEF RunStep, Prepare, ClearVectors, Upsert,
       PersistDelete, Invalidate, Retry, Ack
<1>3. ASSUME NEW w \in Workers, Take(w) \/ Crash(w) \/ Kill(w) PROVE DocumentStep(d)
  BY <1>3 DEF Take, Crash, Kill
<1>4. CASE UNCHANGED vars
  BY <1>4 DEF vars
<1> QED BY <1>1, <1>2, <1>3, <1>4 DEF Next

\* Everything a step can do to the deletion of one document.
DeletionStep(d) ==
  /\ \/ del'[d] = del[d]
     \/ del'[d] = "no"
     \/ Exists(d) /\ doc'[d] = doc[d]
  /\ Exists(d) /\ doc'[d] = "gone" => del'[d] = "no"

LEMMA StepOfDeletion ==
  ASSUME TypeOK, DeletionsHaveRow, [Next]_vars, NEW d \in Docs
  PROVE  DeletionStep(d)
<1> USE DEF TypeOK, DatabaseTypeOK, ApiTypeOK, DocStatus, DelStep, database, api,
        Exists, DeletionStep
<1>1. ASSUME NEW e \in Docs, Api(e) PROVE DeletionStep(d)
  <2>1. CASE DeleteVectors(e) \/ DeleteStep(e)
    BY <2>1 DEF DeleteVectors, DeleteStep, DeleteFile, DeleteFlush, DeleteBump,
       DeleteCommit, DeleteFail, DeletionsHaveRow
  <2> QED
    BY <1>1, <2>1 DEF Api, UploadSave, UploadCommit, UploadFail, Enqueue, Reingest
<1>2. ASSUME NEW w \in Workers, RunStep(w) PROVE DeletionStep(d)
  <2>1. DocOf(w) \in Docs
    BY <1>2, RunActive, WorkerMessage
  <2>2. CASE Start(w) \/ MarkFailed(w) \/ PersistCommit(w)
    BY <2>1, <2>2 DEF Start, MarkFailed, PersistCommit
  <2> QED
    BY <1>2, <2>2 DEF RunStep, Prepare, ClearVectors, Upsert, PersistDelete,
       Invalidate, Retry, Ack
<1>3. ASSUME NEW w \in Workers, Take(w) \/ Crash(w) \/ Kill(w) PROVE DeletionStep(d)
  BY <1>3 DEF Take, Crash, Kill
<1>4. CASE UNCHANGED vars
  BY <1>4 DEF vars
<1> QED BY <1>1, <1>2, <1>3, <1>4 DEF Next

\* A document without a row has no chunk rows.
RowsNeedDocument == \A d \in Docs : ~Exists(d) => rows[d] = {}

RowsInv == CompletedHasChunks /\ RowsNeedDocument /\ DeletionsHaveRow

LEMMA RowsStep == TypeOK /\ RowsInv /\ [Next]_vars => RowsInv'
<1> SUFFICES ASSUME TypeOK, RowsInv, [Next]_vars PROVE RowsInv'
  OBVIOUS
<1>1. CompletedHasChunks' /\ RowsNeedDocument'
  BY StepOfDocument DEF DocumentStep, RowsInv, CompletedHasChunks, RowsNeedDocument, Exists
<1>2. DeletionsHaveRow'
  <2> SUFFICES ASSUME NEW d \in Docs, del'[d] # "no" PROVE Exists(d)'
    BY DEF DeletionsHaveRow
  <2> QED
    BY StepOfDocument, StepOfDeletion DEF DocumentStep, DeletionStep, RowsInv, DeletionsHaveRow, Exists
<1> QED BY <1>1, <1>2 DEF RowsInv

LEMMA RowsInvariant == Spec => []RowsInv
<1>1. Init => RowsInv
  BY DEF Init, RowsInv, CompletedHasChunks, RowsNeedDocument, DeletionsHaveRow
<1> QED BY <1>1, RowsStep, TypeCorrect, PTL DEF Spec

\* A completed document has chunks, whatever runs, re-ingestions, crashes and
\* failures interleave (the commit of _process_document writes both at once,
\* and every later run replaces chunks by chunks).
THEOREM CompletedHaveChunks == Spec => []CompletedHasChunks
BY RowsInvariant, PTL DEF RowsInv

\* No run that was under way brings a deleted document or its chunk rows back.
THEOREM DeletedDocumentsStayDeleted == Spec => DeletedStaysDeleted
<1>1. TypeOK /\ RowsInv /\ [Next]_vars
        => [\A d \in Docs : doc[d] = "gone" => doc'[d] = "gone" /\ rows'[d] = {}]_vars
  BY StepOfDocument DEF DocumentStep, RowsInv, RowsNeedDocument, Exists
<1> QED BY <1>1, RowsInvariant, TypeCorrect, PTL DEF Spec, DeletedStaysDeleted

-----------------------------------------------------------------------------
(* Nothing that is pending or processing is forgotten.                     *)

\* No fault that loses the last record of a run: a failing transaction in
\* on_failure, a message that is not published, a pool child that is killed.
MessagesSurvive == Faults \intersect {"db", "broker", "kill"} = {}

\* The request, message or run that will settle d is still there after a step
\* that touches no request or message of d and at most one worker's run.
LEMMA StillScheduled ==
  ASSUME NEW d \in Docs, Scheduled(d), NEW w \in Workers,
         pend'[d] = pend[d],
         \A m \in Messages : m.doc = d => queue'[m] = queue[m],
         \A v \in Workers : v # w => pc'[v] = pc[v] /\ msg'[v] = msg[v],
         Running(w, d) => Running(w, d)'
  PROVE  Scheduled(d)'
BY DEF Scheduled, Running, DocOf

LEMMA ApiScheduled ==
  ASSUME MessagesSurvive, TypeOK, UnfinishedIsScheduled,
         NEW e \in Docs, Api(e),
         NEW d \in Docs, doc'[d] \in {"pending", "processing"}
  PROVE  Scheduled(d)'
<1> USE DEF TypeOK, DatabaseTypeOK, ApiTypeOK, database, api, run
<1>1. CASE (UploadCommit(e) \/ Reingest(e)) /\ d = e
  <2>1. pend'[d] > 0
    BY <1>1 DEF UploadCommit, Reingest
  <2> QED BY <2>1 DEF Scheduled
<1>2. CASE Enqueue(e) /\ d = e
  <2>1. [doc |-> d, tries |-> 0] \in Messages
    BY IngestionAssumption DEF Messages
  <2>2. Publish([doc |-> d, tries |-> 0])
    BY <1>2 DEF Enqueue, MessagesSurvive
  <2>3. queue'[[doc |-> d, tries |-> 0]] > 0
    BY <2>1, <2>2 DEF Publish
  <2> QED BY <2>1, <2>3 DEF Scheduled
<1>3. CASE d # e \/ ~(UploadCommit(e) \/ Reingest(e) \/ Enqueue(e))
  <2>1. doc[d] \in {"pending", "processing"} /\ pend'[d] = pend[d]
    BY <1>3 DEF Api, UploadSave, UploadCommit, UploadFail, Enqueue, Reingest,
       DeleteVectors, DeleteStep, DeleteFile, DeleteFlush, DeleteBump,
       DeleteCommit, DeleteFail, DocStatus
  <2>2. UNCHANGED <<pc, msg>>
    BY DEF Api, UploadSave, UploadCommit, UploadFail, Enqueue, Reingest,
       DeleteVectors, DeleteStep, DeleteFile, DeleteFlush, DeleteBump,
       DeleteCommit, DeleteFail
  <2>3. \A m \in Messages : m.doc = d => queue'[m] = queue[m]
    <3>1. CASE Enqueue(e)
      BY <3>1, <1>3 DEF Enqueue, Publish, Messages
    <3> QED
      BY <3>1 DEF Api, UploadSave, UploadCommit, UploadFail, Reingest,
         DeleteVectors, DeleteStep, DeleteFile, DeleteFlush, DeleteBump,
         DeleteCommit, DeleteFail
  <2> QED BY <2>1, <2>2, <2>3 DEF UnfinishedIsScheduled, Scheduled, Running, DocOf
<1> QED BY <1>1, <1>2, <1>3

LEMMA RunScheduled ==
  ASSUME MessagesSurvive, TypeOK, UnfinishedIsScheduled,
         NEW w \in Workers, RunStep(w) \/ Crash(w),
         NEW d \in Docs, doc'[d] \in {"pending", "processing"}
  PROVE  Scheduled(d)'
<1> USE DEF TypeOK, DatabaseTypeOK, ApiTypeOK, WorkersTypeOK, database, api, run, Goto
<1>0. pc[w] # "idle" /\ msg[w] \in Messages /\ DocOf(w) \in Docs
  BY RunActive, WorkerMessage DEF Crash
<1>1. pend' = pend /\ \A v \in Workers : v # w => pc'[v] = pc[v] /\ msg'[v] = msg[v]
  BY DEF RunStep, Start, Prepare, ClearVectors, Upsert, PersistDelete, PersistCommit,
     Invalidate, Retry, MarkFailed, Ack, Crash, Release, Raise, Proceed
<1>2. CASE DocOf(w) # d
  <2>1. doc'[d] = doc[d]
    BY <1>2 DEF RunStep, Start, Prepare, ClearVectors, Upsert, PersistDelete,
       PersistCommit, Invalidate, Retry, MarkFailed, Ack, Crash
  <2>2. \A m \in Messages : m.doc = d => queue'[m] = queue[m]
    <3>1. CASE Crash(w)
      BY <3>1, <1>0, <1>2 DEF Crash, Publish, DocOf
    <3>2. CASE Retry(w)
      <4>1. CASE UNCHANGED queue
        BY <4>1
      <4>2. CASE msg[w].tries < MaxRetries /\ Publish([msg[w] EXCEPT !.tries = @ + 1])
        <5> DEFINE n == [msg[w] EXCEPT !.tries = @ + 1]
        <5>1. n \in Messages /\ n.doc # d
          BY <4>2, <1>0, <1>2, NextAttempt DEF DocOf
        <5> HIDE DEF n
        <5>2. queue' = [queue EXCEPT ![n] = @ + 1]
          BY <4>2 DEF Publish, n
        <5> QED BY <5>1, <5>2
      <4> QED BY <3>2, <4>1, <4>2 DEF Retry
    <3> QED
      BY <3>1, <3>2 DEF RunStep, Start, Prepare, ClearVectors, Upsert, PersistDelete,
         PersistCommit, Invalidate, MarkFailed, Ack
  <2> QED
    BY <1>1, <1>2, <2>1, <2>2, StillScheduled DEF UnfinishedIsScheduled, Running
<1>3. CASE DocOf(w) = d
  <2>1. CASE Crash(w)
    <3>1. queue'[msg[w]] > 0
      BY <1>0, <2>1 DEF Crash, Publish
    <3> QED BY <1>0, <1>3, <3>1 DEF Scheduled, DocOf
  <2>2. CASE Retry(w)
    <3>1. CASE msg[w].tries < MaxRetries
      <4> DEFINE m == [msg[w] EXCEPT !.tries = @ + 1]
      <4>1. m \in Messages /\ m.doc = d
        BY <1>0, <1>3, <3>1, NextAttempt DEF DocOf
      <4>2. Publish(m)
        BY <2>2, <3>1 DEF Retry, MessagesSurvive
      <4>3. queue'[m] > 0
        BY <4>1, <4>2 DEF Publish
      <4> QED BY <4>1, <4>3 DEF Scheduled
    <3>2. CASE ~(msg[w].tries < MaxRetries)
      <4>1. Running(w, d)'
        BY <1>3, <2>2, <3>2 DEF Retry, Running, DocOf
      <4> QED BY <4>1 DEF Scheduled
    <3> QED BY <3>1, <3>2
  <2>3. CASE Start(w) \/ Prepare(w) \/ ClearVectors(w) \/ Upsert(w) \/ PersistDelete(w)
    <3>1. Running(w, d)'
      BY <1>3, <2>3 DEF Start, Prepare, ClearVectors, Upsert, PersistDelete,
         Raise, Proceed, Running, DocOf, Exists
    <3> QED BY <3>1 DEF Scheduled
  <2>4. CASE PersistCommit(w)
    <3>1. Running(w, d)'
      BY <1>3, <2>4 DEF PersistCommit, Running, DocOf, Exists
    <3> QED BY <3>1 DEF Scheduled
  <2>5. CASE MarkFailed(w)
    BY <1>0, <1>3, <2>5 DEF MarkFailed, MessagesSurvive, Exists
  <2>6. CASE Invalidate(w) \/ Ack(w)
    <3>1. doc' = doc /\ queue' = queue /\ ~Running(w, d)
      BY <2>6 DEF Invalidate, Ack, Running
    <3> QED BY <1>1, <3>1, StillScheduled DEF UnfinishedIsScheduled
  <2> QED BY <2>1, <2>2, <2>3, <2>4, <2>5, <2>6 DEF RunStep
<1> QED BY <1>2, <1>3

LEMMA ScheduledStep ==
  ASSUME MessagesSurvive
  PROVE  TypeOK /\ UnfinishedIsScheduled /\ [Next]_vars => UnfinishedIsScheduled'
<1> SUFFICES ASSUME TypeOK, UnfinishedIsScheduled, [Next]_vars,
                    NEW d \in Docs, doc'[d] \in {"pending", "processing"}
             PROVE  Scheduled(d)'
  BY DEF UnfinishedIsScheduled
<1>1. ASSUME NEW w \in Workers, Take(w) PROVE Scheduled(d)'
  <2>1. PICK m \in Messages :
          /\ queue' = [queue EXCEPT ![m] = @ - 1]
          /\ msg' = [msg EXCEPT ![w] = m]
    BY <1>1 DEF Take
  <2>2. CASE m.doc = d
    <3>1. Running(w, d)'
      BY <1>1, <2>1, <2>2 DEF Take, TypeOK, WorkersTypeOK, Goto, Running, DocOf
    <3> QED BY <3>1 DEF Scheduled
  <2>3. CASE m.doc # d
    <3>1. doc' = doc /\ pend' = pend /\ ~Running(w, d)
      BY <1>1 DEF Take, database, api, Running
    <3>2. \A n \in Messages : n.doc = d => queue'[n] = queue[n]
      BY <2>1, <2>3 DEF TypeOK, ApiTypeOK
    <3>3. \A v \in Workers : v # w => pc'[v] = pc[v] /\ msg'[v] = msg[v]
      BY <1>1, <2>1 DEF Take, TypeOK, WorkersTypeOK, Goto
    <3> QED BY <3>1, <3>2, <3>3, StillScheduled DEF UnfinishedIsScheduled
  <2> QED BY <2>2, <2>3
<1>2. ASSUME NEW w \in Workers, Kill(w) PROVE FALSE
  BY <1>2 DEF Kill, MessagesSurvive
<1>3. CASE UNCHANGED vars
  BY <1>3 DEF vars, database, api, run, UnfinishedIsScheduled, Scheduled, Running, DocOf
<1> QED BY <1>1, <1>2, <1>3, ApiScheduled, RunScheduled DEF Next

\* Whatever interleaves, transient failures, retries and crashes with
\* redelivery never drop the last thing that would settle a document.
THEOREM UnfinishedAreScheduled ==
  ASSUME MessagesSurvive
  PROVE  Spec => []UnfinishedIsScheduled
<1>1. Init => UnfinishedIsScheduled
  BY DEF Init, UnfinishedIsScheduled
<1> QED BY <1>1, ScheduledStep, TypeCorrect, PTL DEF Spec

-----------------------------------------------------------------------------
(* Generations are fresh, and runs that do not overlap replace the rows.   *)

\* A prepared generation is in no document's rows and in no other run.
FreshInv ==
  \A w \in Workers : pc[w] \in Indexing =>
    /\ \A d \in Docs : gen[w] \notin rows[d]
    /\ \A v \in Workers : v # w => gen[v] # gen[w]

\* What the DELETE of a final transaction hits is all the rows there are.
SnapshotInv ==
  \A w \in Workers : pc[w] = "commit" =>
    seen[w] = rows[DocOf(w)] \/ doc[DocOf(w)] = "gone"

\* Everything a step can do to the run of one worker.
WorkerStep(w) ==
  \/ pc'[w] = pc[w] /\ msg'[w] = msg[w] /\ gen'[w] = gen[w] /\ seen'[w] = seen[w]
  \/ pc'[w] \notin Indexing /\ (gen'[w] = gen[w] \/ gen'[w] = 0)
  \/ /\ Prepare(w) /\ pc'[w] = "clear" /\ UNCHANGED <<msg, rows>>
     /\ \E g \in Gens : Fresh(g) /\ gen' = [gen EXCEPT ![w] = g]
  \/ ClearVectors(w) /\ pc'[w] = "upsert" /\ UNCHANGED <<msg, gen, rows, doc>>
  \/ Upsert(w) /\ pc'[w] = "persist" /\ UNCHANGED <<msg, gen, rows, doc>>
  \/ PersistDelete(w) /\ pc'[w] = "commit" /\ UNCHANGED <<msg, gen, rows, doc>>

LEMMA StepOfWorker ==
  ASSUME TypeOK, [Next]_vars, NEW w \in Workers
  PROVE  WorkerStep(w)
<1> USE DEF TypeOK, WorkersTypeOK, Goto, run, WorkerStep
<1>1. ASSUME NEW v \in Workers, RunStep(v) PROVE WorkerStep(w)
  <2>1. CASE v # w
    BY <1>1, <2>1 DEF RunStep, Start, Prepare, ClearVectors, Upsert, PersistDelete,
       PersistCommit, Invalidate, Retry, MarkFailed, Ack, Release, Raise, Proceed, Forget
  <2>2. CASE v = w
    <3> USE <2>2 DEF Indexing
    <3>1. CASE Start(w) \/ Invalidate(w) \/ Retry(w) \/ MarkFailed(w)
      BY <3>1 DEF Start, Invalidate, Retry, MarkFailed
    <3>2. CASE PersistCommit(w) \/ Ack(w)
      BY <3>2 DEF PersistCommit, Ack, Release, Forget
    <3>3. CASE Prepare(w)
      BY <3>3 DEF Prepare, database
    <3>4. CASE ClearVectors(w) \/ Upsert(w)
      BY <3>4 DEF ClearVectors, Upsert, Raise, Proceed, Forget, database
    <3>5. CASE PersistDelete(w)
      BY <3>5 DEF PersistDelete, database
    <3> QED BY <1>1, <3>1, <3>2, <3>3, <3>4, <3>5 DEF RunStep
  <2> QED BY <2>1, <2>2
<1>2. ASSUME NEW v \in Workers, Take(v) \/ Crash(v) \/ Kill(v) PROVE WorkerStep(w)
  BY <1>2 DEF Take, Crash, Kill, Release, Forget, Indexing
<1>3. ASSUME NEW d \in Docs, Api(d) PROVE WorkerStep(w)
  BY <1>3 DEF Api, UploadSave, UploadCommit, UploadFail, Enqueue, Reingest,
     DeleteVectors, DeleteStep, DeleteFile, DeleteFlush, DeleteBump, DeleteCommit,
     DeleteFail
<1>4. CASE UNCHANGED vars
  BY <1>4 DEF vars
<1> QED BY <1>1, <1>2, <1>3, <1>4 DEF Next

\* Only a final transaction and a deletion change rows.
LEMMA StepOfRows ==
  ASSUME TypeOK, [Next]_vars
  PROVE  \/ rows' = rows
         \/ \E d \in Docs : DeleteCommit(d)
         \/ \E w \in Workers : PersistCommit(w) /\ pc'[w] = "invalidate"
<1>1. ASSUME NEW d \in Docs, Api(d) PROVE rows' = rows \/ DeleteCommit(d)
  BY <1>1 DEF Api, UploadSave, UploadCommit, UploadFail, Enqueue, Reingest,
     DeleteVectors, DeleteStep, DeleteFile, DeleteFlush, DeleteBump, DeleteFail, database
<1>2. ASSUME NEW w \in Workers, RunStep(w)
      PROVE  rows' = rows \/ (PersistCommit(w) /\ pc'[w] = "invalidate")
  <2>1. PersistCommit(w) => rows' = rows \/ pc'[w] = "invalidate"
    <3>1. PersistCommit(w) => rows' = rows \/ Goto(w, "invalidate")
      BY DEF PersistCommit, database
    <3> QED BY <3>1 DEF Goto, TypeOK, WorkersTypeOK
  <2>2. ~PersistCommit(w) => rows' = rows
    BY <1>2 DEF RunStep, Start, Prepare, ClearVectors, Upsert, PersistDelete,
       Invalidate, Retry, MarkFailed, Ack, database
  <2> QED BY <2>1, <2>2
<1>3. ASSUME NEW w \in Workers, Take(w) \/ Crash(w) \/ Kill(w) PROVE rows' = rows
  BY <1>3 DEF Take, Crash, Kill, database
<1>4. CASE UNCHANGED vars
  BY <1>4 DEF vars, database
<1> QED BY <1>1, <1>2, <1>3, <1>4 DEF Next

\* A fresh generation is in no store and with no worker.
LEMMA FreshIsUnused ==
  ASSUME NEW g, Fresh(g)
  PROVE  /\ \A d \in Docs : g \notin rows[d]
         /\ \A w \in Workers : g # gen[w]
BY DEF Fresh, Unused

LEMMA FreshStep == TypeOK /\ FreshInv /\ [Next]_vars => FreshInv'
<1> SUFFICES ASSUME TypeOK, FreshInv, [Next]_vars,
                    NEW w \in Workers, pc'[w] \in Indexing
             PROVE  /\ \A d \in Docs : gen'[w] \notin rows'[d]
                    /\ \A v \in Workers : v # w => gen'[v] # gen'[w]
  BY DEF FreshInv
<1>1. WorkerStep(w)
  BY StepOfWorker
<1>2. CASE Prepare(w) /\ pc'[w] = "clear"
  <2>1. PICK g \in Gens : Fresh(g) /\ gen' = [gen EXCEPT ![w] = g] /\ rows' = rows
    BY <1>1, <1>2 DEF WorkerStep, Indexing, Prepare, ClearVectors, Upsert, PersistDelete
  <2> QED BY <2>1, FreshIsUnused DEF TypeOK, WorkersTypeOK
<1>3. CASE ~(Prepare(w) /\ pc'[w] = "clear")
  <2>1. pc[w] \in Indexing /\ gen'[w] = gen[w] /\ gen[w] \in Gens
    BY <1>1, <1>3 DEF WorkerStep, Indexing, ClearVectors, Upsert, PersistDelete,
       TypeOK, WorkersTypeOK
  <2>2. ASSUME NEW d \in Docs PROVE gen[w] \notin rows'[d]
    <3>1. ASSUME NEW e \in Docs, DeleteCommit(e) PROVE gen[w] \notin rows'[d]
      BY <2>1, <3>1 DEF DeleteCommit, FreshInv, TypeOK, DatabaseTypeOK
    <3>2. ASSUME NEW v \in Workers, PersistCommit(v), pc'[v] = "invalidate"
          PROVE  gen[w] \notin rows'[d]
      <4>1. v # w /\ pc[v] \in Indexing
        BY <3>2 DEF Indexing, PersistCommit
      <4>2. gen[v] # gen[w]
        BY <2>1, <4>1 DEF FreshInv
      <4>3. rows'[d] \subseteq rows[d] \union {gen[v]}
        BY <3>2 DEF PersistCommit, ReplaceRows, TypeOK, DatabaseTypeOK, database
      <4> QED BY <2>1, <4>2, <4>3 DEF FreshInv
    <3> QED BY <2>1, <3>1, <3>2, StepOfRows DEF FreshInv
  <2>3. ASSUME NEW v \in Workers, v # w PROVE gen'[v] # gen[w]
    <3>1. gen[v] # gen[w] /\ gen[w] # 0
      BY <2>1, <2>3, IngestionAssumption DEF FreshInv
    <3>2. ASSUME NEW g \in Gens, Fresh(g), gen' = [gen EXCEPT ![v] = g]
          PROVE  gen'[v] # gen[w]
      BY <3>2, FreshIsUnused DEF TypeOK, WorkersTypeOK
    <3>3. WorkerStep(v)
      BY StepOfWorker
    <3> QED BY <3>1, <3>2, <3>3 DEF WorkerStep
  <2> QED BY <2>1, <2>2, <2>3
<1> QED BY <1>2, <1>3

LEMMA SnapshotStep ==
  TypeOK /\ DeletionsHaveRow /\ SnapshotInv /\ RunsAlone /\ [Next]_vars => SnapshotInv'
<1> SUFFICES ASSUME TypeOK, DeletionsHaveRow, SnapshotInv, RunsAlone, [Next]_vars,
                    NEW w \in Workers, pc'[w] = "commit"
             PROVE  (seen[w] = rows[DocOf(w)] \/ doc[DocOf(w)] = "gone")'
  BY DEF SnapshotInv
<1>1. WorkerStep(w)
  BY StepOfWorker
<1>2. CASE PersistDelete(w)
  BY <1>2 DEF PersistDelete, TypeOK, WorkersTypeOK, DocOf, database
<1>3. CASE ~PersistDelete(w)
  <2>1. pc[w] = "commit" /\ msg'[w] = msg[w] /\ seen'[w] = seen[w]
    BY <1>1, <1>3 DEF WorkerStep, Indexing
  <2> DEFINE d == DocOf(w)
  <2>2. d \in Docs /\ DocOf(w)' = d
    BY <2>1, WorkerMessage DEF TypeOK, DocOf
  <2> HIDE DEF d
  <2>3. doc[d] = "gone" => doc'[d] = "gone"
    BY <2>2, StepOfDocument DEF DocumentStep, Exists
  <2>4. rows'[d] = rows[d] \/ doc'[d] = "gone"
    <3>1. ASSUME NEW e \in Docs, DeleteCommit(e) PROVE doc'[d] = "gone" \/ rows'[d] = rows[d]
      BY <2>2, <3>1 DEF DeleteCommit, TypeOK, DatabaseTypeOK
    <3>2. ASSUME NEW v \in Workers, PersistCommit(v), pc'[v] = "invalidate"
          PROVE  rows'[d] = rows[d]
      <4>1. v # w /\ pc[v] = "commit"
        BY <3>2 DEF PersistCommit
      <4>2. DocOf(v) # d
        BY <2>1, <4>1 DEF RunsAlone, d
      <4> QED BY <2>2, <3>2, <4>2 DEF PersistCommit, ReplaceRows, TypeOK, DatabaseTypeOK, database
    <3> QED BY <3>1, <3>2, StepOfRows
  <2> QED BY <2>1, <2>2, <2>3, <2>4 DEF SnapshotInv, d
<1> QED BY <1>2, <1>3

\* Only Take makes a worker busy, so the others keep runs apart.
LEMMA StaysAlone ==
  TypeOK /\ RunsAlone /\ [SerialNext]_vars => [Next /\ RunsAlone']_vars
<1> SUFFICES ASSUME TypeOK, RunsAlone, SerialNext
             PROVE  Next /\ RunsAlone'
  OBVIOUS
<1>1. Next
  BY DEF SerialNext, TakeAlone, Next
<1>2. ASSUME \A w \in Workers : pc'[w] # "idle" => pc[w] # "idle" /\ msg'[w] = msg[w]
      PROVE  RunsAlone'
  BY <1>2 DEF RunsAlone, DocOf
<1>3. ASSUME NEW d \in Docs, Api(d) PROVE pc' = pc /\ msg' = msg
  BY <1>3 DEF Api, UploadSave, UploadCommit, UploadFail, Enqueue, Reingest, run,
     DeleteVectors, DeleteStep, DeleteFile, DeleteFlush, DeleteBump, DeleteCommit,
     DeleteFail
<1>4. ASSUME NEW v \in Workers, RunStep(v) \/ Crash(v) \/ Kill(v)
      PROVE  \A w \in Workers : pc'[w] # "idle" => pc[w] # "idle" /\ msg'[w] = msg[w]
  <2> USE DEF TypeOK, WorkersTypeOK, Goto, run
  <2>1. CASE RunStep(v) /\ ~Ack(v)
    <3>1. msg' = msg
      BY <2>1 DEF RunStep, Start, Prepare, ClearVectors, Upsert, PersistDelete,
         PersistCommit, Invalidate, Retry, MarkFailed
    <3>2. \A w \in Workers : w # v => pc'[w] = pc[w]
      BY <2>1 DEF RunStep, Start, Prepare, ClearVectors, Upsert, PersistDelete,
         PersistCommit, Invalidate, Retry, MarkFailed, Raise, Proceed
    <3>3. pc[v] # "idle"
      BY <2>1, RunActive
    <3> QED BY <3>1, <3>2, <3>3
  <2>2. CASE Ack(v) \/ Crash(v) \/ Kill(v)
    BY <2>2 DEF Ack, Crash, Kill, Release
  <2> QED BY <1>4, <2>1, <2>2 DEF RunStep
<1>5. ASSUME NEW v \in Workers, TakeAlone(v) PROVE RunsAlone'
  BY <1>5 DEF TakeAlone
<1> QED BY <1>1, <1>2, <1>3, <1>4, <1>5 DEF SerialNext

\* What holds of the rows while runs of one document do not overlap.
SerialRows == TypeOK /\ RowsInv /\ FreshInv /\ SnapshotInv /\ RunsAlone

LEMMA SerialRowsInvariant == SerialSpec => []SerialRows
<1>1. Init => SerialRows
  <2>1. Init => TypeOK
    BY IngestionAssumption DEF Init, TypeOK, DatabaseTypeOK, StoresTypeOK, ApiTypeOK,
       WorkersTypeOK, DocStatus, JobStatus, DelStep, Label, Indexing
  <2> QED
    BY <2>1 DEF Init, SerialRows, RowsInv, CompletedHasChunks, RowsNeedDocument,
       DeletionsHaveRow, FreshInv, SnapshotInv, RunsAlone, Indexing
<1>2. SerialRows /\ [Next /\ RunsAlone']_vars => SerialRows'
  <2>1. RunsAlone /\ UNCHANGED vars => RunsAlone'
    BY DEF vars, run, RunsAlone, DocOf
  <2> QED
    BY <2>1, TypeStep, RowsStep, FreshStep, SnapshotStep DEF SerialRows, RowsInv
<1>3. SerialRows /\ [SerialNext]_vars => SerialRows'
  BY <1>2, StaysAlone DEF SerialRows
<1> QED BY <1>1, <1>3, PTL DEF SerialSpec

\* A step of the deployment where runs do not overlap is a step of the store.
LEMMA StoreStep ==
  SerialRows /\ [Next /\ RunsAlone']_vars => [Store!Next]_Store!vars
<1> SUFFICES ASSUME SerialRows, [Next /\ RunsAlone']_vars
             PROVE  Store!Next \/ UNCHANGED Store!vars
  OBVIOUS
<1> DEFINE gone == { d \in Docs : doc[d] = "gone" }
<1>1. TypeOK /\ RowsInv /\ FreshInv /\ SnapshotInv /\ [Next]_vars
  BY DEF SerialRows
<1>2. ASSUME NEW d \in Docs, DeleteCommit(d) PROVE Store!Next
  <2>1. rows' = [rows EXCEPT ![d] = {}] /\ gone' = gone \union {d}
    BY <1>1, <1>2 DEF DeleteCommit, TypeOK, DatabaseTypeOK
  <2>2. doc[d] # "gone"
    BY <1>1, <1>2 DEF DeleteCommit, RowsInv, DeletionsHaveRow, Exists
  <2> QED BY <2>1, <2>2 DEF Store!Next, Store!Remove
<1>3. ASSUME NEW w \in Workers, PersistCommit(w), pc'[w] = "invalidate"
      PROVE  Store!Next
  <2> DEFINE d == DocOf(w)
  <2>1. d \in Docs /\ gen[w] \in Gens
    BY <1>1, <1>3, WorkerMessage DEF PersistCommit, TypeOK, WorkersTypeOK, Indexing
  <2>2. /\ Exists(d)
        /\ rows' = [rows EXCEPT ![d] = (@ \ seen[w]) \union {gen[w]}]
        /\ doc' = [doc EXCEPT ![d] = "completed"]
    BY <1>1, <1>3 DEF PersistCommit, ReplaceRows, Goto, TypeOK, WorkersTypeOK
  <2>3. seen[w] = rows[d] /\ \A e \in Docs : gen[w] \notin rows[e]
    BY <1>1, <1>3, <2>2 DEF PersistCommit, ReplaceRows, SnapshotInv, FreshInv, Exists, Indexing
  <2> HIDE DEF d
  <2>4. rows' = [rows EXCEPT ![d] = {gen[w]}]
    BY <2>2, <2>3
  <2>5. gone' = gone /\ d \notin gone
    BY <1>1, <2>1, <2>2 DEF TypeOK, DatabaseTypeOK, Exists
  <2> QED BY <2>1, <2>3, <2>4, <2>5 DEF Store!Next, Store!Publish
<1>4. ASSUME NEW d \in Docs, UploadFail(d) PROVE Store!Next
  <2>1. gone' = gone \union {d} /\ doc[d] # "gone"
    BY <1>1, <1>4 DEF UploadFail, TypeOK, DatabaseTypeOK
  <2>2. rows' = [rows EXCEPT ![d] = {}]
    BY <1>1, <1>4 DEF UploadFail, TypeOK, DatabaseTypeOK, RowsInv, RowsNeedDocument, Exists
  <2> QED BY <2>1, <2>2 DEF Store!Next, Store!Remove
<1>5. CASE /\ ~\E d \in Docs : DeleteCommit(d) \/ UploadFail(d)
           /\ ~\E w \in Workers : PersistCommit(w) /\ pc'[w] = "invalidate"
  <2>1. rows' = rows
    BY <1>1, <1>5, StepOfRows
  <2>2. ASSUME NEW d \in Docs PROVE doc'[d] = "gone" <=> doc[d] = "gone"
    <3>1. doc[d] = "gone" => doc'[d] = "gone"
      BY <1>1, StepOfDocument DEF DocumentStep, Exists, RowsInv
    <3>2. ASSUME NEW e \in Docs, Api(e), doc'[d] = "gone" PROVE doc[d] = "gone"
      BY <1>1, <1>5, <3>2 DEF Api, UploadSave, UploadCommit, Enqueue, Reingest,
         DeleteVectors, DeleteStep, DeleteFile, DeleteFlush, DeleteBump, DeleteFail,
         database, TypeOK, DatabaseTypeOK
    <3>3. ASSUME NEW w \in Workers, RunStep(w), doc'[d] = "gone" PROVE doc[d] = "gone"
      BY <1>1, <3>3 DEF RunStep, Start, Prepare, ClearVectors, Upsert, PersistDelete,
         PersistCommit, Invalidate, Retry, MarkFailed, Ack, database, TypeOK, DatabaseTypeOK
    <3>4. ASSUME NEW w \in Workers, Take(w) \/ Crash(w) \/ Kill(w) PROVE doc' = doc
      BY <3>4 DEF Take, Crash, Kill, database
    <3>5. UNCHANGED vars => doc' = doc
      BY DEF vars, database
    <3> QED BY <1>1, <3>1, <3>2, <3>3, <3>4, <3>5 DEF Next
  <2>3. gone' = gone
    BY <2>2
  <2> QED BY <2>1, <2>3 DEF Store!vars
<1> QED BY <1>2, <1>3, <1>4, <1>5

\* Ingestion whose runs do not overlap implements the chunk store: readers of
\* the rows see one whole generation at a time, replaced in one step, and
\* nothing for a document that was removed.
THEOREM SerialImplementsChunkStore == SerialSpec => ImplementsChunkStore
<1>1. Init => Store!Init
  BY DEF Init, Store!Init
<1>2. SerialRows /\ [SerialNext]_vars => [Store!Next]_Store!vars
  BY StoreStep, StaysAlone DEF SerialRows
<1> QED
  BY <1>1, <1>2, SerialRowsInvariant, PTL
  DEF SerialSpec, ImplementsChunkStore, Store!Spec

-----------------------------------------------------------------------------
(* The two indexes of a completed document agree.                          *)

\* While a run is under way its document is not completed, and Qdrant holds
\* nothing or the run's own generation, unless the document is being deleted.
IndexInv ==
  /\ \A w \in Workers : pc[w] \in Indexing \union {"prepare"} =>
       doc[DocOf(w)] # "completed"
  /\ \A w \in Workers : pc[w] = "upsert" => vecs[DocOf(w)] = {}
  /\ \A w \in Workers : pc[w] \in {"persist", "commit"} =>
       \/ vecs[DocOf(w)] = {gen[w]}
       \/ del[DocOf(w)] # "no"
       \/ doc[DocOf(w)] = "gone"
  /\ CompletedIndexesAgree

\* Only these steps change the points of a document.
VectorsStep(d) ==
  \/ vecs'[d] = vecs[d]
  \/ DeleteVectors(d) /\ vecs'[d] = {} /\ del'[d] = "file"
  \/ \E w \in Workers : DocOf(w) = d /\ (ClearVectors(w) \/ Upsert(w))

LEMMA StepOfVectors ==
  ASSUME TypeOK, [Next]_vars, NEW d \in Docs
  PROVE  VectorsStep(d)
<1> USE DEF TypeOK, StoresTypeOK, ApiTypeOK, stores, VectorsStep
<1>1. ASSUME NEW e \in Docs, Api(e) PROVE VectorsStep(d)
  <2>1. CASE DeleteVectors(e)
    BY <2>1 DEF DeleteVectors
  <2> QED
    BY <1>1, <2>1 DEF Api, UploadSave, UploadCommit, UploadFail, Enqueue, Reingest,
       DeleteStep, DeleteFile, DeleteFlush, DeleteBump, DeleteCommit, DeleteFail
<1>2. ASSUME NEW w \in Workers, RunStep(w) PROVE VectorsStep(d)
  <2>1. CASE ClearVectors(w) \/ Upsert(w)
    <3>1. DocOf(w) # d => vecs'[d] = vecs[d]
      BY <2>1 DEF ClearVectors, Upsert
    <3> QED BY <2>1, <3>1
  <2> QED
    BY <1>2, <2>1 DEF RunStep, Start, Prepare, PersistDelete, PersistCommit,
       Invalidate, Retry, MarkFailed, Ack
<1>3. ASSUME NEW w \in Workers, Take(w) \/ Crash(w) \/ Kill(w) PROVE VectorsStep(d)
  BY <1>3 DEF Take, Crash, Kill
<1>4. CASE UNCHANGED vars
  BY <1>4 DEF vars
<1> QED BY <1>1, <1>2, <1>3, <1>4 DEF Next

\* Only its final transaction completes a document.
LEMMA StepToCompleted ==
  ASSUME TypeOK, [Next]_vars, NEW d \in Docs, doc'[d] = "completed"
  PROVE  \/ doc[d] = "completed"
         \/ \E w \in Workers :
              PersistCommit(w) /\ DocOf(w) = d /\ pc'[w] = "invalidate"
<1> USE DEF TypeOK, DatabaseTypeOK, WorkersTypeOK, database
<1>1. ASSUME NEW e \in Docs, Api(e) PROVE doc[d] = "completed"
  BY <1>1 DEF Api, UploadSave, UploadCommit, UploadFail, Enqueue, Reingest,
     DeleteVectors, DeleteStep, DeleteFile, DeleteFlush, DeleteBump, DeleteCommit,
     DeleteFail
<1>2. ASSUME NEW w \in Workers, RunStep(w), doc[d] # "completed"
      PROVE  PersistCommit(w) /\ DocOf(w) = d /\ pc'[w] = "invalidate"
  <2>1. PersistCommit(w)
    BY <1>2 DEF RunStep, Start, Prepare, ClearVectors, Upsert, PersistDelete,
       Invalidate, Retry, MarkFailed, Ack
  <2>2. DocOf(w) = d /\ pc'[w] = "invalidate"
    BY <1>2, <2>1 DEF PersistCommit, Goto
  <2> QED BY <2>1, <2>2
<1>3. ASSUME NEW w \in Workers, Take(w) \/ Crash(w) \/ Kill(w) PROVE doc[d] = "completed"
  BY <1>3 DEF Take, Crash, Kill
<1>4. CASE UNCHANGED vars
  BY <1>4 DEF vars
<1> QED BY <1>1, <1>2, <1>3, <1>4 DEF Next

\* A run reaches "prepare" by Start alone, which marks its document.
LEMMA StepToPrepare ==
  ASSUME TypeOK, [Next]_vars, NEW w \in Workers, pc'[w] = "prepare"
  PROVE  \/ pc[w] = "prepare" /\ msg'[w] = msg[w]
         \/ msg'[w] = msg[w] /\ doc'[DocOf(w)] = "processing"
<1> USE DEF TypeOK, DatabaseTypeOK, WorkersTypeOK, database, run, Goto
<1>1. ASSUME NEW e \in Docs, Api(e) PROVE pc[w] = "prepare" /\ msg'[w] = msg[w]
  BY <1>1 DEF Api, UploadSave, UploadCommit, UploadFail, Enqueue, Reingest,
     DeleteVectors, DeleteStep, DeleteFile, DeleteFlush, DeleteBump, DeleteCommit,
     DeleteFail
<1>2. ASSUME NEW v \in Workers, RunStep(v)
      PROVE  \/ pc[w] = "prepare" /\ msg'[w] = msg[w]
             \/ msg'[w] = msg[w] /\ doc'[DocOf(w)] = "processing"
  <2>1. CASE v # w
    BY <1>2, <2>1 DEF RunStep, Start, Prepare, ClearVectors, Upsert, PersistDelete,
       PersistCommit, Invalidate, Retry, MarkFailed, Ack, Release, Raise, Proceed
  <2>2. CASE v = w
    <3>1. Start(w)
      BY <1>2, <2>2 DEF RunStep, Prepare, ClearVectors, Upsert, PersistDelete,
         PersistCommit, Invalidate, Retry, MarkFailed, Ack, Release, Raise, Proceed
    <3>2. DocOf(w) \in Docs
      BY <1>2, <2>2, RunActive, WorkerMessage
    <3> QED BY <3>1, <3>2 DEF Start
  <2> QED BY <2>1, <2>2
<1>3. ASSUME NEW v \in Workers, Take(v) \/ Crash(v) \/ Kill(v)
      PROVE  pc[w] = "prepare" /\ msg'[w] = msg[w]
  BY <1>3 DEF Take, Crash, Kill, Release
<1>4. CASE UNCHANGED vars
  BY <1>4 DEF vars
<1> QED BY <1>1, <1>2, <1>3, <1>4 DEF Next

\* A deletion that does not fail ends with the document.
LEMMA StepOfSureDeletion ==
  ASSUME "delete" \notin Faults, TypeOK, [Next]_vars, NEW d \in Docs,
         del'[d] = "no"
  PROVE  del[d] = "no" \/ doc'[d] = "gone"
<1> USE DEF TypeOK, DatabaseTypeOK, ApiTypeOK, api
<1>1. ASSUME NEW e \in Docs, Api(e) PROVE del[d] = "no" \/ doc'[d] = "gone"
  BY <1>1 DEF Api, UploadSave, UploadCommit, UploadFail, Enqueue, Reingest,
     DeleteVectors, DeleteStep, DeleteFile, DeleteFlush, DeleteBump, DeleteCommit,
     DeleteFail
<1>2. ASSUME NEW w \in Workers, RunStep(w) \/ Take(w) \/ Crash(w) \/ Kill(w)
      PROVE  del[d] = "no"
  BY <1>2 DEF RunStep, Start, Prepare, ClearVectors, Upsert, PersistDelete,
     PersistCommit, Invalidate, Retry, MarkFailed, Ack, Take, Crash, Kill
<1>3. CASE UNCHANGED vars
  BY <1>3 DEF vars
<1> QED BY <1>1, <1>2, <1>3 DEF Next

LEMMA IndexStep ==
  ASSUME "delete" \notin Faults
  PROVE  SerialRows /\ IndexInv /\ [Next]_vars => IndexInv'
<1> SUFFICES ASSUME SerialRows, IndexInv, [Next]_vars PROVE IndexInv'
  OBVIOUS
<1>0. /\ TypeOK /\ DeletionsHaveRow /\ SnapshotInv /\ RunsAlone
      /\ \A d \in Docs : DocumentStep(d) /\ DeletionStep(d) /\ VectorsStep(d)
      /\ \A w \in Workers : WorkerStep(w)
  BY StepOfDocument, StepOfDeletion, StepOfVectors, StepOfWorker DEF SerialRows, RowsInv
\* A worker that is in its run after the step, and did not just start it, is
\* the only one that can change its document's points or complete it.
<1>1. ASSUME NEW w \in Workers, pc'[w] \in Indexing \union {"prepare"}
      PROVE  (doc[DocOf(w)] # "completed")'
  <2>1. CASE pc[w] \in Indexing \union {"prepare"} /\ msg'[w] = msg[w]
    <3>1. DocOf(w)' = DocOf(w) /\ DocOf(w) \in Docs /\ doc[DocOf(w)] # "completed"
      BY <1>0, <2>1, WorkerMessage DEF DocOf, Indexing, IndexInv, TypeOK
    <3>2. ASSUME NEW v \in Workers, PersistCommit(v), pc'[v] = "invalidate"
          PROVE  DocOf(v) # DocOf(w)
      <4>1. v # w /\ pc[v] # "idle" /\ pc[w] # "idle"
        BY <1>1, <2>1, <3>2 DEF PersistCommit, Indexing
      <4> QED BY <1>0, <4>1 DEF RunsAlone
    <3> QED BY <1>0, <3>1, <3>2, StepToCompleted
  <2>2. CASE ~(pc[w] \in Indexing \union {"prepare"} /\ msg'[w] = msg[w])
    <3>1. pc'[w] = "prepare"
      BY <1>0, <1>1, <2>2 DEF WorkerStep, Indexing, Prepare, ClearVectors, Upsert, PersistDelete
    <3>2. msg'[w] = msg[w] /\ doc'[DocOf(w)] = "processing"
      BY <1>0, <2>2, <3>1, StepToPrepare
    <3> QED BY <3>2 DEF DocOf
  <2> QED BY <2>1, <2>2
<1>2. ASSUME NEW w \in Workers, pc[w] \in Indexing, NEW v \in Workers,
             DocOf(v) = DocOf(w), ClearVectors(v) \/ Upsert(v)
      PROVE  v = w
  BY <1>0, <1>2 DEF RunsAlone, ClearVectors, Upsert, Indexing
<1>3. ASSUME NEW w \in Workers, pc'[w] = "upsert"
      PROVE  (vecs[DocOf(w)] = {})'
  <2>1. CASE ClearVectors(w)
    <3>1. DocOf(w) \in Docs
      BY <1>0, <2>1, WorkerMessage DEF ClearVectors, TypeOK
    <3>2. vecs' = [vecs EXCEPT ![DocOf(w)] = {}] /\ msg' = msg
      BY <1>0, <1>3, <2>1 DEF ClearVectors, Raise, Goto, TypeOK, WorkersTypeOK
    <3> QED BY <1>0, <3>1, <3>2 DEF DocOf, TypeOK, StoresTypeOK
  <2>2. CASE ~ClearVectors(w)
    <3>1. pc[w] = "upsert" /\ msg'[w] = msg[w]
      BY <1>0, <1>3, <2>2 DEF WorkerStep, Indexing
    <3>2. DocOf(w)' = DocOf(w) /\ DocOf(w) \in Docs /\ vecs[DocOf(w)] = {}
      BY <1>0, <3>1, WorkerMessage DEF DocOf, IndexInv, TypeOK
    <3>3. ~Upsert(w)
      BY <1>0, <1>3 DEF Upsert, Raise, Proceed, Goto, TypeOK, WorkersTypeOK
    <3> QED BY <1>0, <1>2, <2>2, <3>1, <3>2, <3>3 DEF VectorsStep, Indexing, DocOf
  <2> QED BY <2>1, <2>2
<1>4. ASSUME NEW w \in Workers, pc'[w] \in {"persist", "commit"}
      PROVE  (\/ vecs[DocOf(w)] = {gen[w]}
              \/ del[DocOf(w)] # "no"
              \/ doc[DocOf(w)] = "gone")'
  <2>1. CASE Upsert(w)
    <3>1. DocOf(w) \in Docs /\ vecs[DocOf(w)] = {}
      BY <1>0, <2>1, WorkerMessage DEF Upsert, TypeOK, IndexInv
    <3>2. /\ vecs' = [vecs EXCEPT ![DocOf(w)] = @ \union {gen[w]}]
          /\ msg' = msg /\ gen' = gen
      BY <1>0, <1>4, <2>1 DEF Upsert, Raise, Proceed, Goto, TypeOK, WorkersTypeOK
    <3> QED BY <1>0, <3>1, <3>2 DEF DocOf, TypeOK, StoresTypeOK
  <2>2. CASE ~Upsert(w)
    <3>1. pc[w] \in {"persist", "commit"} /\ msg'[w] = msg[w] /\ gen'[w] = gen[w]
      BY <1>0, <1>4, <2>2 DEF WorkerStep, Indexing, PersistDelete
    <3> DEFINE d == DocOf(w)
    <3>2. DocOf(w)' = d /\ d \in Docs
      BY <1>0, <3>1, WorkerMessage DEF DocOf, TypeOK
    <3>3. vecs[d] = {gen[w]} \/ del[d] # "no" \/ doc[d] = "gone"
      BY <3>1 DEF IndexInv
    <3>4. ~ClearVectors(w)
      BY <3>1 DEF ClearVectors
    <3>5. vecs'[d] = vecs[d] \/ del'[d] = "file"
      BY <1>0, <1>2, <2>2, <3>1, <3>2, <3>4 DEF VectorsStep, Indexing
    <3> HIDE DEF d
    <3>6. doc[d] = "gone" => doc'[d] = "gone"
      BY <1>0, <3>2 DEF DocumentStep, Exists
    <3>7. del[d] # "no" => del'[d] # "no" \/ doc'[d] = "gone"
      BY <1>0, <3>2, StepOfSureDeletion
    <3> QED BY <3>1, <3>2, <3>3, <3>5, <3>6, <3>7
  <2> QED BY <2>1, <2>2
<1>5. ASSUME NEW d \in Docs, doc'[d] = "completed", del'[d] = "no"
      PROVE  \E g \in Gens : rows'[d] = {g} /\ vecs'[d] = {g}
  <2>0. del[d] = "no"
    BY <1>0, <1>5, StepOfSureDeletion
  <2>1. CASE doc[d] = "completed"
    <3>1. PICK g \in Gens : rows[d] = {g} /\ vecs[d] = {g}
      BY <2>0, <2>1 DEF IndexInv, CompletedIndexesAgree
    <3>2. ASSUME NEW w \in Workers, DocOf(w) = d
          PROVE  ~(ClearVectors(w) \/ Upsert(w) \/ PersistCommit(w))
      BY <2>1, <3>2 DEF ClearVectors, Upsert, PersistCommit, IndexInv, Indexing
    <3>3. vecs'[d] = vecs[d]
      BY <1>0, <1>5, <3>2 DEF VectorsStep
    <3>4. rows'[d] = rows[d]
      <4>1. ASSUME NEW e \in Docs, DeleteCommit(e) PROVE rows'[d] = rows[d]
        BY <1>0, <2>0, <4>1 DEF DeleteCommit, TypeOK, DatabaseTypeOK
      <4>2. ASSUME NEW w \in Workers, PersistCommit(w) PROVE rows'[d] = rows[d]
        BY <1>0, <3>2, <4>2 DEF PersistCommit, ReplaceRows, TypeOK, DatabaseTypeOK, database
      <4> QED BY <1>0, <4>1, <4>2, StepOfRows
    <3> QED BY <3>1, <3>3, <3>4
  <2>2. CASE doc[d] # "completed"
    <3>1. PICK w \in Workers :
            PersistCommit(w) /\ DocOf(w) = d /\ pc'[w] = "invalidate"
      BY <1>0, <1>5, <2>2, StepToCompleted
    <3>2. /\ Exists(d)
          /\ rows' = [rows EXCEPT ![d] = (@ \ seen[w]) \union {gen[w]}]
          /\ vecs' = vecs
      BY <1>0, <3>1 DEF PersistCommit, ReplaceRows, Goto, TypeOK, WorkersTypeOK, stores
    <3>3. seen[w] = rows[d] /\ vecs[d] = {gen[w]} /\ gen[w] \in Gens
      BY <1>0, <2>0, <3>1, <3>2 DEF PersistCommit, ReplaceRows, SnapshotInv, IndexInv, Exists,
         TypeOK, WorkersTypeOK, Indexing
    <3>4. rows'[d] = {gen[w]}
      BY <1>0, <3>2, <3>3 DEF TypeOK, DatabaseTypeOK
    <3> QED BY <3>2, <3>3, <3>4
  <2> QED BY <2>1, <2>2
<1> QED BY <1>1, <1>3, <1>4, <1>5 DEF IndexInv, CompletedIndexesAgree

\* A completed document whose deletion has not begun has the same single
\* generation in Postgres and in Qdrant, through retries, redelivery and every
\* failure of a run, when its runs do not overlap and deletions do not fail.
THEOREM CompletedDocumentsAgree ==
  ASSUME "delete" \notin Faults
  PROVE  SerialSpec => []CompletedIndexesAgree
<1>1. Init => IndexInv
  BY DEF Init, IndexInv, CompletedIndexesAgree, Indexing
<1>2. SerialRows /\ IndexInv /\ [SerialNext]_vars => IndexInv'
  BY IndexStep, StaysAlone DEF SerialRows
<1>3. IndexInv => CompletedIndexesAgree
  BY DEF IndexInv
<1> QED BY <1>1, <1>2, <1>3, SerialRowsInvariant, PTL DEF SerialSpec

-----------------------------------------------------------------------------
(* BM25 readers are told of every committed change of the rows.            *)

\* No fault ends a run between its commit and its announcement.
AnnouncementsSurvive == Faults \intersect {"redis", "crash", "kill"} = {}

\* The version is bumped with the rows of that moment, or not at all.
BumpStep ==
  \/ announced' = announced
  \/ announced' = rows /\ rows' = rows

LEMMA StepOfAnnounced ==
  ASSUME TypeOK, [Next]_vars
  PROVE  BumpStep
<1> USE DEF BumpStep
<1>1. ASSUME NEW d \in Docs, Api(d)
      PROVE  BumpStep
  BY <1>1 DEF Api, UploadSave, UploadCommit, UploadFail, Enqueue, Reingest, stores,
     DeleteVectors, DeleteStep, DeleteFile, DeleteFlush, DeleteBump, DeleteCommit,
     DeleteFail, database
<1>2. ASSUME NEW w \in Workers, RunStep(w)
      PROVE  BumpStep
  BY <1>2 DEF RunStep, Start, Prepare, ClearVectors, Upsert, PersistDelete,
     PersistCommit, Invalidate, Retry, MarkFailed, Ack, stores, database
<1>3. ASSUME NEW w \in Workers, Take(w) \/ Crash(w) \/ Kill(w) PROVE announced' = announced
  BY <1>3 DEF Take, Crash, Kill, stores
<1>4. CASE UNCHANGED vars
  BY <1>4 DEF vars, stores
<1> QED BY <1>1, <1>2, <1>3, <1>4 DEF Next

\* A run that is about to bump the version bumps it, or is still about to.
LEMMA StepOfInvalidate ==
  ASSUME AnnouncementsSurvive, TypeOK, [Next]_vars, NEW w \in Workers, pc[w] = "invalidate"
  PROVE  \/ pc'[w] = "invalidate" /\ msg'[w] = msg[w]
         \/ announced' = rows /\ rows' = rows
<1> USE DEF TypeOK, WorkersTypeOK, Goto, run
<1>1. ASSUME NEW v \in Workers, RunStep(v), v # w
      PROVE  pc'[w] = pc[w] /\ msg'[w] = msg[w]
  BY <1>1 DEF RunStep, Start, Prepare, ClearVectors, Upsert, PersistDelete,
     PersistCommit, Invalidate, Retry, MarkFailed, Ack, Release, Raise, Proceed, Forget
<1>2. CASE RunStep(w)
  <2>1. Invalidate(w)
    BY <1>2 DEF RunStep, Start, Prepare, ClearVectors, Upsert, PersistDelete,
       PersistCommit, Retry, MarkFailed, Ack
  <2> QED BY <2>1 DEF Invalidate, AnnouncementsSurvive, database
<1>3. ASSUME NEW v \in Workers, Take(v) PROVE pc'[w] = pc[w] /\ msg'[w] = msg[w]
  BY <1>3 DEF Take
<1>4. ASSUME NEW v \in Workers, Crash(v) \/ Kill(v) PROVE FALSE
  BY <1>4 DEF Crash, Kill, AnnouncementsSurvive
<1>5. ASSUME NEW d \in Docs, Api(d) PROVE pc'[w] = pc[w] /\ msg'[w] = msg[w]
  BY <1>5 DEF Api, UploadSave, UploadCommit, UploadFail, Enqueue, Reingest,
     DeleteVectors, DeleteStep, DeleteFile, DeleteFlush, DeleteBump, DeleteCommit,
     DeleteFail
<1>6. CASE UNCHANGED vars
  BY <1>6 DEF vars
<1> QED BY <1>1, <1>2, <1>3, <1>4, <1>5, <1>6 DEF Next

LEMMA UnannouncedStep ==
  ASSUME AnnouncementsSurvive
  PROVE  TypeOK /\ RowsInv /\ UnannouncedIsTransient /\ [Next]_vars
           => UnannouncedIsTransient'
<1> SUFFICES ASSUME TypeOK, RowsInv, UnannouncedIsTransient, [Next]_vars, NEW d \in Docs,
                    doc'[d] # "gone", announced'[d] # rows'[d]
             PROVE  \E w \in Workers : pc'[w] = "invalidate" /\ DocOf(w)' = d
  BY DEF UnannouncedIsTransient
<1>1. announced' = announced
  BY StepOfAnnounced DEF BumpStep
<1>2. doc[d] # "gone"
  BY StepOfDocument DEF RowsInv, DocumentStep, Exists
<1>3. CASE rows'[d] = rows[d]
  <2>1. PICK w \in Workers : pc[w] = "invalidate" /\ DocOf(w) = d
    BY <1>1, <1>2, <1>3 DEF UnannouncedIsTransient
  <2>2. pc'[w] = "invalidate" /\ msg'[w] = msg[w]
    BY <1>3, <2>1, StepOfInvalidate
  <2> QED BY <2>1, <2>2 DEF DocOf
<1>4. CASE rows'[d] # rows[d]
  <2>1. ASSUME NEW e \in Docs, DeleteCommit(e) PROVE FALSE
    BY <2>1, <1>4 DEF DeleteCommit, TypeOK, DatabaseTypeOK
  <2>2. PICK w \in Workers : PersistCommit(w) /\ pc'[w] = "invalidate"
    BY <1>4, <2>1, StepOfRows
  <2>3. msg' = msg
    BY <2>2 DEF PersistCommit
  <2>4. DocOf(w) = d
    BY <2>2, <1>4 DEF PersistCommit, ReplaceRows, database, TypeOK, DatabaseTypeOK
  <2> QED BY <2>2, <2>3, <2>4 DEF DocOf
<1> QED BY <1>3, <1>4

\* Chunk rows that BM25 readers were not told of belong to a run between its
\* commit and its bump of the version, through retries, failing deletions and
\* overlapping runs, as long as that bump is not lost with its worker or Redis.
THEOREM UnannouncedAreTransient ==
  ASSUME AnnouncementsSurvive
  PROVE  Spec => []UnannouncedIsTransient
<1>1. Init => UnannouncedIsTransient
  BY DEF Init, UnannouncedIsTransient
<1> QED BY <1>1, UnannouncedStep, TypeCorrect, RowsInvariant, PTL DEF Spec

-----------------------------------------------------------------------------
(* The usage ledger counts a request once.                                 *)

\* Where a run may still write its usage event, or be retried and write it.
Owing == {"start", "prepare", "clear", "upsert", "persist", "commit", "retry"}

Attempt(d, t) == [doc |-> d, tries |-> t]

Ticket(t, i) == <<t, i>>

\* The broker q with one message m more.
WithMessage(q, m) == [q EXCEPT ![m] = @ + 1]

\* One element for every message of d that waits in the broker q.
TicketsOf(q, d) ==
  UNION { {t} \X (1..q[Attempt(d, t)]) : t \in 0..MaxRetries }

Tickets(d) == TicketsOf(queue, d)

Holders(d) == { w \in Workers : pc[w] \in Owing /\ DocOf(w) = d }

\* Every event of d, written or still owed, has a request of its own: one that
\* is not published yet, that waits in the broker, or that a run works on.
UsageInv ==
  \A d \in Docs :
    /\ IsFiniteSet(Tickets(d))
    /\ IsFiniteSet(Holders(d))
    /\ usage[d] + pend[d] + Cardinality(Tickets(d)) + Cardinality(Holders(d))
         <= requests[d]

\* Redelivery of a message whose run already committed would count it again.
RunsDeliveredOnce == "crash" \notin Faults

LEMMA TicketIs ==
  ASSUME NEW q, NEW d \in Docs, NEW p
  PROVE  p \in TicketsOf(q, d) <=>
           \E t \in 0..MaxRetries : \E i \in Nat : i \in 1..q[Attempt(d, t)] /\ p = Ticket(t, i)
<1>1. p \in TicketsOf(q, d) <=> \E t \in 0..MaxRetries : p \in {t} \X (1..q[Attempt(d, t)])
  BY Zenon DEF TicketsOf
<1>2. ASSUME NEW t, NEW n
      PROVE  p \in {t} \X (1..n) <=> \E i \in Nat : i \in 1..n /\ p = Ticket(t, i)
  BY DEF Ticket
<1> QED BY <1>1, <1>2

\* One message more in the broker is one ticket more of its document.
LEMMA OneTicketMore ==
  ASSUME NEW q \in [Messages -> Nat], NEW m \in Messages, NEW d \in Docs,
         NEW r, r = WithMessage(q, m)
  PROVE  /\ m.doc = d => \E x : /\ x \notin TicketsOf(q, d)
                                /\ TicketsOf(r, d) = TicketsOf(q, d) \union {x}
         /\ m.doc # d => TicketsOf(r, d) = TicketsOf(q, d)
<1>0. m.tries \in 0..MaxRetries /\ (m.doc = d => m = Attempt(d, m.tries))
  BY DEF Messages, Attempt
<1>1. \A t \in 0..MaxRetries : /\ Attempt(d, t) \in Messages
                               /\ Attempt(d, t) = m => t = m.tries /\ m.doc = d
  BY DEF Messages, Attempt
<1>2. \A t \in 0..MaxRetries :
        r[Attempt(d, t)] = IF Attempt(d, t) = m THEN q[Attempt(d, t)] + 1 ELSE q[Attempt(d, t)]
  BY <1>1 DEF WithMessage
<1>3. CASE m.doc # d
  <2>1. \A t \in 0..MaxRetries : r[Attempt(d, t)] = q[Attempt(d, t)]
    BY <1>1, <1>2, <1>3
  <2>2. ASSUME NEW p PROVE p \in TicketsOf(r, d) <=> p \in TicketsOf(q, d)
    <3>1. p \in TicketsOf(q, d) <=>
            \E t \in 0..MaxRetries : \E i \in Nat : i \in 1..q[Attempt(d, t)] /\ p = Ticket(t, i)
      BY TicketIs
    <3>2. p \in TicketsOf(r, d) <=>
            \E t \in 0..MaxRetries : \E i \in Nat : i \in 1..r[Attempt(d, t)] /\ p = Ticket(t, i)
      BY TicketIs
    <3> QED BY <2>1, <3>1, <3>2
  <2>3. TicketsOf(r, d) = TicketsOf(q, d)
    BY <2>2
  <2> QED BY <2>3, <1>3
<1>4. CASE m.doc = d
  <2> DEFINE new == Ticket(m.tries, q[m] + 1)
  <2>1. new \notin TicketsOf(q, d)
    <3>1. ASSUME NEW t \in 0..MaxRetries, NEW i \in 1..q[Attempt(d, t)], new = Ticket(t, i)
          PROVE  FALSE
      <4>1. t = m.tries /\ i = q[m] + 1 /\ Attempt(d, t) = m
        BY <3>1, <1>0, <1>4 DEF Ticket
      <4>2. q[m] \in Nat
        OBVIOUS
      <4> QED BY <3>1, <4>1, <4>2
    <3> QED BY <3>1, TicketIs
  <2>2. ASSUME NEW p PROVE p \in TicketsOf(r, d) <=> p \in TicketsOf(q, d) \union {new}
    <3>1. ASSUME NEW t \in 0..MaxRetries, NEW i
          PROVE  i \in 1..r[Attempt(d, t)] <=>
                   i \in 1..q[Attempt(d, t)] \/ (t = m.tries /\ i = q[m] + 1)
      <4>1. q[Attempt(d, t)] \in Nat /\ q[m] \in Nat
        BY <1>1
      <4>2. Attempt(d, t) = m <=> t = m.tries
        BY <1>0, <1>1, <1>4
      <4> QED BY <1>2, <4>1, <4>2
    <3>2. m.tries \in 0..MaxRetries
      BY <1>0
    <3>3. (\E t \in 0..MaxRetries : \E i \in Nat : i \in 1..r[Attempt(d, t)] /\ p = Ticket(t, i))
            <=> \/ \E t \in 0..MaxRetries : \E i \in Nat : i \in 1..q[Attempt(d, t)] /\ p = Ticket(t, i)
                \/ p = new
      <4> QED BY <3>1, <3>2
    <3>4. p \in TicketsOf(q, d) <=>
            \E t \in 0..MaxRetries : \E i \in Nat : i \in 1..q[Attempt(d, t)] /\ p = Ticket(t, i)
      BY TicketIs
    <3>5. p \in TicketsOf(r, d) <=>
            \E t \in 0..MaxRetries : \E i \in Nat : i \in 1..r[Attempt(d, t)] /\ p = Ticket(t, i)
      BY TicketIs
    <3> QED BY <3>3, <3>4, <3>5
  <2>3. TicketsOf(r, d) = TicketsOf(q, d) \union {new}
    BY <2>2
  <2> HIDE DEF new
  <2> QED BY <1>4, <2>1, <2>3
<1> QED BY <1>3, <1>4

\* What that does to their number.
LEMMA TicketCount ==
  ASSUME NEW q \in [Messages -> Nat], NEW m \in Messages, NEW d \in Docs,
         NEW r, r = WithMessage(q, m)
  PROVE  /\ IsFiniteSet(TicketsOf(q, d)) <=> IsFiniteSet(TicketsOf(r, d))
         /\ IsFiniteSet(TicketsOf(q, d)) =>
              Cardinality(TicketsOf(r, d)) =
                Cardinality(TicketsOf(q, d)) + (IF m.doc = d THEN 1 ELSE 0)
<1>1. CASE m.doc # d
  <2>1. TicketsOf(r, d) = TicketsOf(q, d)
    BY <1>1, OneTicketMore
  <2>2. IsFiniteSet(TicketsOf(q, d)) => Cardinality(TicketsOf(q, d)) \in Nat
    BY FS_CardinalityType
  <2> QED BY <1>1, <2>1, <2>2
<1>2. CASE m.doc = d
  <2>1. PICK x : x \notin TicketsOf(q, d) /\ TicketsOf(r, d) = TicketsOf(q, d) \union {x}
    BY <1>2, OneTicketMore
  <2>2. IsFiniteSet(TicketsOf(r, d)) => IsFiniteSet(TicketsOf(q, d))
    BY <2>1, FS_Subset
  <2> DEFINE Q == TicketsOf(q, d)
             R == TicketsOf(r, d)
  <2>3. R = Q \union {x} /\ x \notin Q /\ (IsFiniteSet(R) => IsFiniteSet(Q))
    BY <2>1, <2>2
  <2>4. IsFiniteSet(Q) => IsFiniteSet(Q \union {x}) /\ Cardinality(Q \union {x}) = Cardinality(Q) + 1
    <3> HIDE DEF Q
    <3> QED BY <2>3, FS_AddElement
  <2>5. (IsFiniteSet(Q) <=> IsFiniteSet(R)) /\ (IsFiniteSet(Q) => Cardinality(R) = Cardinality(Q) + 1)
    <3> HIDE DEF Q, R
    <3> QED BY <2>3, <2>4
  <2> QED BY <1>2, <2>5
<1> QED BY <1>1, <1>2

\* The account of d after a step that publishes no message and takes none.
LEMMA HoldersShrink ==
  ASSUME TypeOK, NEW w \in Workers, NEW l, pc' = [pc EXCEPT ![w] = l],
         \A v \in Workers : v # w => msg'[v] = msg[v],
         l \in Owing => pc[w] \in Owing /\ msg'[w] = msg[w],
         NEW d \in Docs, IsFiniteSet(Holders(d))
  PROVE  /\ IsFiniteSet(Holders(d)')
         /\ Cardinality(Holders(d)') <= Cardinality(Holders(d))
         /\ pc[w] \in Owing /\ l \notin Owing /\ DocOf(w) = d =>
              Cardinality(Holders(d)') = Cardinality(Holders(d)) - 1
<1>1. \A v \in Workers : pc'[v] = IF v = w THEN l ELSE pc[v]
  BY DEF TypeOK, WorkersTypeOK
<1>2. Holders(d)' \subseteq Holders(d)
  BY <1>1 DEF Holders, DocOf
<1>3. ASSUME pc[w] \in Owing, l \notin Owing, DocOf(w) = d
      PROVE  w \in Holders(d) /\ Holders(d)' = Holders(d) \ {w}
  BY <1>1, <1>3 DEF Holders, DocOf
<1>4. IsFiniteSet(Holders(d)') /\ Cardinality(Holders(d)') <= Cardinality(Holders(d))
  BY <1>2, FS_Subset
<1>5. ASSUME pc[w] \in Owing, l \notin Owing, DocOf(w) = d
      PROVE  Cardinality(Holders(d)') = Cardinality(Holders(d)) - 1
  <2>1. Cardinality(Holders(d) \ {w}) = Cardinality(Holders(d)) - 1
    BY <1>3, <1>5, FS_RemoveElement
  <2> QED BY <1>3, <1>5, <2>1
<1> QED BY <1>4, <1>5

\* What one step does to the account of one document.
Account(d) ==
  usage[d] + pend[d] + Cardinality(Tickets(d)) + Cardinality(Holders(d))

UsageStep(d) ==
  /\ IsFiniteSet(Tickets(d)')
  /\ IsFiniteSet(Holders(d)')
  /\ Account(d)' - requests'[d] <= Account(d) - requests[d]

LEMMA ApiUsage ==
  ASSUME TypeOK, NEW e \in Docs, Api(e), NEW d \in Docs,
         IsFiniteSet(Tickets(d)), IsFiniteSet(Holders(d))
  PROVE  UsageStep(d)
<1> DEFINE h == Cardinality(Holders(d))
           k == Cardinality(Tickets(d))
<1>0. /\ h \in Nat /\ k \in Nat
      /\ usage \in [Docs -> Nat] /\ pend \in [Docs -> Nat] /\ requests \in [Docs -> Nat]
      /\ queue \in [Messages -> Nat]
  BY FS_CardinalityType DEF TypeOK, DatabaseTypeOK, ApiTypeOK
<1>1. pc' = pc /\ msg' = msg /\ usage' = usage
  BY DEF Api, UploadSave, UploadCommit, UploadFail, Enqueue, Reingest, run, database,
     DeleteVectors, DeleteStep, DeleteFile, DeleteFlush, DeleteBump, DeleteCommit,
     DeleteFail
<1>2. Holders(d)' = Holders(d)
  BY <1>1 DEF Holders, DocOf
<1>3. CASE UploadCommit(e) \/ Reingest(e)
  <2>1. Tickets(d)' = Tickets(d)
    BY <1>3 DEF UploadCommit, Reingest, Tickets
  <2>2. pend'[d] - requests'[d] = pend[d] - requests[d]
    BY <1>0, <1>3 DEF UploadCommit, Reingest
  <2>3. pend'[d] \in Nat /\ requests'[d] \in Nat
    BY <1>0, <1>3 DEF UploadCommit, Reingest
  <2> QED BY <1>0, <1>1, <1>2, <2>1, <2>2, <2>3 DEF UsageStep, Account
<1>4. CASE Enqueue(e)
  <2> DEFINE m == [doc |-> e, tries |-> 0]
  <2>0. m \in Messages /\ m.doc = e
    BY IngestionAssumption DEF Messages
  <2>1. requests' = requests /\ pend'[d] = IF d = e THEN pend[d] - 1 ELSE pend[d]
    BY <1>0, <1>4 DEF Enqueue
  <2>2. queue' = WithMessage(queue, m) \/ queue' = queue
    BY <1>4 DEF Enqueue, Publish, WithMessage
  <2>3. /\ IsFiniteSet(Tickets(d)')
        /\ Cardinality(Tickets(d)') \in {k, k + (IF d = e THEN 1 ELSE 0)}
    <3>1. CASE queue' = queue
      BY <3>1 DEF Tickets
    <3>2. CASE queue' = WithMessage(queue, m)
      <4> HIDE DEF m
      <4>1. /\ IsFiniteSet(TicketsOf(queue', d))
            /\ Cardinality(TicketsOf(queue', d)) = k + (IF m.doc = d THEN 1 ELSE 0)
        BY <1>0, <2>0, <3>2, TicketCount DEF Tickets
      <4> QED BY <4>1, <2>0 DEF Tickets
    <3> QED BY <2>2, <3>1, <3>2
  <2> QED BY <1>0, <1>1, <1>2, <2>1, <2>3 DEF UsageStep, Account
<1>5. CASE UNCHANGED <<queue, pend, requests>>
  BY <1>0, <1>1, <1>2, <1>5 DEF UsageStep, Account, Tickets
<1> QED
  BY <1>3, <1>4, <1>5 DEF Api, UploadSave, UploadFail, DeleteVectors, DeleteStep,
     DeleteFile, DeleteFlush, DeleteBump, DeleteCommit, DeleteFail, api

LEMMA RunUsage ==
  ASSUME TypeOK, NEW w \in Workers, RunStep(w) \/ Kill(w), NEW d \in Docs,
         IsFiniteSet(Tickets(d)), IsFiniteSet(Holders(d))
  PROVE  UsageStep(d)
<1> DEFINE h == Cardinality(Holders(d))
           k == Cardinality(Tickets(d))
<1>0. /\ h \in Nat /\ k \in Nat
      /\ usage \in [Docs -> Nat] /\ pend \in [Docs -> Nat] /\ requests \in [Docs -> Nat]
      /\ queue \in [Messages -> Nat]
  BY FS_CardinalityType DEF TypeOK, DatabaseTypeOK, ApiTypeOK
<1>1. pend' = pend /\ requests' = requests
  BY DEF RunStep, Start, Prepare, ClearVectors, Upsert, PersistDelete,
     PersistCommit, Invalidate, Retry, MarkFailed, Ack, Kill, api
<1>2. DocOf(w) \in Docs /\ msg[w] \in Messages
  <2>1. pc[w] # "idle"
    BY RunActive DEF Kill
  <2> QED BY <2>1, WorkerMessage DEF TypeOK
<1>3. \A v \in Workers : v # w => msg'[v] = msg[v]
  BY DEF RunStep, Start, Prepare, ClearVectors, Upsert, PersistDelete, TypeOK, WorkersTypeOK,
     PersistCommit, Invalidate, Retry, MarkFailed, Ack, Kill, Release, run
<1>4. CASE PersistCommit(w) /\ Goto(w, "invalidate")
  <2>1. usage'[d] = IF DocOf(w) = d THEN usage[d] + 1 ELSE usage[d]
    BY <1>0, <1>2, <1>4 DEF PersistCommit, Goto, TypeOK, WorkersTypeOK
  <2>2. Tickets(d)' = Tickets(d)
    BY <1>4 DEF PersistCommit, Tickets
  <2>3. /\ IsFiniteSet(Holders(d)')
        /\ Cardinality(Holders(d)') <= h
        /\ DocOf(w) = d => Cardinality(Holders(d)') = h - 1
    <3>1. pc' = [pc EXCEPT ![w] = "invalidate"] /\ pc[w] \in Owing /\ "invalidate" \notin Owing
      BY <1>4 DEF PersistCommit, Goto, Owing
    <3> QED BY <1>3, <3>1, HoldersShrink
  <2>4. Cardinality(Holders(d)') \in Nat
    BY <2>3, FS_CardinalityType
  <2> QED BY <1>0, <1>1, <2>1, <2>2, <2>3, <2>4 DEF UsageStep, Account
<1>5. CASE Retry(w) /\ queue' # queue
  <2>1. Goto(w, "ack") /\ usage' = usage
    BY <1>5 DEF Retry, database
  <2>2. /\ IsFiniteSet(Holders(d)')
        /\ Cardinality(Holders(d)') <= h
        /\ DocOf(w) = d => Cardinality(Holders(d)') = h - 1
    <3>1. pc' = [pc EXCEPT ![w] = "ack"] /\ pc[w] \in Owing /\ "ack" \notin Owing
      BY <1>5, <2>1 DEF Retry, Goto, Owing
    <3> QED BY <1>3, <3>1, HoldersShrink
  <2>3. PICK m \in Messages : m.doc = DocOf(w) /\ queue' = WithMessage(queue, m)
    <3>1. msg[w].tries < MaxRetries /\ Publish([msg[w] EXCEPT !.tries = @ + 1])
      BY <1>5 DEF Retry
    <3>2. /\ [msg[w] EXCEPT !.tries = @ + 1] \in Messages
          /\ [msg[w] EXCEPT !.tries = @ + 1].doc = DocOf(w)
      BY <1>2, <3>1, NextAttempt DEF DocOf
    <3> QED BY <3>1, <3>2 DEF Publish, WithMessage
  <2>4. /\ IsFiniteSet(TicketsOf(queue', d))
        /\ Cardinality(TicketsOf(queue', d)) = k + (IF m.doc = d THEN 1 ELSE 0)
    BY <1>0, <2>3, TicketCount DEF Tickets
  <2>5. Cardinality(Holders(d)') \in Nat
    BY <2>2, FS_CardinalityType
  <2> QED BY <1>0, <1>1, <2>1, <2>2, <2>3, <2>4, <2>5 DEF UsageStep, Account, Tickets
<1>6. CASE UNCHANGED <<queue, usage>>
  <2>1. \E l : /\ pc' = [pc EXCEPT ![w] = l]
               /\ l \in Owing => pc[w] \in Owing /\ msg'[w] = msg[w]
    <3> USE DEF Goto, Owing, run
    <3>1. CASE Start(w) \/ Prepare(w) \/ PersistDelete(w)
      BY <3>1 DEF Start, Prepare, PersistDelete
    <3>2. CASE ClearVectors(w) \/ Upsert(w)
      BY <3>2 DEF ClearVectors, Upsert, Raise, Proceed
    <3>3. CASE PersistCommit(w) \/ Invalidate(w)
      BY <3>3 DEF PersistCommit, Invalidate
    <3>4. CASE Retry(w) \/ MarkFailed(w)
      BY <3>4 DEF Retry, MarkFailed
    <3>5. CASE Ack(w) \/ Kill(w)
      BY <3>5 DEF Ack, Kill, Release
    <3> QED BY <3>1, <3>2, <3>3, <3>4, <3>5 DEF RunStep
  <2>2. IsFiniteSet(Holders(d)') /\ Cardinality(Holders(d)') <= h
    BY <1>3, <2>1, HoldersShrink
  <2>3. Cardinality(Holders(d)') \in Nat
    BY <2>2, FS_CardinalityType
  <2>4. Tickets(d)' = Tickets(d)
    BY <1>6 DEF Tickets
  <2> QED BY <1>0, <1>1, <1>6, <2>2, <2>3, <2>4 DEF UsageStep, Account
<1> QED
  BY <1>4, <1>5, <1>6 DEF RunStep, Start, Prepare, ClearVectors, Upsert, PersistDelete,
     PersistCommit, Invalidate, Retry, MarkFailed, Ack, Kill, database

LEMMA TakeUsage ==
  ASSUME TypeOK, NEW w \in Workers, Take(w), NEW d \in Docs,
         IsFiniteSet(Tickets(d)), IsFiniteSet(Holders(d))
  PROVE  UsageStep(d)
<1> DEFINE h == Cardinality(Holders(d))
           k == Cardinality(Tickets(d))
<1>0. h \in Nat /\ k \in Nat /\ queue \in [Messages -> Nat] /\ usage[d] \in Nat
      /\ pend[d] \in Nat /\ requests[d] \in Nat
  BY FS_CardinalityType DEF TypeOK, DatabaseTypeOK, ApiTypeOK
<1>1. PICK m \in Messages :
        /\ queue[m] > 0
        /\ queue' = [queue EXCEPT ![m] = @ - 1]
        /\ msg' = [msg EXCEPT ![w] = m]
  BY DEF Take
<1>2. queue' \in [Messages -> Nat] /\ queue = WithMessage(queue', m)
  <2>1. queue' \in [Messages -> Nat] /\ queue[m] = queue'[m] + 1
    BY <1>0, <1>1
  <2>2. \A n \in Messages : queue[n] = WithMessage(queue', m)[n]
    BY <1>1, <2>1 DEF WithMessage
  <2>3. WithMessage(queue', m) = [n \in Messages |-> WithMessage(queue', m)[n]]
    BY <2>1 DEF WithMessage
  <2> QED BY <1>0, <2>1, <2>2, <2>3
<1>3. /\ IsFiniteSet(Tickets(d)')
      /\ k = Cardinality(Tickets(d)') + (IF m.doc = d THEN 1 ELSE 0)
  <2>1. /\ IsFiniteSet(TicketsOf(queue', d)) <=> IsFiniteSet(TicketsOf(queue, d))
        /\ IsFiniteSet(TicketsOf(queue', d)) =>
             Cardinality(TicketsOf(queue, d)) =
               Cardinality(TicketsOf(queue', d)) + (IF m.doc = d THEN 1 ELSE 0)
    BY <1>2, TicketCount
  <2> QED BY <2>1 DEF Tickets
<1>4. /\ m.doc = d => Holders(d)' = Holders(d) \union {w}
      /\ m.doc # d => Holders(d)' = Holders(d)
  <2>1. \A v \in Workers : /\ pc'[v] = IF v = w THEN "start" ELSE pc[v]
                           /\ msg'[v] = IF v = w THEN m ELSE msg[v]
    BY <1>1 DEF Take, Goto, TypeOK, WorkersTypeOK
  <2>2. pc[w] = "idle"
    BY DEF Take
  <2> QED BY <2>1, <2>2 DEF Holders, DocOf, Owing
<1>5. /\ IsFiniteSet(Holders(d)')
      /\ Cardinality(Holders(d)') <= h + (IF m.doc = d THEN 1 ELSE 0)
  <2>1. /\ IsFiniteSet(Holders(d) \union {w})
        /\ Cardinality(Holders(d) \union {w}) \in {h, h + 1}
    BY FS_AddElement
  <2>2. CASE m.doc = d
    <3>1. Holders(d)' = Holders(d) \union {w}
      BY <1>4, <2>2
    <3>2. IsFiniteSet(Holders(d)') /\ Cardinality(Holders(d)') \in {h, h + 1}
      BY <2>1, <3>1
    <3> HIDE DEF h
    <3> QED BY <1>0, <2>2, <3>2
  <2>3. CASE m.doc # d
    BY <1>0, <1>4, <2>3
  <2> QED BY <2>2, <2>3
<1>6. Cardinality(Holders(d)') \in Nat /\ Cardinality(Tickets(d)') \in Nat
  BY <1>3, <1>5, FS_CardinalityType
<1>7. usage' = usage /\ pend' = pend /\ requests' = requests
  BY DEF Take, database, api
<1> QED BY <1>0, <1>3, <1>5, <1>6, <1>7 DEF UsageStep, Account

LEMMA UsageInvStep ==
  ASSUME RunsDeliveredOnce
  PROVE  TypeOK /\ UsageInv /\ [Next]_vars => UsageInv'
<1> SUFFICES ASSUME TypeOK, UsageInv, [Next]_vars, TypeOK', NEW d \in Docs
             PROVE  /\ IsFiniteSet(Tickets(d)')
                    /\ IsFiniteSet(Holders(d)')
                    /\ Account(d)' <= requests'[d]
  BY TypeStep DEF UsageInv, Account
<1>0. IsFiniteSet(Tickets(d)) /\ IsFiniteSet(Holders(d)) /\ Account(d) <= requests[d]
  BY DEF UsageInv, Account
<1>1. UsageStep(d)
  <2>1. CASE UNCHANGED vars
    <3>1. /\ Tickets(d)' = Tickets(d) /\ Holders(d)' = Holders(d)
          /\ usage' = usage /\ pend' = pend /\ requests' = requests
      BY <2>1 DEF vars, database, api, run, Tickets, Holders, DocOf
    <3>2. Account(d)' = Account(d)
      BY <3>1 DEF Account
    <3>3. Account(d)' - requests'[d] <= Account(d) - requests[d]
      <4>1. Account(d) \in Nat /\ requests[d] \in Nat
        BY <1>0, FS_CardinalityType DEF Account, TypeOK, DatabaseTypeOK, ApiTypeOK
      <4> QED BY <3>1, <3>2, <4>1
    <3> QED BY <1>0, <3>1, <3>3 DEF UsageStep
  <2>2. ASSUME NEW w \in Workers, Crash(w) PROVE FALSE
    BY <2>2 DEF Crash, RunsDeliveredOnce
  <2> QED BY <1>0, <2>1, <2>2, ApiUsage, RunUsage, TakeUsage DEF Next
<1>2. Account(d) \in Nat /\ requests[d] \in Nat
  BY <1>0, FS_CardinalityType DEF Account, TypeOK, DatabaseTypeOK, ApiTypeOK
<1>3. Account(d)' \in Nat /\ requests'[d] \in Nat
  BY <1>1, FS_CardinalityType DEF UsageStep, Account, TypeOK, DatabaseTypeOK, ApiTypeOK
<1> QED BY <1>0, <1>1, <1>2, <1>3 DEF UsageStep

\* No request is counted twice in the ledger: retries, overlapping runs,
\* failing transactions and killed workers lose an event at most, as long as
\* the broker does not deliver a message again after its run committed.
THEOREM UsageCountedOnce ==
  ASSUME RunsDeliveredOnce
  PROVE  Spec => []UsageOncePerRequest
<1>1. Init => UsageInv
  <2> SUFFICES ASSUME Init, NEW d \in Docs
               PROVE  Tickets(d) = {} /\ Holders(d) = {} /\ usage[d] = 0 /\ pend[d] = 0
                      /\ requests[d] = 0
    BY FS_EmptySet DEF UsageInv
  <2>1. \A t \in 0..MaxRetries : 1..queue[Attempt(d, t)] = {}
    BY DEF Init, Attempt, Messages
  <2>2. Tickets(d) = {}
    <3>1. \A x : x \notin Tickets(d)
      BY <2>1, TicketIs DEF Tickets
    <3> QED BY <3>1
  <2> QED BY <2>2 DEF Init, Holders, Owing
<1>2. TypeOK /\ UsageInv => UsageOncePerRequest
  <2> SUFFICES ASSUME TypeOK, UsageInv, NEW d \in Docs PROVE usage[d] <= requests[d]
    BY DEF UsageOncePerRequest
  <2>1. Cardinality(Tickets(d)) \in Nat /\ Cardinality(Holders(d)) \in Nat
    BY FS_CardinalityType DEF UsageInv
  <2> QED BY <2>1 DEF UsageInv, TypeOK, DatabaseTypeOK, ApiTypeOK
<1> QED BY <1>1, <1>2, UsageInvStep, TypeCorrect, PTL DEF Spec

-----------------------------------------------------------------------------
(* The record of a failed attempt.                                         *)

\* Where a run has a job of its own and may still complete it.
Recorded == {"prepare"} \union Indexing

\* A run that may complete the newest job of its document started it, or was
\* asked for since: the newest job is no failed attempt.
AttemptInv ==
  \A w \in Workers : pc[w] \in Recorded /\ jobs[DocOf(w)] # << >> =>
    jobs[DocOf(w)][Len(jobs[DocOf(w)])] # "failed"

WithLatest(s, status) == IF s = << >> THEN s ELSE [s EXCEPT ![Len(s)] = status]

\* Everything a step can do to the jobs of one document.
JobsStep(d) ==
  \/ jobs'[d] = jobs[d]
  \/ \E status \in {"pending", "running"} : jobs'[d] = Append(jobs[d], status)
  \/ jobs'[d] = << >> /\ doc'[d] = "gone"
  \/ \E w \in Workers : /\ pc[w] = "commit" /\ DocOf(w) = d
                        /\ jobs'[d] = WithLatest(jobs[d], "completed")
  \/ \E w \in Workers : /\ pc[w] \in {"marking", "on_failure"} /\ DocOf(w) = d
                        /\ jobs'[d] = WithLatest(jobs[d], "failed")

LEMMA StepOfJobs ==
  ASSUME TypeOK, [Next]_vars, NEW d \in Docs
  PROVE  JobsStep(d)
<1> USE DEF TypeOK, DatabaseTypeOK, database
<1>1. ASSUME NEW e \in Docs, Api(e) PROVE JobsStep(d)
  <2>1. CASE UploadCommit(e) \/ Reingest(e)
    BY <2>1 DEF UploadCommit, Reingest, AddJob, JobsStep
  <2>2. CASE DeleteCommit(e)
    BY <2>2 DEF DeleteCommit, JobsStep
  <2>3. CASE jobs' = jobs
    BY <2>3 DEF JobsStep
  <2> QED
    BY <1>1, <2>1, <2>2, <2>3 DEF Api, UploadSave, UploadFail, Enqueue, DeleteVectors,
       DeleteStep, DeleteFile, DeleteFlush, DeleteBump, DeleteFail
<1>2. ASSUME NEW w \in Workers, RunStep(w) PROVE JobsStep(d)
  <2>0. DocOf(w) \in Docs
    BY <1>2, RunActive, WorkerMessage
  <2>1. CASE Start(w)
    BY <2>0, <2>1 DEF Start, AddJob, JobsStep
  <2>2. CASE PersistCommit(w) /\ jobs' # jobs
    <3>1. pc[w] = "commit" /\ SetLatestJob(DocOf(w), "completed")
      BY <2>2 DEF PersistCommit
    <3> QED BY <2>0, <3>1 DEF SetLatestJob, WithLatest, JobsStep
  <2>3. CASE MarkFailed(w) /\ jobs' # jobs
    <3>1. pc[w] \in {"marking", "on_failure"} /\ SetLatestJob(DocOf(w), "failed")
      BY <2>3 DEF MarkFailed
    <3> QED BY <2>0, <3>1 DEF SetLatestJob, WithLatest, JobsStep
  <2>4. CASE jobs' = jobs
    BY <2>4 DEF JobsStep
  <2> QED
    BY <1>2, <2>1, <2>2, <2>3, <2>4 DEF RunStep, Prepare, ClearVectors, Upsert,
       PersistDelete, Invalidate, Retry, Ack
<1>3. ASSUME NEW w \in Workers, Take(w) \/ Crash(w) \/ Kill(w) PROVE JobsStep(d)
  BY <1>3 DEF Take, Crash, Kill, JobsStep
<1>4. CASE UNCHANGED vars
  BY <1>4 DEF vars, JobsStep
<1> QED BY <1>1, <1>2, <1>3, <1>4 DEF Next

\* A run comes to have a job of its own by Start alone, which adds it.
LEMMA StepToRecorded ==
  ASSUME TypeOK, [Next]_vars, NEW w \in Workers, pc'[w] \in Recorded
  PROVE  /\ msg'[w] = msg[w] /\ pc[w] # "idle"
         /\ \/ pc[w] \in Recorded
            \/ jobs'[DocOf(w)] = Append(jobs[DocOf(w)], "running")
<1> USE DEF TypeOK, WorkersTypeOK, run, Goto, Recorded, Indexing
<1>1. ASSUME NEW e \in Docs, Api(e) PROVE pc[w] \in Recorded /\ msg'[w] = msg[w]
  BY <1>1 DEF Api, UploadSave, UploadCommit, UploadFail, Enqueue, Reingest,
     DeleteVectors, DeleteStep, DeleteFile, DeleteFlush, DeleteBump, DeleteCommit,
     DeleteFail
<1>2. ASSUME NEW v \in Workers, RunStep(v), v # w
      PROVE  pc[w] \in Recorded /\ msg'[w] = msg[w]
  BY <1>2 DEF RunStep, Start, Prepare, ClearVectors, Upsert, PersistDelete,
     PersistCommit, Invalidate, Retry, MarkFailed, Ack, Release, Raise, Proceed
<1>3. CASE RunStep(w)
  <2>1. CASE Start(w)
    <3>1. DocOf(w) \in Docs
      BY <1>3, RunActive, WorkerMessage
    <3> QED BY <2>1, <3>1 DEF Start, AddJob, DatabaseTypeOK
  <2>2. CASE Prepare(w) \/ ClearVectors(w) \/ Upsert(w) \/ PersistDelete(w)
    BY <2>2 DEF Prepare, ClearVectors, Upsert, PersistDelete
  <2>3. CASE PersistCommit(w) \/ Invalidate(w) \/ Retry(w) \/ MarkFailed(w) \/ Ack(w)
    BY <2>3 DEF PersistCommit, Invalidate, Retry, MarkFailed, Ack, Release
  <2> QED BY <1>3, <2>1, <2>2, <2>3 DEF RunStep
<1>4. ASSUME NEW v \in Workers, Take(v) \/ Crash(v) \/ Kill(v)
      PROVE  pc[w] \in Recorded /\ msg'[w] = msg[w]
  BY <1>4 DEF Take, Crash, Kill, Release
<1>5. CASE UNCHANGED vars
  BY <1>5 DEF vars
<1>6. pc[w] \in Recorded => pc[w] # "idle"
  OBVIOUS
<1> QED BY <1>1, <1>2, <1>3, <1>4, <1>5, <1>6 DEF Next

LEMMA AttemptStep ==
  TypeOK /\ RunsAlone /\ AttemptInv /\ [Next]_vars => AttemptInv'
<1> SUFFICES ASSUME TypeOK, RunsAlone, AttemptInv, [Next]_vars,
                    NEW w \in Workers, pc'[w] \in Recorded, jobs'[DocOf(w)'] # << >>
             PROVE  jobs'[DocOf(w)'][Len(jobs'[DocOf(w)'])] # "failed"
  BY DEF AttemptInv
<1> DEFINE d == DocOf(w)
<1>1. /\ DocOf(w)' = d /\ pc[w] # "idle"
      /\ pc[w] \in Recorded \/ jobs'[d] = Append(jobs[d], "running")
  BY StepToRecorded DEF DocOf
<1>2. d \in Docs /\ jobs[d] \in Seq(JobStatus)
  BY <1>1, WorkerMessage DEF TypeOK, DatabaseTypeOK
<1>3. pc[w] \in Recorded /\ jobs[d] # << >> => jobs[d][Len(jobs[d])] # "failed"
  BY DEF AttemptInv
<1> HIDE DEF d
<1>4. ASSUME NEW status \in {"pending", "running"}, jobs'[d] = Append(jobs[d], status)
      PROVE  jobs'[d][Len(jobs'[d])] # "failed"
  BY <1>2, <1>4
<1>5. CASE pc[w] \in Recorded
  <2>1. CASE jobs'[d] = jobs[d]
    BY <1>1, <1>3, <1>5, <2>1
  <2>2. CASE jobs'[d] = WithLatest(jobs[d], "completed")
    BY <1>1, <1>2, <2>2 DEF WithLatest
  <2>3. ASSUME NEW v \in Workers, pc[v] \in {"marking", "on_failure"}, DocOf(v) = d
        PROVE  FALSE
    <3>1. v # w
      BY <1>5, <2>3 DEF Recorded, Indexing
    <3> QED BY <1>1, <2>3, <3>1 DEF RunsAlone, d
  <2> QED BY <1>1, <1>2, <1>4, <2>1, <2>2, <2>3, StepOfJobs DEF JobsStep
<1> QED BY <1>1, <1>4, <1>5

LEMMA FailedAttemptStep ==
  ASSUME TypeOK, AttemptInv, [Next]_vars
  PROVE  \A d \in Docs : \A i \in DOMAIN jobs[d] :
           jobs[d][i] = "failed" /\ doc'[d] # "gone" =>
             i \in DOMAIN jobs'[d] /\ jobs'[d][i] = "failed"
<1> SUFFICES ASSUME NEW d \in Docs, NEW i \in DOMAIN jobs[d],
                    jobs[d][i] = "failed", doc'[d] # "gone"
             PROVE  i \in DOMAIN jobs'[d] /\ jobs'[d][i] = "failed"
  OBVIOUS
<1>1. jobs[d] \in Seq(JobStatus) /\ jobs[d] # << >>
  BY DEF TypeOK, DatabaseTypeOK
<1>2. ASSUME NEW status, jobs'[d] = Append(jobs[d], status)
      PROVE  i \in DOMAIN jobs'[d] /\ jobs'[d][i] = "failed"
  BY <1>1, <1>2
<1>3. ASSUME jobs'[d] = WithLatest(jobs[d], "failed")
      PROVE  i \in DOMAIN jobs'[d] /\ jobs'[d][i] = "failed"
  BY <1>1, <1>3 DEF WithLatest
<1>4. ASSUME NEW w \in Workers, pc[w] = "commit", DocOf(w) = d,
             jobs'[d] = WithLatest(jobs[d], "completed")
      PROVE  i \in DOMAIN jobs'[d] /\ jobs'[d][i] = "failed"
  <2>1. i # Len(jobs[d])
    BY <1>1, <1>4 DEF AttemptInv, Recorded, Indexing
  <2> QED BY <1>1, <1>4, <2>1 DEF WithLatest
<1> QED BY <1>2, <1>3, <1>4, StepOfJobs DEF JobsStep

\* When the runs of one document do not overlap, no run turns an attempt that
\* was recorded as failed into a completed one, although it looks up its job
\* as the newest of the document.
THEOREM FailedAttemptsStayFailed == SerialSpec => FailedAttemptsStay
<1>1. Init => AttemptInv
  BY DEF Init, AttemptInv, Recorded, Indexing
<1>2. SerialRows /\ AttemptInv /\ [SerialNext]_vars => AttemptInv'
  <2> SUFFICES ASSUME SerialRows, AttemptInv, [SerialNext]_vars PROVE AttemptInv'
    OBVIOUS
  <2>1. [Next]_vars
    BY StaysAlone DEF SerialRows
  <2> QED BY <2>1, AttemptStep DEF SerialRows
<1>3. SerialRows /\ AttemptInv /\ [SerialNext]_vars =>
        [\A d \in Docs : \A i \in DOMAIN jobs[d] :
           jobs[d][i] = "failed" /\ doc'[d] # "gone" =>
             i \in DOMAIN jobs'[d] /\ jobs'[d][i] = "failed"]_vars
  <2> SUFFICES ASSUME SerialRows, AttemptInv, [SerialNext]_vars
               PROVE  \A d \in Docs : \A i \in DOMAIN jobs[d] :
                        jobs[d][i] = "failed" /\ doc'[d] # "gone" =>
                          i \in DOMAIN jobs'[d] /\ jobs'[d][i] = "failed"
    OBVIOUS
  <2>1. [Next]_vars
    BY StaysAlone DEF SerialRows
  <2> QED BY <2>1, FailedAttemptStep DEF SerialRows
<1> QED
  BY <1>1, <1>2, <1>3, SerialRowsInvariant, PTL DEF SerialSpec, FailedAttemptsStay

=============================================================================
