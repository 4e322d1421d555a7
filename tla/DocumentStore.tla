---------------------------- MODULE DocumentStore ----------------------------
(***************************************************************************)
(* The documents of one tenant, where they are kept and who writes them:   *)
(*                                                                         *)
(*   docs, versions, jobs   three tables of Postgres, READ COMMITTED       *)
(*   blobs                  the storage provider, not transactional        *)
(*   index                  the Qdrant collection, not transactional       *)
(*                                                                         *)
(* A session is one request of the API (upload, new version, delete,       *)
(* patch) or one ingestion run of the worker.  It is one transaction: it   *)
(* reads committed rows, works on an entity in memory, and writes it back  *)
(* with the repository's update() (see Columns) or add_version().  A       *)
(* document, a version and a time bear the name of the session that makes  *)
(* them.                                                                   *)
(*                                                                         *)
(* How a job reaches the worker is the subject of JobPipeline; here a job  *)
(* is what JobPipeline promises of it, an entry of JobLedger.              *)
(***************************************************************************)
EXTENDS Naturals, FiniteSets, Columns

CONSTANTS
  Session,     \* requests and ingestion runs
  Content,     \* file contents, told apart by their checksum
  MaxChunks,   \* bound: chunks of a content
  Chunks,      \* Chunks[c]: how many chunks the content splits into
  MaxRetries,  \* settings.processing.max_retries
  MaxOpen,     \* bound: sessions open at the same time
  NoDoc,       \* no such document row
  NoVersion,   \* no such version row, or no point in the index
  NoJob        \* no such job row

ASSUME ChunksAssumption == MaxChunks \in Nat /\ Chunks \in [Content -> 0 .. MaxChunks]
ASSUME BoundsAssumption == MaxRetries \in Nat /\ MaxOpen \in Nat

VARIABLES
  docs,      \* docs[d]: the committed row of document d
  versions,  \* versions[v]: the committed row of version v
  jobs,      \* jobs[d]: the committed ingestion job of d
  blobs,     \* versions whose bytes are stored
  index,     \* index[d][i]: the version whose text is in chunk i of d
  op,        \* op[s]: what session s does
  pc,        \* pc[s]: how far it has come
  doc,       \* doc[s]: its document
  draft,     \* draft[s]: the version it is about to insert
  entity,    \* entity[s]: the KnowledgeDocument in its memory
  base,      \* base[s]: the row its update has just read
  txn        \* txn[s]: the row its transaction has written

tables == <<docs, versions, jobs>>
stores == <<blobs, index>>
memory == <<draft, entity, base, txn>>
vars   == <<docs, versions, jobs, blobs, index, op, pc, doc, draft, entity, base, txn>>

Operations == {"none", "upload", "add_version", "delete", "patch", "process"}

(* begun: the document has been read; stored: its blob or its chunks are   *)
(* written; read: the update has read the row; flushed: it has written it. *)
Stages == {"new", "begun", "stored", "read", "flushed", "done"}

DocRow ==
  [ status             : {"uploaded", "processed", "deleted"},
    title              : Session,
    current_version_id : Session,
    deleted_at         : Session \cup {None} ]

VersionRow ==
  [ document_id : Session, version_number : 1 .. Cardinality(Session), checksum : Content ]

JobRow == [ status : {"queued", "completed", "failed"}, retry_count : 0 .. MaxRetries ]

ChunkIds == 1 .. MaxChunks

ASSUME SessionsAssumption == IsFiniteSet(Session) /\ None \notin Session
ASSUME AbsenceAssumption ==
  /\ NoDoc \notin DocRow
  /\ NoVersion \notin VersionRow \cup Session
  /\ NoJob \notin JobRow

StoreTypeOK ==
  /\ docs     \in [Session -> DocRow \cup {NoDoc}]
  /\ versions \in [Session -> VersionRow \cup {NoVersion}]
  /\ jobs     \in [Session -> JobRow \cup {NoJob}]
  /\ blobs    \subseteq Session
  /\ index    \in [Session -> [ChunkIds -> Session \cup {NoVersion}]]
  /\ op       \in [Session -> Operations]
  /\ pc       \in [Session -> Stages]
  /\ doc      \in [Session -> Session]
  /\ draft    \in [Session -> VersionRow \cup {NoVersion}]
  /\ entity   \in [Session -> DocRow \cup {NoDoc}]
  /\ base     \in [Session -> DocRow \cup {NoDoc}]
  /\ txn      \in [Session -> DocRow \cup {NoDoc}]

StoreInit ==
  /\ docs     = [s \in Session |-> NoDoc]
  /\ versions = [s \in Session |-> NoVersion]
  /\ jobs     = [s \in Session |-> NoJob]
  /\ blobs    = {}
  /\ index    = [s \in Session |-> [i \in ChunkIds |-> NoVersion]]
  /\ op       = [s \in Session |-> "none"]
  /\ pc       = [s \in Session |-> "new"]
  /\ doc      = [s \in Session |-> s]
  /\ draft    = [s \in Session |-> NoVersion]
  /\ entity   = [s \in Session |-> NoDoc]
  /\ base     = [s \in Session |-> NoDoc]
  /\ txn      = [s \in Session |-> NoDoc]

-----------------------------------------------------------------------------
(* Reads: a SELECT sees committed rows. *)

\* mutant: deleted documents are found too
AnyDoc(d) == docs[d] # NoDoc

(* repository.get filters out deleted documents. *)
LiveDoc(d) == docs[d] # NoDoc /\ docs[d].deleted_at = None

VersionsOf(d) == {v \in Session : versions[v] # NoVersion /\ versions[v].document_id = d}

NumbersOf(d) == {versions[v].version_number : v \in VersionsOf(d)}

\* mutant: only the active versions are compared
CurrentHasContent(c) ==
  \E d \in Session :
    LiveDoc(d) /\ versions[docs[d].current_version_id].checksum = c

(* repository.get_by_checksum: a live document any of whose versions has   *)
(* the content.                                                            *)
HasContent(c) ==
  \E d \in Session : LiveDoc(d) /\ \E v \in VersionsOf(d) : versions[v].checksum = c

Open(s) == pc[s] \notin {"new", "done"}

-----------------------------------------------------------------------------
(* Sessions *)

At(s, o, stage) == op[s] = o /\ pc[s] = stage

Goto(s, stage) == pc' = [pc EXCEPT ![s] = stage]

Remember(s, e) == entity' = [entity EXCEPT ![s] = e]

Begin(s, o, d) ==
  /\ pc[s] = "new"
  /\ Cardinality({t \in Session : Open(t)}) < MaxOpen
  /\ op'  = [op EXCEPT ![s] = o]
  /\ doc' = [doc EXCEPT ![s] = d]
  /\ Goto(s, "begun")
  /\ UNCHANGED <<tables, stores>>

(* A session that ends forgets what it held. *)
Finish(s) ==
  /\ Goto(s, "done")
  /\ op'     = [op EXCEPT ![s] = "none"]
  /\ doc'    = [doc EXCEPT ![s] = s]
  /\ draft'  = [draft EXCEPT ![s] = NoVersion]
  /\ entity' = [entity EXCEPT ![s] = NoDoc]
  /\ base'   = [base EXCEPT ![s] = NoDoc]
  /\ txn'    = [txn EXCEPT ![s] = NoDoc]

(* Any exception, or the loss of the process: the session rolls back.  The *)
(* blob and the chunks it has written stay.                                *)
Abort(s) ==
  /\ Open(s)
  /\ Finish(s)
  /\ UNCHANGED <<tables, stores>>

(* update() and add_version() read the row again with session.get, by its  *)
(* id alone: a deleted document is found here.                             *)
ReadAgain(s) ==
  /\ \/ op[s] \in {"delete", "patch"} /\ pc[s] = "begun"
     \/ op[s] \in {"add_version", "process"} /\ pc[s] = "stored"
  /\ base' = [base EXCEPT ![s] = docs[doc[s]]]
  /\ Goto(s, "read")
  /\ UNCHANGED <<tables, stores, op, doc, draft, entity, txn>>

(* The row that the flush of an UPDATE leaves. *)
MergedDoc(r, e, cur) ==
  [ status             |-> Column(r.status, e.status, cur.status),
    title              |-> Column(r.title, e.title, cur.title),
    current_version_id |-> Column(r.current_version_id, e.current_version_id,
                                  cur.current_version_id),
    deleted_at         |-> Column(r.deleted_at, e.deleted_at, cur.deleted_at) ]

(* add_version() assigns two attributes, update() all of them. *)
Assigned(s) ==
  IF op[s] = "add_version"
  THEN [base[s] EXCEPT !.status = entity[s].status,
                       !.current_version_id = entity[s].current_version_id]
  ELSE entity[s]

(* The UPDATE waits for the row's lock and holds it until its session      *)
(* ends.  Every operation changes a column, so each one takes the lock.    *)
RowIsFree(d) == \A t \in Session : ~(pc[t] = "flushed" /\ doc[t] = d)

\* mutant: two versions of a document may bear the same number
NumberUnchecked(s) == op[s] = "add_version" => draft[s] # NoVersion

(* Unique index ix_versions_document_number.  The INSERT is flushed after  *)
(* the UPDATE of the document, so under the document's lock.  A number     *)
(* already taken raises IntegrityError: the session aborts.                *)
NumberFree(s) ==
  op[s] = "add_version" => draft[s].version_number \notin NumbersOf(doc[s])

\* mutant: the UPDATE of the document commits at once
WriteCommitting(s) ==
  /\ pc[s] = "read"
  /\ RowIsFree(doc[s])
  /\ NumberFree(s)
  /\ txn'  = [txn EXCEPT ![s] = MergedDoc(base[s], Assigned(s), docs[doc[s]])]
  /\ docs' = [docs EXCEPT ![doc[s]] = MergedDoc(base[s], Assigned(s), docs[doc[s]])]
  /\ Goto(s, "flushed")
  /\ UNCHANGED <<versions, jobs, stores, op, doc, draft, entity, base>>

Write(s) ==
  /\ pc[s] = "read"
  /\ RowIsFree(doc[s])
  /\ NumberFree(s)
  /\ txn' = [txn EXCEPT ![s] = MergedDoc(base[s], Assigned(s), docs[doc[s]])]
  /\ Goto(s, "flushed")
  /\ UNCHANGED <<tables, stores, op, doc, draft, entity, base>>

-----------------------------------------------------------------------------
(* UploadDocumentUseCase *)

(* A duplicate is refused with ConflictError, which leaves nothing behind. *)
BeginUpload(s, c) ==
  /\ ~HasContent(c)
  /\ Begin(s, "upload", s)
  /\ draft' = [draft EXCEPT ![s] =
                 [document_id |-> s, version_number |-> 1, checksum |-> c]]
  /\ UNCHANGED <<entity, base, txn>>

\* mutant: the bytes are left for later
SaveNothing(s) ==
  /\ At(s, "upload", "begun")
  /\ Goto(s, "stored")
  /\ UNCHANGED <<tables, stores, op, doc, memory>>

(* storage.save, before anything is inserted. *)
SaveUpload(s) ==
  /\ At(s, "upload", "begun")
  /\ blobs' = blobs \cup {s}
  /\ Goto(s, "stored")
  /\ UNCHANGED <<tables, index, op, doc, memory>>

NewDoc(s) ==
  [ status |-> "uploaded", title |-> s, current_version_id |-> s, deleted_at |-> None ]

(* documents.add, create_job and the commit: document, version and job     *)
(* appear together.                                                        *)
CommitUpload(s) ==
  /\ At(s, "upload", "stored")
  /\ docs'     = [docs EXCEPT ![s] = NewDoc(s)]
  /\ versions' = [versions EXCEPT ![s] = draft[s]]
  /\ jobs'     = [jobs EXCEPT ![s] = [status |-> "queued", retry_count |-> 0]]
  /\ Finish(s)
  /\ UNCHANGED stores

-----------------------------------------------------------------------------
(* AddDocumentVersionUseCase *)

BeginAddVersion(s, d, c) ==
  /\ LiveDoc(d)
  /\ Begin(s, "add_version", d)
  /\ Remember(s, docs[d])
  /\ draft' = [draft EXCEPT ![s] =
                 [document_id |-> d, version_number |-> 1, checksum |-> c]]
  /\ UNCHANGED <<base, txn>>

\* mutant: the new version is not made the active one
SaveVersionOnly(s) ==
  /\ At(s, "add_version", "begun")
  /\ \E n \in NumbersOf(doc[s]) :
       /\ \A m \in NumbersOf(doc[s]) : m <= n
       /\ draft' = [draft EXCEPT ![s].version_number = n + 1]
  /\ blobs' = blobs \cup {s}
  /\ Goto(s, "stored")
  /\ UNCHANGED <<tables, index, op, doc, entity, base, txn>>

(* list_versions gives the next number; the bytes are saved; the entity    *)
(* points at the new version.                                              *)
SaveVersion(s) ==
  /\ At(s, "add_version", "begun")
  /\ \E n \in NumbersOf(doc[s]) :
       /\ \A m \in NumbersOf(doc[s]) : m <= n
       /\ draft' = [draft EXCEPT ![s].version_number = n + 1]
  /\ blobs' = blobs \cup {s}
  /\ Remember(s, [entity[s] EXCEPT !.current_version_id = s])
  /\ Goto(s, "stored")
  /\ UNCHANGED <<tables, index, op, doc, base, txn>>

CommitAddVersion(s) ==
  /\ At(s, "add_version", "flushed")
  /\ docs'     = [docs EXCEPT ![doc[s]] = txn[s]]
  /\ versions' = [versions EXCEPT ![s] = draft[s]]
  /\ Finish(s)
  /\ UNCHANGED <<jobs, stores>>

-----------------------------------------------------------------------------
(* DeleteDocumentUseCase and UpdateDocumentMetadataUseCase *)

\* mutant: the status alone is set
BeginDeleteByStatus(s, d) ==
  /\ LiveDoc(d)
  /\ Begin(s, "delete", d)
  /\ Remember(s, [docs[d] EXCEPT !.status = "deleted"])
  /\ UNCHANGED <<draft, base, txn>>

BeginDelete(s, d) ==
  /\ LiveDoc(d)
  /\ Begin(s, "delete", d)
  /\ Remember(s, [docs[d] EXCEPT !.status = "deleted", !.deleted_at = s])
  /\ UNCHANGED <<draft, base, txn>>

BeginPatch(s, d) ==
  /\ LiveDoc(d)
  /\ Begin(s, "patch", d)
  /\ Remember(s, [docs[d] EXCEPT !.title = s])
  /\ UNCHANGED <<draft, base, txn>>

CommitUpdate(s) ==
  /\ op[s] \in {"delete", "patch"} /\ pc[s] = "flushed"
  /\ docs' = [docs EXCEPT ![doc[s]] = txn[s]]
  /\ Finish(s)
  /\ UNCHANGED <<versions, jobs, stores>>

-----------------------------------------------------------------------------
(* ProcessDocumentUseCase, run by the one worker for a queued job *)

(* The document of the job may be gone: get finds nothing. *)
BeginProcess(s, d) ==
  /\ jobs[d] # NoJob
  /\ jobs[d].status = "queued"
  /\ \A t \in Session : op[t] # "process"
  /\ Begin(s, "process", d)
  /\ Remember(s, IF LiveDoc(d) THEN docs[d] ELSE NoDoc)
  /\ UNCHANGED <<draft, base, txn>>

\* mutant: the last chunk is left out
UpsertButLast(d, v) ==
  index' = [index EXCEPT ![d] =
              [i \in ChunkIds |-> IF i < Chunks[versions[v].checksum] THEN v ELSE @[i]]]

(* upsert: chunk i of the document becomes that of version v; the chunks   *)
(* beyond the version's last stay as they are.                             *)
Upsert(d, v) ==
  index' = [index EXCEPT ![d] =
              [i \in ChunkIds |-> IF i <= Chunks[versions[v].checksum] THEN v ELSE @[i]]]

\* mutant: the status is left as it was
IndexKeepingStatus(s) ==
  /\ At(s, "process", "begun")
  /\ entity[s] # NoDoc
  /\ entity[s].current_version_id \in blobs
  /\ Upsert(doc[s], entity[s].current_version_id)
  /\ Goto(s, "stored")
  /\ UNCHANGED <<tables, blobs, op, doc, memory>>

(* load, parse, split, embed, upsert; then the entity is PROCESSED. *)
IndexVersion(s) ==
  /\ At(s, "process", "begun")
  /\ entity[s] # NoDoc
  /\ entity[s].current_version_id \in blobs
  /\ Upsert(doc[s], entity[s].current_version_id)
  /\ Remember(s, [entity[s] EXCEPT !.status = "processed"])
  /\ Goto(s, "stored")
  /\ UNCHANGED <<tables, blobs, op, doc, draft, base, txn>>

\* mutant: the first failure is final
GiveUpAtOnce(r) == [r EXCEPT !.status = "failed"]

\* mutant: one retry more than the budget
CountOneMore(r) ==
  IF r.retry_count <= MaxRetries THEN [r EXCEPT !.retry_count = @ + 1]
  ELSE [r EXCEPT !.status = "failed"]

(* The retry policy of WorkerExecutor. *)
CountFailure(r) ==
  IF r.retry_count < MaxRetries THEN [r EXCEPT !.retry_count = @ + 1]
  ELSE [r EXCEPT !.status = "failed"]

(* EntityNotFoundError, or the parser, the model or Qdrant raises, the     *)
(* latter perhaps after it has taken the points: the executor records the  *)
(* failure and the session commits.                                        *)
FailProcess(s) ==
  /\ op[s] = "process" /\ pc[s] \in {"begun", "stored"}
  /\ jobs' = [jobs EXCEPT ![doc[s]] = CountFailure(jobs[doc[s]])]
  /\ Finish(s)
  /\ UNCHANGED <<docs, versions, stores>>

(* The document and the completed job are committed together. *)
CommitProcess(s) ==
  /\ At(s, "process", "flushed")
  /\ docs' = [docs EXCEPT ![doc[s]] = txn[s]]
  /\ jobs' = [jobs EXCEPT ![doc[s]].status = "completed"]
  /\ Finish(s)
  /\ UNCHANGED <<versions, stores>>

-----------------------------------------------------------------------------
(* Specification *)

UploadStep(s) ==
  \/ \E c \in Content : BeginUpload(s, c)
  \/ SaveUpload(s)
  \/ CommitUpload(s)

AddVersionStep(s) ==
  \/ \E d \in Session, c \in Content : BeginAddVersion(s, d, c)
  \/ SaveVersion(s)
  \/ CommitAddVersion(s)

UpdateStep(s) ==
  \/ \E d \in Session : BeginDelete(s, d)
  \/ \E d \in Session : BeginPatch(s, d)
  \/ CommitUpdate(s)

ProcessStep(s) ==
  \/ \E d \in Session : BeginProcess(s, d)
  \/ IndexVersion(s)
  \/ FailProcess(s)
  \/ CommitProcess(s)

StoreNext ==
  \E s \in Session :
    \/ UploadStep(s)
    \/ AddVersionStep(s)
    \/ UpdateStep(s)
    \/ ProcessStep(s)
    \/ ReadAgain(s)
    \/ Write(s)
    \/ Abort(s)

StoreSpec == StoreInit /\ [][StoreNext]_vars

-----------------------------------------------------------------------------
(* Properties that hold however the sessions overlap *)

(* The bytes of every committed version are in the store, whichever step   *)
(* fails: a blob may be left without a version, never the reverse.         *)
BlobBehindVersion == {v \in Session : versions[v] # NoVersion} \subseteq blobs

(* The active version of a document is one of its committed versions, also *)
(* when an update written from an older read has moved it back.            *)
CurrentIsAVersion ==
  \A d \in Session : docs[d] # NoDoc => docs[d].current_version_id \in VersionsOf(d)

(* The versions of a document are numbered 1, 2, ... without a gap or a    *)
(* repetition, although two requests may choose the same number.           *)
NumbersContiguous ==
  \A d \in Session : NumbersOf(d) = 1 .. Cardinality(VersionsOf(d))

(* All chunks of a version are in the index, none of them replaced. *)
Indexed(d, v) == \A i \in 1 .. Chunks[versions[v].checksum] : index[d][i] = v

(* Whoever sees a document PROCESSED finds its job completed and every     *)
(* chunk of one of its versions in the index, whatever was retried, lost   *)
(* or written meanwhile.                                                   *)
ProcessedIsIndexed ==
  \A d \in Session :
    docs[d] # NoDoc /\ docs[d].status = "processed" =>
      /\ jobs[d].status = "completed"
      /\ \E v \in VersionsOf(d) : Indexed(d, v)

(* The jobs of ingestion runs that overlap with every other request keep   *)
(* what JobPipeline promises of them.                                      *)
Ledger ==
  INSTANCE JobLedger WITH
    Job <- Session, Retryable <- Session, Absent <- NoJob, ledger <- jobs

JobsFollowLedger == Ledger!LedgerSpec

-----------------------------------------------------------------------------
(* Properties of sessions that come one after the other *)

(* deleted_at and the status DELETED are set together and stay together. *)
DeletionConsistent ==
  \A d \in Session : docs[d] # NoDoc =>
    (docs[d].status = "deleted" <=> docs[d].deleted_at # None)

(* A deleted document takes no version, title or status any more, nor does *)
(* a retry of its job index it again.                                      *)
DeletedIsFrozen ==
  [][\A d \in Session :
       docs[d] # NoDoc /\ docs[d].deleted_at # None =>
         /\ docs'[d] = docs[d]
         /\ VersionsOf(d)' = VersionsOf(d)
         /\ index'[d] = index[d]]_vars

(* No two live documents were uploaded with the same content               *)
(* (upload_document.py:63-67).                                             *)
FirstVersion(d, v) == v \in VersionsOf(d) /\ versions[v].version_number = 1

UploadsDiffer ==
  \A d, e \in Session :
    d # e /\ LiveDoc(d) /\ LiveDoc(e) =>
      \A v, w \in Session : FirstVersion(d, v) /\ FirstVersion(e, w) =>
        versions[v].checksum # versions[w].checksum

(* "The new version becomes the active one" (add_document_version.py:4)    *)
(* and stays so until the next: the active version has the highest number. *)
CurrentIsLatest ==
  \A d \in Session : docs[d] # NoDoc =>
    \A v \in VersionsOf(d) :
      versions[v].version_number <= versions[docs[d].current_version_id].version_number

(* A completed job leaves its document PROCESSED until it is deleted. *)
CompletedIsProcessed ==
  \A d \in Session :
    jobs[d] # NoJob /\ jobs[d].status = "completed" => docs[d].status # "uploaded"

-----------------------------------------------------------------------------
(* What the repository says and the code does not do *)

(* "The record is marked DELETED" (delete_document.py:3-4): a document     *)
(* that is deleted stays deleted.  A patch or an ingestion run that read   *)
(* the document before writes its old deleted_at back.                     *)
DeletedStaysDeleted ==
  [][\A d \in Session :
       docs[d] # NoDoc /\ docs[d].deleted_at # None => docs'[d].deleted_at # None]_vars

(* "re-running this use case ... upserts over the same points"             *)
(* (process_document.py:5-6), turning "the stored bytes of a document's    *)
(* active version" into vectors (process_document.py:3): after a completed *)
(* run the index holds chunks of one version only.  A run that failed      *)
(* after its upsert leaves its last chunks behind a shorter version.       *)
OneVersionIndexed ==
  \A d \in Session :
    jobs[d] # NoJob /\ jobs[d].status = "completed" =>
      Cardinality({index[d][i] : i \in ChunkIds} \ {NoVersion}) <= 1
=============================================================================
