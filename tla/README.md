# Cortex-RAG in TLA+

A verification project for the knowledge engine: documents are uploaded and
versioned, a job is queued for each upload, a worker turns the bytes of a
document into vectors, and searches and chats read the vectors. The models here
are about the parts of the engine where state is shared: the table of jobs, the
message queue, the worker process, the tables of documents and versions, the
blob store, the vector index, the tables of conversations, the caches of the
adapters, and the database as the migrations carry it from one release to the
next.

All paths below are relative to `src/`.

## 1. The system

| component | state it keeps | operations | hard behaviour |
|---|---|---|---|
| Processing job entity (`app/domain/documents/jobs.py`) | status, retry count, progress, worker, error, two times | `start`, `advance`, `complete`, `fail`, `cancel`, `can_retry`, `retry` | long call sequences, clamping, retry budget |
| Job creation (`app/application/processing/use_cases/create_processing_job.py`) | one row per job | check for an active job, insert, publish | check-then-insert; the message leaves before the commit |
| Job queue (`app/infrastructure/queue/rabbitmq_job_queue.py`) | durable queue of `{tenant_id, job_id}` | publish | at-least-once delivery, redelivery, lost connection |
| Worker (`scripts/run_worker.py`, `app/workers/`) | the message in hand, the entity in memory, one transaction | load, start, run, complete/retry/fail, enqueue, commit, ack | crash at any point, duplicate delivery, ack on a lost channel |
| Job repository, session (`.../repositories/processing_job_repository.py`, `.../session.py`) | the rows | `add`, `get`, `update`, `get_active_by_type`; commit or rollback on leaving the context | READ COMMITTED, partial UPDATEs, row locks |
| Documents (`app/application/documents/use_cases/`, `.../repositories/document_repository.py`) | documents, immutable versions, blobs | upload, new version, delete, patch, reads | stale entities written back, duplicate uploads, version numbers, blobs outside the transaction |
| Processing (`process_document.py`) | the Qdrant collection, the document's status | load, parse, split, embed, upsert, mark PROCESSED | failure after the upsert, deletion or a new version meanwhile |
| Conversations and chat (`answer_question.py`, `conversation_repository.py`) | conversations, numbered messages | load or create, answer, append | overlapping turns, history window |
| Semantic search (`semantic_search.py`, `qdrant_repository.py`) | nothing | embed, search by tenant | first use of the collection, chunks of several tenants in one collection |
| Adapter caches (`rabbitmq_job_queue.py`, `qdrant_repository.py`, `fastembed_provider.py`) | module-level channel, clients and models, "already declared" sets | lazy initialisation | concurrent first use, failure under the lock, reconnection, ids used again |
| Job list (`processing_job_repository.py:97-123`, `list_processing_jobs.py`) | nothing | count, read a page | rows that enter and leave between pages |
| Migrations (`alembic/versions`, `models.py`, `docker/entrypoint.sh`) | the schema and the rows | five revisions, up and down | rows of an earlier release, loss on the way down, drift between revisions and models |
| Upload policy, source types, metadata (`validation.py`, `settings.py`, `parsing.py`, `source_type.py`, `metadata.py`) | nothing | pure functions | spellings, boundaries, tables written twice |
| Storage keys, logging, events, parser and LLM wrappers, seed, web page | nothing shared | transport | none |
| API and DI (`app/api/`) | nothing | a session per request | the commit follows the response |

How they interact. A request of the API runs in one database session: the use
case reads and writes through repositories (`flush`), and the session commits
when its context is left (`session.py:41-50`). `UploadDocumentUseCase` calls
`CreateProcessingJobUseCase` inside that session, which publishes to RabbitMQ.
The worker consumes the queue one message after the other; each message is one
session too, shared by the executor and the ingestion, so that the job's
transitions and the document's status are one transaction. Blobs and vectors
are written in between, outside of any transaction.

What makes each of them correct is stated as properties in the modules below;
the list of hazards they answer, each at its line, is in `PROJECT.json`.

## 2. The modules

| module | what it is | states and actions |
|---|---|---|
| `Columns` | how a repository's `update()` writes a row | the row is read again with `session.get`; the UPDATE names the columns that differ from that read; it waits for the row lock and goes to the latest committed row |
| `ProcessingJob` | the entity as a record | one operator per method, `Can...` for the guard that raises `ValidationError`; texts and times are `None` or `Some` |
| `JobEntity` | any sequence of calls on one entity | one action per method |
| `JobPipeline` | requests, queue, worker and rows | see below |
| `JobLedger` | what the pipeline promises to a reader of the table | a job is admitted, finished, tried again, given up or refused |
| `DocumentStore` | documents, versions, jobs, blobs and index | see below |
| `Conversations` | chat turns and the messages they store | see below |
| `Transcript` | what a conversation promises its reader | a whole turn is taken |
| `JobListing` | a client that pages through `GET /processing-jobs` while jobs change | see below |
| `AdapterCaches` | the calls of two processes over the cached channel and collection | see below |
| `SourceTypes`, `KnowledgeMetadata`, `UploadPolicy` | pure functions | operators: `FromExtension`, `Validated`, `AllowedExtensions`, `ValidateUpload`; a text is a word with the properties that parsing looks at (capitals, a leading dot, blanks before and after); a setting is the set of its entries |
| `Schema` | a database schema and what `alembic.op` does to it | columns, NOT NULL, indexes, foreign keys; `Accepted` says what PostgreSQL would refuse |
| `Revisions` | the five revisions up and down, and the schema of `models.py` | `UpVersioning`, `DownVersioning`, ..., `ModelsSchema` |
| `Migrations` | a database with rows, taken through the revisions | see below |
| `JobEntityProofs` | theorems about `JobEntity` | section 5 |
| `JobPipelineProofs` | theorems about `JobPipeline`, for any workers and for one | section 5 |
| `JobListingProofs` | theorems about `JobListing` | section 5 |
| `DocumentStoreProofs`, `SerialStoreProofs` | theorems about `DocumentStore`, under overlap and without it | section 5 |
| `ConversationsProofs`, `AdapterCachesProofs`, `MigrationsProofs` | theorems about `Conversations`, `AdapterCaches` and `Migrations` | section 5 |
| `MC...` | instances for TLC | constants and symmetry |

`JobPipeline` EXTENDS `ProcessingJob` and `Columns`, and implements `JobLedger`
through `ledgerOfRows` (status and retry count of each committed row).
`DocumentStore` keeps its jobs as entries of the same ledger and is proved to
follow it, so the two models meet there: what `JobPipeline` implements is what
`DocumentStore` assumes of jobs, together with "no two runs of one job", which is
`RunExclusive`.

**JobPipeline.** A request goes `new -> inserted -> enqueued -> done`, or is
rejected or aborted; its row exists for others from `CommitRequest` on, its
message from `EnqueueJob` on. A worker goes `idle -> loaded -> starting ->
running -> (enqueue ->) commit -> ack -> idle`; `DropUnknown` and `SkipStarted`
are the two early returns of `_handle_message`. `starting` is the point between
the fresh read of `update()` and its flush: the flush waits for the row lock,
which the transaction then keeps. `Crash` covers the loss of the process and any
exception that leaves the handler: rollback, requeue, and the end of the process
(the exception leaves `_run_forever`); `Restart` is the operator's.
`BrokerDrop` is a connection lost while the handler goes on: the message becomes
ready again, and the late acknowledgement raises. Messages prefetched by the
client are counted with the ready ones.

**DocumentStore.** A session is `new -> begun -> stored -> read -> flushed ->
done`, less the stages an operation does not have. Documents, versions and times
are named by the session that makes them. `begun` holds the entity read at the
start, `read` the fresh row of `update()`, `flushed` the row lock. Sessions may
abort at every stage; blobs and points stay. `FailProcess` is the executor's
handling of an exception of the ingestion, `Abort` the loss of the worker.
`add_version` is modelled although no endpoint calls it yet
(`add_document_version.py:3-4`).

**Conversations.** A turn goes `new -> loaded -> answered -> compared -> inserted
-> done` or aborts on the way. `loaded` holds the messages read at the start,
`answered` the same with question and answer appended, `compared` the ids that
`update()` finds stored by then. `InsertMessages` is the flush: a taken number
makes it wait for the session that took it, and fail (`AbortTurn`) if that one
commits. An answer is modelled by whose messages the model was given, which is
what `Transcript` has to tell apart; it is implemented by the stored rows of each
conversation in the order of their numbers. Between `inserted` and the commit the
response is sent (`Respond`): `get_session` is a dependency with `yield`, and
FastAPI runs what follows the yield after the response since 0.118 (`uv.lock` has
0.139). `told` are the conversations a response has named; a client that names
one which is not committed is refused (`RefuseUnknown`).

**JobListing.** It EXTENDS `JobEntity`: one job is followed through all its
methods, of three others it is only kept whether they match the filter. A request
counts (`CountRows`) and reads a page (`ReadPage`), two SELECTs that each see what
is committed by then; the client goes on until a page is short. A row may appear
at any place of the order, since `created_at` is the time its transaction began.

**AdapterCaches.** A call of the event loop runs from one `await` to the next, and
that is one action. An enqueueing goes `lock -> connect -> open -> declare -> publish`,
less what the caches spare it (`_get_channel`, `_ensure_queue`); an indexing or a
search goes `embed -> exists -> create -> use` (`_ensure_collection`). The worker
does one thing at a time, the API any number. Every request to the broker or to
Qdrant may fail, and the reply to one that took effect may be lost: `BrokerDeclares` is
the declaration apart from its reply, and `VectorCallFails` leaves a collection or a point
behind or not. A message sent in vain
may be stored or not, and the caches do not depend on which. A connection
whose `channel()` fails is left open by the code; nothing counts connections, only
channels. The broker may restart, and a lost channel recovers (`connect_robust`) or
stays lost. The id of a channel may be given to a
later one once nothing refers to the first. The clients of Qdrant and the embedding
models are cached too, but filled without an `await`: nothing can come in between.

**Migrations.** `rev` is the row of `alembic_version`; a revision is one step, as
`alembic/env.py` runs a command in one transaction. It changes the schema by what
`Revisions` says, if `Accepted`, and the rows by its UPDATE statements. The
release of the first revision writes documents with free-form metadata
(`LegacyWrite`); the present one, at the last revision, uploads, adds versions,
patches and works jobs, with the operators of `UploadPolicy`, `KnowledgeMetadata`,
`SourceTypes` and `ProcessingJob`. Downgrades may come at any time.
A text with `\u0000`, which `json` stores and `jsonb` does not, is a kind of value of its own
("nul", in whichever field it is), and `metadata::jsonb` a guard (`Castable`) of the
revision that has the cast, in both directions.

Abstractions: one tenant; contents are told apart by their checksum and have a
number of chunks; title stands for all fields only a patch writes; a job's
priority, never changed after its creation, is left out; views and downloads,
which read one committed row, are left out; the fresh read of `update()` is
taken to reach the database, since the session holds its rows weakly and the
repositories keep none of them.

## 3. Runs

| run | instance | shows |
|---|---|---|
| `job_listing` | 2 retries, progress reports inside and above the range, 3 other jobs, pages of 1 and 2, 3 changes of the others | the fields agree with the status after any calls (`EntityConsistent`); paging by offset misses one job at most for each that leaves, repeats one at most for each that enters, and the total is off by no more (`PagingDrift`) |
| `pipeline_one_worker` | 3 jobs in 2 slots (one of an unregistered type), 2 retries, 2 crashes, 1 lost connection, requests one after the other, `FairSpec` | the deployment: `FollowsLedger`, `RetryHasMessage`, `OneActivePerSlot`, and `MessagedJobEnds` |
| `pipeline_two_workers` | 2 workers, 2 jobs, 2 retries, 1 crash, 2 lost connections, overlapping requests | `RunExclusive`, `NothingStranded`, `RowsConsistent`, `RetryBudget` do not depend on a single worker |
| `store_overlap` | 5 sessions, 2 open at a time, 2 contents of 1 and 2 chunks, 1 retry | what versions, blobs, index and jobs say together under overlap and aborts |
| `store_serial` | 5 sessions, one at a time | what needs the absence of overlap |
| `conversations` | 5 turns, 3 in progress at a time, history window of 3 | `NumberedWithoutGaps`, and that turns that overlap look as if taken one after the other (`TurnsSerialize`) |
| `migrations` | 2 documents, 2 versions, 2 legacy files, 3 legacy metadata, 10 candidate files, 3 requests, 4 settings, 1 retry | the schema and its NOT NULLs block no way (`NeitherWayBlocked`), nothing is lost (`DocumentsKept`, `JobsKept`), metadata that is text stays readable (`DocumentsReadable`), a migrated document is as an uploaded one (`MigratedAsUploaded`), the last schema is that of the models (`HeadIsModels`), the policy admits what it names in every spelling |
| `adapters` | 2 processes, 3 calls, 2 tenants, 2 restarts of the broker, pages of 1 point | one channel for each loss, no message to a queue that is not there, a collection's creation refused only in a race, no indexed point lost to a first use, every call ends |
| `pipeline_lost_wakeup`, `conversation_told`, `store_undelete`, `store_stale_chunks` | the smallest instance that shows it | section 4 |

Bounds. `MaxOpen`, `MaxCrashes` and `MaxDrops` bound the requests in progress and
the faults; they are constants of the modules and appear in guards only. Two
jobs of one slot and one of another are what `get_active_by_type` can tell
apart. Two retries distinguish the first, an intermediate and the last attempt.
Two messages of one job need one lost connection, three need two, and more of
them only repeat `SkipStarted`. In the store, the longest scenarios that
matter need an upload and three or four sessions after it: an upload, two new
versions with one number, and a third; an upload, a failed ingestion, a new
version and the retry. Sessions are symmetric: nothing compares them but for
equality. In the conversations, three turns that loaded one history can each find
the others' messages absent, stored or about to be; the other two turns give the
conversation a history longer than the window of 3, which cuts a question from
its answer. In the list, the bound on the changes of other jobs (`MaxEvents`) is
what pages of 1 and 2 over at most four jobs need to shift a row over a boundary
more than once; the followed job's own changes are not bounded by it. In the
caches, calls are numbered in the order they begin and addresses in the order they
are met, which loses nothing, since neither is compared but for equality; three
calls are one that holds the lock and two that wait, or two creations and a later
search; two restarts let a third channel bear the address of the first. In the
migrations, the number of upgrades and downgrades is not bounded; two versions
tell the current one from the first, two documents one that is written before a
revision from one written after. Each `LegacyWrite` and `Upload` comes with a
job. The systems end when all requests are done, so deadlock is not checked.

Fairness. `FairSpec` of the pipeline: the worker's own steps are weakly fair, since its
process loops over its messages and each step of a message ends; a request that
has inserted its row ends, since the use case is straight-line code within a
request. No fairness is assumed of one message against another: jobs and retries
are finite, so none is overtaken for ever. Success, failure, crashes, lost connections and
restarts are not fair. `MessagedJobEnds` therefore has the premise that the
worker is up from some point on: `docker-compose.yml` sets no restart policy, so
nothing guarantees it. `CachesSpec`: each call's steps are weakly fair, since the event loop
gets round to every task that can go on and each request to the broker or to
Qdrant answers or raises; calls may all fail, and neither the broker's restarts nor
recoveries are fair. Waiting for the lock is not a step, so `EveryCallEnds` says
that the lock is always given back, and not taken for ever by others: each that
takes it ends, and the calls are finitely many.

## 4. Where the code departs from its documents

- `pipeline_lost_wakeup`: "a worker picks it up later" (`create_processing_job.py:4`):
  the message is published before the commit; a worker that is faster drops it.
- `conversation_told`: the session commits "al cerrar el request" and the response
  follows (`ARQUITECTURA.md:718-724`): it is the other way round, and a client that
  goes on at once with the conversation it was told of gets a 404.
- `store_undelete`: `update()` writes an entity read earlier back in full, and
  thereby undoes a deletion that was committed in between. The ingestion is the
  session that stays open for long. A new version is undone in the same way
  (`CurrentIsLatest` fails when sessions overlap); it has no run of its own.
- `store_stale_chunks`: "upserts over the same points" (`process_document.py:3-6`)
  leaves the points beyond the last chunk of a shorter version.

Each of these runs checks one property; where it holds without the overlap, the
runs of section 3 show so (`CurrentIsLatest`; `DeletedIsFrozen` implies
`DeletedStaysDeleted`).

Other departures have no run:

- The skip of redelivered messages (`run_worker.py:58-59`) relies on a committed
  RUNNING, which never exists (`NothingStranded`). With one worker the message
  comes back to the worker that is busy, and is then skipped or, after a crash,
  rightly handled; with two it is taken up twice and the second waits for the row
  lock, then works from an entity it loaded before.
- A duplicated document is admitted twice by uploads that overlap
  (`ARQUITECTURA.md:198`); one after the other, `UploadsDiffer` holds.
- `OneActivePerSlot` ("only one active job per type per document",
  `create_processing_job.py:3`) is a SELECT before an INSERT: it holds in
  `pipeline_one_worker`, where requests come one after the other, and not when two
  requests for one slot overlap. The race is latent: the only caller in the
  application, the upload, passes a fresh document.
- A history window of 0 gives the model the whole conversation
  (`answer_question.py:49`), the slice `[-0:]`; the settings do not say what 0
  should mean.
- `c3d9e1f42a76` is "fully backward compatible" (line 7) and moves any free-form
  metadata to `custom_properties`, which `KnowledgeMetadata` validates as texts:
  a number stored by the earlier release makes every use case raise for the
  document, as `ReadableExactlyIfText` proves of the model. `DocumentsReadable` is stated for
  metadata that is text.
- The same revision casts the metadata to `jsonb`, upwards and downwards (lines 88
  and 101). A text with `\u0000`, which the earlier release and a PATCH both admit and
  the `json` column stores, is refused by the cast: the revision fails until the row is
  corrected. In the model it is then not enabled (`Castable`).
- After a downgrade to the first revision the file columns stay nullable, the
  collection has no foreign key any more, and older versions are lost; the
  revisions say so in part ("nullable"). A document without a current version
  could then not be upgraded again (`FilesPresent`); none exists, says
  `NeitherWayBlocked`, for any sequence of upgrades, downgrades and writes.

## 5. Theorems

Every theorem holds for all values of the constants its module's assumptions
admit; a premise beyond them is named below. The runs check the same properties on
a small instance, and the invariants of the proofs were checked there before they
were proved.

**The entity** (`JobEntityProofs`), for any retry budget and any integers reported as
progress: `AlwaysConsistent`, `AlwaysWithinBudget`, `TerminalForGood`. The invariant is
the conjunction of types, consistency and budget, inductive as it stands; the
third is an action property and needs only what each guard says of the status.

**The pipeline** (`JobPipelineProofs`), for any jobs, slots, workers and bounds:
`TypeCorrect`, `ExclusiveRuns`, `NeverStranded`, `ConsistentRows`, `WithinBudget`, from

    IInv == TypeOK /\ RowsInv /\ HandsInv /\ LockInv /\ WorkerInv

with one lemma per action or group of actions (`Invariance`). None of the
properties is inductive alone. `RowsInv` says what a committed row looks like;
`HandsInv`, what the entity, the base and the transaction of a worker look like
at each stage; `LockInv`, that of two workers with one job at most one is past
its flush. The heart of it is `Merged`: the row a partial UPDATE leaves is
consistent although the row below it may have changed since the read: a row that
changes under a worker's feet changes by a commit, and `WorkerInv` bounds what
such a commit can have written against what the worker holds.

**The deployment's one worker** (the second part of `JobPipelineProofs`), under the premise `OneWorker`:
`RetriesHaveMessages`, `FinishedForGood`, `ImplementsLedger`. The invariant grows
by `LInv`: the base and the entity a worker holds are those of the committed row
itself, since nobody else writes it. `ImplementsLedger` is a refinement: every
step of the pipeline changes the ledger by one of its actions or leaves it.
`OneActivePerSlotHolds` has the second premise `OneRequest` (`MaxOpen = 1`), without which
it is false (section 4): `SlotInv` adds that an open request's slot was free when it
looked, and is so still, since a committed row becomes active again by a request only.

**Paging through the jobs** (`JobListingProofs`), for any number of jobs, any page sizes and
any changes between two SELECTs: `PagingDriftHolds`, and `ConsistentWhileListed` for the
job that is followed. `ReadingInv` cuts the list at the offset of the next page. Ahead of
the cut, the rows already shown, together with the repetitions so far, are no more than
the rows that entered; behind it, the rows that were there all along and have not been
shown are no more than those that left. A row that enters moves one row over the cut, a
row that leaves moves one back, a page moves the cut over what it shows
(`InsertedOverCut`, `RemovedOverCut`, `BetweenCuts`); after the last page nothing is ahead,
and the two bounds are `PagingDrift`. `NoRepetition` says that no row is listed twice,
without which a row that leaves would still be there.

**The store, however sessions overlap** (`DocumentStoreProofs`): `TypeCorrect`,
`BlobBehindVersionHolds`, `CurrentIsAVersionHolds`, `NumbersContiguousHolds`,
`ProcessedIsIndexedHolds` and the refinement `ImplementsLedger`, for any number of
sessions in progress, although `update()` writes back what was read earlier.
The invariant says of each session what its memory may hold (`SessionInv`) and why
that is harmless to commit:

- a version, once committed, stays, so that a stale `current_version_id` is still
  one of the document's versions (`Eligible`);
- a status read as `processed` is backed by a completed job and an index that no later
  ingestion touches, for only a queued job is worked (`StatusInv`, `ProcessInv`);
- a new version's number follows one that was taken when it was chosen, and once
  the row's lock is held it is free (`AddVersionInv`): the flush of another session
  with the same number would have had to hold the lock (`LockInv`) and commit.

`SharedGrows` is what every step keeps of the tables; each action is proved against it,
and sessions that rest keep their invariant by one lemma (`RestingKeepsSessionInv`).

**The store, one session at a time** (`SerialStoreProofs`), under the premise
`OneAtATime` (`MaxOpen = 1`): `DeletionConsistentHolds`, `UploadsDifferHolds`,
`CurrentIsLatestHolds`, `CompletedIsProcessedHolds` and the action property
`DeletedIsFrozenHolds`. The invariant adds that the open session is `Undisturbed`: what it
has in memory is the committed row with its own change and nothing else. That the
premise is needed is what `store_undelete` shows.

**Conversations** (`ConversationsProofs`), for any number of turns, any overlap:
`TypeCorrect`, `NumberedWithoutGapsHolds`, and the refinement `ImplementsTranscript`,
whose premise `HistoryIsSent` (`Window > 0`) excludes the window that the slice `[-0:]`
turns into the whole conversation. `ThreadInv` says that the stored rows of a
conversation are its messages numbered from 0; `TurnInv`, that what a turn has read is
stored still, as the beginning of the conversation, and that what it has inserted comes
right after everything stored. The argument: a turn that compared its memory with a
longer conversation numbers its messages as if the others were not there, meets a
taken number and aborts, since the unique index admits no two; a turn that gets
past its flush has therefore read all there is, and its answer was made from the
messages right before its question. The lemmas on operators (`RowSetFacts`,
`RowSetGrows`, `PrefixIsAll`, `ReadBack`) say that reading in order undoes the numbering, and
that a prefix numbered alike is a prefix.

**The cached channel and collection** (`AdapterCachesProofs`), for any processes, calls,
tenants and bounds: `TypeCorrect`, `OneChannelPerLossHolds`, `PublishedToAQueueHolds`,
`EnsuredExistsHolds`, `RefusedOnlyInRaceHolds`, `IndexedIsFoundHolds`. `ChannelInv`: a
process whose cached channel is not open has opened no more channels than there were
restarts, and so has one whose lock is held by a call that is connecting or opening a
channel. `QueueInv`: a
queue declared once is durable, whence a reused id does no harm. `CollectionInv` and
`PointsInv`: what was so when a call began is so when it ends.

**The migrations** (`MigrationsProofs`), for any documents, files and metadata, any retry
budget, and any sequence of upgrades, downgrades and writes: `TypeCorrect`,
`DocumentsKeptHolds`, `JobsKeptHolds`, `MigratedAsUploadedHolds`, `DocumentsReadableHolds`,
`NeitherWayBlockedHolds`, `HeadIsModelsHolds` and `PolicyAdmitsWhatItNamesHolds`.

The rows: the invariant describes them revision by revision (`VersionsInv`, `DocumentInv`,
`JobInv`); what it adds to the types is that the versions of a document are numbered 1 to
its current one. So a downgrade finds a file to put back (`CurrentVersion`), and the next
number of a version is a new one (`NextIsAfterCurrent`), whatever the downgrades in between have thrown away.
`CurrentFileKept`, `OthersVersion` and `NewVersion` say what each kind of step does to the file a
document shows.

The metadata: every read of a row validates what a write has validated before, so a
document stays readable only if the validators leave their own results alone.
`ValidatedIdempotent` says so, for any tags, keywords and language, and `ReadsBack` is the
part of the invariant that rests on it. The filter that drops blank tags is written with the
places of the texts that stay (`NonBlank`), not with `SelectSeq`, of which the provers know
nothing; that every place is filled (`PlacesFilled`) is a counting argument: distinct places,
as many as there are texts. `ReadableExactlyIfText` adds the converse: a document is
unreadable if and only if the earlier release stored a value that is not text.

The schema: `SchemaInv` gives the schema of each revision, written out
(`FoundationSchema` to `PipelineSchema`, then `ModelsSchema`). The first revision has two:
`RestoredSchema` is what undoing the second leaves. `MovesWhen` says when a change is accepted
and makes one schema of another; there is one lemma for each revision and direction
(`FoundationUp` to `FoundationDown`), and `SchemaSteps` puts them in order. So the schema
refuses no revision in either direction however often the two are alternated, and the two first
schemas, which differ, lead to the same second one. `NeitherWayBlocked` also needs the rows:
at the first revision every document has its file (`DocumentInv`). It does not say
that `c3d9e1f42a76` can cast every value (section 4).

The policy: `SettingNames` says of any setting, in any spelling, that an extension
is in the parsed and normalized set if and only if an entry names it.

Assumptions: those of the modules, named and evaluated by TLC in every run:
`SlotAssumption`, `RetriesAssumption`, `BoundsAssumption`, `NoRowAssumption`,
`NoJobAssumption` of the pipeline; `MaxRetriesAssumption`, `ReportsAssumption` of the
entity; `ChunksAssumption`, `BoundsAssumption`, `SessionsAssumption` (finitely many sessions)
and `AbsenceAssumption` of the store; `TurnAssumption` (finitely many turns),
`WindowAssumption`, `MaxOpenAssumption` of the conversations; `WorkerAssumption`,
`CallsAssumption`, `LimitAssumption` of the caches; `FilterAssumption`, `LimitsAssumption` (the
page sizes the API admits, 1 to 200) and `OthersAssumption` of the list;
`LegacyAssumption`, `StatusAssumption`, `MaxRetriesAssumption`, `FilesAssumption` (no
extension has a leading dot, for it is what follows the last dot of a name),
`RequestsAssumption` (a request has the types of the fields; pydantic and the validators refuse
any other), `PoliciesAssumption` and `MaxSizeAssumption` (types), and
`InvalidAssumption` (an error is no value) of the migrations.

Model-checked only: `MessagedJobEnds` and `EveryCallEnds` (liveness is out of the
prover's reach, and both need fairness). `AlwaysWithinBudget`, `TerminalForGood` and
`FinishedForGood` are proved and in no run: `RetryBudget` and `FollowsLedger` check as much
and more of the same transitions in the pipeline.

## 6. Not modelled

Storage keys (unique by the version's id), the PDF, LLM and embedding wrappers
(stateless; a failure is a failed run or a failed call), logging, events (a log
line without subscribers), the seed (a placeholder), the API's schemas and status
codes, and the web page. The vector repository's `delete` has no caller: a deleted
document's points stay in the index and are found by searches, and nothing in the
repository promises otherwise. That a search is filtered by its tenant is in
`AdapterCaches` (`Searched`); that it returns no other tenant's chunks restates the
filter and is not a property of its own. A job that kills its process is redelivered without
bound: nothing in the code counts it, and no property is stated. Types, lengths and
defaults of columns are left out of the schema.

## 7. Plan

1. `ProcessingJob`, `JobEntity`, `JobPipeline`, `JobLedger`: done, checked and proved.
2. `DocumentStore`, joined to the ledger: done, checked and proved.
3. `Conversations`, implementing `Transcript`: done, checked and proved.
4. `AdapterCaches`: done, checked and proved, but for `EveryCallEnds`.
5. `JobListing`: done, checked and proved.
6. `Migrations` with `Schema`, `Revisions`, `SourceTypes`, `KnowledgeMetadata` and
   `UploadPolicy`: done, checked and proved.

What is left to TLC alone is named in section 5.
