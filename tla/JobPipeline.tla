----------------------------- MODULE JobPipeline -----------------------------
(***************************************************************************)
(* The path of a processing job from the request that creates it to its    *)
(* terminal status:                                                        *)
(*                                                                         *)
(*   request  CreateProcessingJobUseCase, inside the transaction of the    *)
(*            request's session                                            *)
(*   queue    the durable RabbitMQ queue of {tenant_id, job_id} messages   *)
(*   worker   scripts/run_worker.py and WorkerExecutor, one transaction    *)
(*            per message                                                  *)
(*   rows     the processing_jobs table of Postgres, READ COMMITTED        *)
(*                                                                         *)
(* A session is one transaction (session.py): what it flushes is private   *)
(* until the commit on leaving the context, but an UPDATE takes the row's  *)
(* lock when it is flushed.  The message of a job is published inside the  *)
(* transaction, before the commit, both by the request and by a retry.     *)
(***************************************************************************)
EXTENDS ProcessingJob, FiniteSets

CONSTANTS
  Job,          \* job ids, one per request that may be made
  Slot,         \* (document, job type) pairs
  SlotOf,       \* the slot each request asks for
  Registered,   \* the slots whose job type has a worker in the registry
  Worker,       \* worker processes
  MaxRetries,   \* settings.processing.max_retries
  MaxOpen,      \* bound: requests between their first and last statement
  MaxCrashes,   \* bound: worker processes lost, or stopped by an exception
  MaxDrops,     \* bound: broker connections lost while a message is held
  NoRow,        \* no such row
  NoJob         \* no message in hand

ASSUME SlotAssumption    == SlotOf \in [Job -> Slot] /\ Registered \subseteq Slot
ASSUME RetriesAssumption == MaxRetries \in Nat
ASSUME BoundsAssumption  == MaxOpen \in Nat /\ MaxCrashes \in Nat /\ MaxDrops \in Nat
ASSUME NoRowAssumption   == /\ NoRow \notin JobRecord
                            /\ NoRow \notin [status : Statuses, retry_count : Nat]
ASSUME NoJobAssumption   == NoJob \notin Job

VARIABLES
  req,      \* req[j]: how far the request that creates j has come
  rows,     \* rows[j]: the committed row of j
  queue,    \* queue[j]: messages naming j that the broker may deliver
  pc,       \* pc[w]: what worker w does next
  job,      \* job[w]: the job of the message w holds, not yet acknowledged
  owned,    \* owned[w]: the channel that delivered w's message is still open
  entity,   \* entity[w]: the ProcessingJob in w's memory
  base,     \* base[w]: the row update() has just read, which the UPDATE is diffed against
  txn,      \* txn[w]: the row as w's transaction has written it
  crashes,  \* worker processes stopped so far
  drops     \* connections lost so far

vars == <<req, rows, queue, pc, job, owned, entity, base, txn, crashes, drops>>

requestVars == <<req>>
workerVars  == <<pc, job, owned, entity, base, txn>>
faultVars   == <<crashes, drops>>

RequestStages == {"new", "inserted", "enqueued", "done", "rejected", "aborted"}
WorkerStages  == {"idle", "loaded", "starting", "running", "enqueue", "commit", "ack", "down"}

IsRegistered(j) == SlotOf[j] \in Registered

(* A request whose transaction is open. *)
Open(j) == req[j] \in {"inserted", "enqueued"}

(* The flushed UPDATE of w's transaction locks the row of j until it ends. *)
LocksRow(w, j) == job[w] = j /\ pc[w] \in {"running", "enqueue", "commit"}

(* An abort and a connection loss return an unacknowledged message. *)
Requeue(j) == queue' = [queue EXCEPT ![j] = @ + 1]
Consume(j) == queue' = [queue EXCEPT ![j] = @ - 1]

TypeOK ==
  /\ req     \in [Job -> RequestStages]
  /\ rows    \in [Job -> JobRecord \cup {NoRow}]
  /\ queue   \in [Job -> Nat]
  /\ pc      \in [Worker -> WorkerStages]
  /\ job     \in [Worker -> Job \cup {NoJob}]
  /\ owned   \in [Worker -> BOOLEAN]
  /\ entity  \in [Worker -> JobRecord \cup {NoRow}]
  /\ base    \in [Worker -> JobRecord \cup {NoRow}]
  /\ txn     \in [Worker -> JobRecord \cup {NoRow}]
  /\ crashes \in 0 .. MaxCrashes
  /\ drops   \in 0 .. MaxDrops

Init ==
  /\ req     = [j \in Job |-> "new"]
  /\ rows    = [j \in Job |-> NoRow]
  /\ queue   = [j \in Job |-> 0]
  /\ pc      = [w \in Worker |-> "idle"]
  /\ job     = [w \in Worker |-> NoJob]
  /\ owned   = [w \in Worker |-> FALSE]
  /\ entity  = [w \in Worker |-> NoRow]
  /\ base    = [w \in Worker |-> NoRow]
  /\ txn     = [w \in Worker |-> NoRow]
  /\ crashes = 0
  /\ drops   = 0

-----------------------------------------------------------------------------
(* Requests *)

(* get_active_by_type: only committed rows are visible to another session. *)
ActiveInSlot(s) ==
  {j \in Job : rows[j] # NoRow /\ IsActive(rows[j]) /\ SlotOf[j] = s}

SetRequest(j, stage) == req' = [req EXCEPT ![j] = stage]

BeginRequest(j) ==
  /\ req[j] = "new"
  /\ Cardinality({k \in Job : Open(k)}) < MaxOpen

\* mutant: the active job of the slot is not looked for
CreateJobUnchecked(j) ==
  /\ BeginRequest(j)
  /\ SetRequest(j, "inserted")
  /\ UNCHANGED <<rows, queue, workerVars, faultVars>>

(* execute(): no active job in the slot, so the new row is inserted; the   *)
(* insert stays private to the session.                                    *)
CreateJob(j) ==
  /\ BeginRequest(j)
  /\ ActiveInSlot(SlotOf[j]) = {}
  /\ SetRequest(j, "inserted")
  /\ UNCHANGED <<rows, queue, workerVars, faultVars>>

(* execute(): ConflictError, the session rolls back. *)
RejectJob(j) ==
  /\ BeginRequest(j)
  /\ ActiveInSlot(SlotOf[j]) # {}
  /\ SetRequest(j, "rejected")
  /\ UNCHANGED <<rows, queue, workerVars, faultVars>>

(* queue.enqueue: the broker may deliver the message from here on. *)
EnqueueJob(j) ==
  /\ req[j] = "inserted"
  /\ Requeue(j)
  /\ SetRequest(j, "enqueued")
  /\ UNCHANGED <<rows, workerVars, faultVars>>

(* The session's context ends: the row becomes visible. *)
CommitRequest(j) ==
  /\ req[j] = "enqueued"
  /\ SetRequest(j, "done")
  /\ rows' = [rows EXCEPT ![j] = NewJob]
  /\ UNCHANGED <<queue, workerVars, faultVars>>

(* publish() or commit() raises, or the API process is lost: rollback.  A  *)
(* message already published stays in the queue.                           *)
AbortRequest(j) ==
  /\ Open(j)
  /\ SetRequest(j, "aborted")
  /\ UNCHANGED <<rows, queue, workerVars, faultVars>>

RequestStep(j) ==
  \/ CreateJob(j)
  \/ RejectJob(j)
  \/ EnqueueJob(j)
  \/ CommitRequest(j)
  \/ AbortRequest(j)

-----------------------------------------------------------------------------
(* The worker: receiving a message *)

Goto(w, stage) == pc' = [pc EXCEPT ![w] = stage]

CanReceive(w, j) == pc[w] = "idle" /\ queue[j] > 0

\* mutant: a message is acknowledged that was never delivered
DropUnreceived(w, j) ==
  /\ pc[w] = "idle"
  /\ rows[j] = NoRow
  /\ Consume(j)
  /\ UNCHANGED <<requestVars, rows, workerVars, faultVars>>

(* _handle_message: jobs.get found no row; return, and the message is      *)
(* acknowledged.                                                           *)
DropUnknown(w, j) ==
  /\ CanReceive(w, j)
  /\ rows[j] = NoRow
  /\ Consume(j)
  /\ UNCHANGED <<requestVars, rows, workerVars, faultVars>>

(* _handle_message: the job is not QUEUED; return and acknowledge. *)
SkipStarted(w, j) ==
  /\ CanReceive(w, j)
  /\ rows[j] # NoRow
  /\ rows[j].status # "queued"
  /\ Consume(j)
  /\ UNCHANGED <<requestVars, rows, workerVars, faultVars>>

(* _handle_message: the job is QUEUED and goes to the executor. *)
LoadJob(w, j) ==
  /\ CanReceive(w, j)
  /\ rows[j] # NoRow
  /\ rows[j].status = "queued"
  /\ Consume(j)
  /\ job'    = [job EXCEPT ![w] = j]
  /\ owned'  = [owned EXCEPT ![w] = TRUE]
  /\ entity' = [entity EXCEPT ![w] = rows[j]]
  /\ Goto(w, "loaded")
  /\ UNCHANGED <<requestVars, rows, base, txn, faultVars>>

-----------------------------------------------------------------------------
(* The worker: WorkerExecutor.execute *)

(* update(): session.get reads the row again, then the flush issues an     *)
(* UPDATE of the columns the entity changed against that row.              *)
ReadRow(w) == base' = [base EXCEPT ![w] = rows[job[w]]]

StartJob(w) ==
  /\ pc[w] = "loaded"
  /\ IsRegistered(job[w])
  /\ CanStart(entity[w])
  /\ entity' = [entity EXCEPT ![w] = Start(entity[w])]
  /\ ReadRow(w)
  /\ Goto(w, "starting")
  /\ UNCHANGED <<requestVars, rows, queue, job, owned, txn, faultVars>>

(* No worker registered for the job's type: the job fails unstarted. *)
FailUnregistered(w) ==
  /\ pc[w] = "loaded"
  /\ ~IsRegistered(job[w])
  /\ CanFail(entity[w])
  /\ entity' = [entity EXCEPT ![w] = Fail(entity[w])]
  /\ ReadRow(w)
  /\ Goto(w, "starting")
  /\ UNCHANGED <<requestVars, rows, queue, job, owned, txn, faultVars>>

(* The row that update() leaves: the columns the entity changed against    *)
(* the row read, the others as the row has them once its lock is granted.  *)
Merged(r, e, cur) ==
  [ status        |-> Column(r.status, e.status, cur.status),
    retry_count   |-> Column(r.retry_count, e.retry_count, cur.retry_count),
    progress      |-> Column(r.progress, e.progress, cur.progress),
    worker_name   |-> Column(r.worker_name, e.worker_name, cur.worker_name),
    error_message |-> Column(r.error_message, e.error_message, cur.error_message),
    started_at    |-> Timestamp(r.started_at, e.started_at, cur.started_at),
    finished_at   |-> Timestamp(r.finished_at, e.finished_at, cur.finished_at) ]

\* mutant: the UPDATE does not wait for the row
FlushUnlocked(w) ==
  /\ pc[w] = "starting"
  /\ txn' = [txn EXCEPT ![w] = Merged(base[w], entity[w], rows[job[w]])]
  /\ Goto(w, IF entity[w].status = "running" THEN "running" ELSE "commit")
  /\ UNCHANGED <<requestVars, rows, queue, job, owned, entity, base, faultVars>>

\* mutant: each update commits
FlushCommitting(w) ==
  /\ pc[w] = "starting"
  /\ txn' = [txn EXCEPT ![w] = Merged(base[w], entity[w], rows[job[w]])]
  /\ rows' = [rows EXCEPT ![job[w]] = Merged(base[w], entity[w], rows[job[w]])]
  /\ Goto(w, IF entity[w].status = "running" THEN "running" ELSE "commit")
  /\ UNCHANGED <<requestVars, queue, job, owned, entity, base, faultVars>>

(* The first flush of the transaction: the UPDATE waits for the row lock,  *)
(* then goes to the latest committed row.                                  *)
Flush(w) ==
  /\ pc[w] = "starting"
  /\ \A v \in Worker : ~LocksRow(v, job[w])
  /\ txn' = [txn EXCEPT ![w] = Merged(base[w], entity[w], rows[job[w]])]
  /\ Goto(w, IF entity[w].status = "running" THEN "running" ELSE "commit")
  /\ UNCHANGED <<requestVars, rows, queue, job, owned, entity, base, faultVars>>

(* A later update() of the same transaction reads the transaction's own    *)
(* row, so after it that row holds the entity's value in every column.     *)
FlushAgain(w, e) ==
  /\ entity' = [entity EXCEPT ![w] = e]
  /\ txn'    = [txn EXCEPT ![w] = e]

RunSucceeds(w) ==
  /\ pc[w] = "running"
  /\ FlushAgain(w, Complete(entity[w]))
  /\ Goto(w, "commit")
  /\ UNCHANGED <<requestVars, rows, queue, job, owned, base, faultVars>>

(* worker.run raises and retries are left: retry(), update(). *)
RunFailsRetry(w) ==
  /\ pc[w] = "running"
  /\ CanRetry(Fail(entity[w]), MaxRetries)
  /\ FlushAgain(w, Retry(Fail(entity[w])))
  /\ Goto(w, "enqueue")
  /\ UNCHANGED <<requestVars, rows, queue, job, owned, base, faultVars>>

(* worker.run raises and the budget is spent: update(), ProcessingJobFailed. *)
RunFailsFinally(w) ==
  /\ pc[w] = "running"
  /\ ~CanRetry(Fail(entity[w]), MaxRetries)
  /\ FlushAgain(w, Fail(entity[w]))
  /\ Goto(w, "commit")
  /\ UNCHANGED <<requestVars, rows, queue, job, owned, base, faultVars>>

\* mutant: a retried job is not put back in the queue
ForgetRetry(w) ==
  /\ pc[w] = "enqueue"
  /\ Goto(w, "commit")
  /\ UNCHANGED <<requestVars, rows, queue, job, owned, entity, base, txn, faultVars>>

EnqueueRetry(w) ==
  /\ pc[w] = "enqueue"
  /\ Requeue(job[w])
  /\ Goto(w, "commit")
  /\ UNCHANGED <<requestVars, rows, job, owned, entity, base, txn, faultVars>>

-----------------------------------------------------------------------------
(* The worker: end of the message *)

(* The session's context ends: the transaction becomes visible. *)
Commit(w) ==
  /\ pc[w] = "commit"
  /\ rows'   = [rows EXCEPT ![job[w]] = txn[w]]
  /\ entity' = [entity EXCEPT ![w] = NoRow]
  /\ base'   = [base EXCEPT ![w] = NoRow]
  /\ txn'    = [txn EXCEPT ![w] = NoRow]
  /\ Goto(w, "ack")
  /\ UNCHANGED <<requestVars, queue, job, owned, faultVars>>

(* message.process: ack on success.  On a channel that was lost the ack    *)
(* raises, and the exception leaves _run_forever: the process exits.       *)
Ack(w) ==
  /\ pc[w] = "ack"
  /\ Goto(w, IF owned[w] THEN "idle" ELSE "down")
  /\ job'   = [job EXCEPT ![w] = NoJob]
  /\ owned' = [owned EXCEPT ![w] = FALSE]
  /\ UNCHANGED <<requestVars, rows, queue, entity, base, txn, faultVars>>

WorkerStep(w) ==
  \/ \E j \in Job : DropUnknown(w, j) \/ SkipStarted(w, j) \/ LoadJob(w, j)
  \/ StartJob(w)
  \/ FailUnregistered(w)
  \/ Flush(w)
  \/ RunSucceeds(w)
  \/ RunFailsRetry(w)
  \/ RunFailsFinally(w)
  \/ EnqueueRetry(w)
  \/ Commit(w)
  \/ Ack(w)

-----------------------------------------------------------------------------
(* Faults *)

\* mutant: the message is acknowledged before it is handled
CrashLosingMessage(w) ==
  /\ pc[w] # "down"
  /\ crashes < MaxCrashes
  /\ crashes' = crashes + 1
  /\ Goto(w, "down")
  /\ job'    = [job EXCEPT ![w] = NoJob]
  /\ owned'  = [owned EXCEPT ![w] = FALSE]
  /\ entity' = [entity EXCEPT ![w] = NoRow]
  /\ base'   = [base EXCEPT ![w] = NoRow]
  /\ txn'    = [txn EXCEPT ![w] = NoRow]
  /\ UNCHANGED <<requestVars, rows, queue, drops>>

(* The process is lost, or the handler raises: the transaction rolls back, *)
(* the message goes back to the queue (process(requeue=True), or the       *)
(* broker on a lost connection), and the process ends, since the exception *)
(* leaves _run_forever.                                                    *)
Crash(w) ==
  /\ pc[w] # "down"
  /\ crashes < MaxCrashes
  /\ crashes' = crashes + 1
  /\ IF owned[w] THEN Requeue(job[w]) ELSE UNCHANGED queue
  /\ Goto(w, "down")
  /\ job'    = [job EXCEPT ![w] = NoJob]
  /\ owned'  = [owned EXCEPT ![w] = FALSE]
  /\ entity' = [entity EXCEPT ![w] = NoRow]
  /\ base'   = [base EXCEPT ![w] = NoRow]
  /\ txn'    = [txn EXCEPT ![w] = NoRow]
  /\ UNCHANGED <<requestVars, rows, drops>>

(* The broker closes w's connection (a missed heartbeat, a restart) while  *)
(* the handler goes on: the message becomes ready again.                   *)
BrokerDrop(w) ==
  /\ owned[w]
  /\ drops < MaxDrops
  /\ drops' = drops + 1
  /\ owned' = [owned EXCEPT ![w] = FALSE]
  /\ Requeue(job[w])
  /\ UNCHANGED <<requestVars, rows, pc, job, entity, base, txn, crashes>>

(* The process is started again, by hand: compose sets no restart policy. *)
Restart(w) ==
  /\ pc[w] = "down"
  /\ Goto(w, "idle")
  /\ UNCHANGED <<requestVars, rows, queue, job, owned, entity, base, txn, faultVars>>

Next ==
  \/ \E j \in Job : RequestStep(j)
  \/ \E w \in Worker :
       WorkerStep(w) \/ Crash(w) \/ BrokerDrop(w) \/ Restart(w)

Spec == Init /\ [][Next]_vars

(* A running worker keeps serving its queue, and its body of work ends. *)
WorkersServe == \A w \in Worker : WF_vars(WorkerStep(w))

(* A request that has inserted its row reaches its end. *)
RequestsEnd ==
  \A j \in Job : WF_vars(EnqueueJob(j) \/ CommitRequest(j) \/ AbortRequest(j))

FairSpec == Spec /\ WorkersServe /\ RequestsEnd

-----------------------------------------------------------------------------
(* Properties that hold with any number of workers *)

(* A job's work is never done by two workers at the same time: the row     *)
(* lock taken by the flush of RUNNING is held until the transaction ends.  *)
RunExclusive ==
  \A v, w \in Worker :
    pc[v] = "running" /\ pc[w] = "running" /\ job[v] = job[w] => v = w

(* No reader, and no redelivered message, ever meets a job left in the     *)
(* middle of a run: a worker that stops leaves the row as the last commit  *)
(* left it, queued, so that the redelivery is handled and not skipped.     *)
NothingStranded ==
  \A j \in Job : rows[j] # NoRow => rows[j].status \in {"queued", "completed", "failed"}

(* The columns of a committed row belong together, although an UPDATE      *)
(* writes only some of them, to a row that may have changed since it was   *)
(* read.                                                                   *)
RowsConsistent ==
  \A j \in Job : rows[j] # NoRow => Consistent(rows[j])

(* No row counts more retries than the budget, and a job that could be run *)
(* is given up exactly when its budget is spent (executor.py:5-6).         *)
RetryBudget ==
  \A j \in Job : rows[j] # NoRow =>
    /\ rows[j].retry_count <= MaxRetries
    /\ rows[j].status = "failed" =>
         rows[j].retry_count = IF IsRegistered(j) THEN MaxRetries ELSE 0

-----------------------------------------------------------------------------
(* Properties of the deployment, which runs one worker *)

InHand(w, j) == job[w] = j /\ pc[w] \in {"loaded", "starting", "running", "enqueue", "commit"}

(* A job queued for a retry always has a message on its way to a worker,   *)
(* across crashes before and after the commit and the acknowledgement.     *)
RetryHasMessage ==
  \A j \in Job :
    rows[j] # NoRow /\ rows[j].status = "queued" /\ rows[j].retry_count > 0 =>
      queue[j] > 0 \/ \E w \in Worker : owned[w] /\ InHand(w, j)

(* A committed job that is finished stays as it is. *)
FinishedStays ==
  [][\A j \in Job :
       rows[j] # NoRow /\ IsTerminal(rows[j]) => rows'[j] = rows[j]]_vars

(* The committed rows follow the ledger. *)
LedgerEntry(j) ==
  IF rows[j] = NoRow THEN NoRow
  ELSE [status |-> rows[j].status, retry_count |-> rows[j].retry_count]

ledgerOfRows == [j \in Job |-> LedgerEntry(j)]

Ledger ==
  INSTANCE JobLedger WITH
    Retryable <- {j \in Job : IsRegistered(j)},
    Absent    <- NoRow,
    ledger    <- ledgerOfRows

FollowsLedger == Ledger!LedgerSpec

(* With requests for a slot made one after the other, a slot never has two *)
(* active jobs (create_processing_job.py:3).                               *)
OneActivePerSlot ==
  \A s \in Slot : Cardinality(ActiveInSlot(s)) <= 1

(* If the worker stays up from some point on, every queued job that has a  *)
(* message is carried to its end, whatever was lost before.                *)
MessagedJobEnds ==
  (<>[](\A w \in Worker : pc[w] # "down")) =>
    \A j \in Job :
      (rows[j] # NoRow /\ rows[j].status = "queued" /\ queue[j] > 0)
        ~> (rows[j] # NoRow /\ IsTerminal(rows[j]))

-----------------------------------------------------------------------------
(* What the repository says and the code does not do *)

(* "Does NOT execute the job - a worker picks it up later"                 *)
(* (create_processing_job.py:3-4): a committed queued job is taken up.  It *)
(* is not when the worker meets the message before the request's commit.   *)
WorkerPicksUp ==
  \A j \in Job :
    (rows[j] # NoRow /\ rows[j].status = "queued")
      ~> (rows[j] # NoRow /\ rows[j].status # "queued")
=============================================================================
