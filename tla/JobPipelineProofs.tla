-------------------------- MODULE JobPipelineProofs --------------------------
(***************************************************************************)
(* Theorems about JobPipeline for every number of jobs, workers, retries,  *)
(* crashes and lost connections; at the end those that need the single     *)
(* worker process docker-compose.yml deploys.                              *)
(***************************************************************************)
EXTENDS JobPipeline, FiniteSetTheorems, TLAPS

(* What a transaction may commit as the row of j. *)
Committable(j, r) ==
  /\ r \in JobRecord
  /\ r.status \in {"queued", "completed", "failed"}
  /\ Consistent(r)
  /\ r.retry_count <= MaxRetries
  /\ r.status = "failed" =>
       r.retry_count = IF IsRegistered(j) THEN MaxRetries ELSE 0
  /\ ~IsRegistered(j) => r.retry_count = 0 /\ r.status \in {"queued", "failed"}

(* The entity of a job whose work is being done. *)
InRun(r) ==
  /\ r \in JobRecord
  /\ r.status = "running" /\ r.retry_count <= MaxRetries /\ r.progress = 0
  /\ r.worker_name = Some   /\ r.started_at = Some
  /\ r.error_message = None /\ r.finished_at = None

(* The entity of a job that no worker can run. *)
Refused(r) ==
  /\ r \in JobRecord
  /\ r.status = "failed" /\ r.retry_count = 0 /\ r.progress = 0
  /\ r.worker_name = None   /\ r.started_at = None
  /\ r.error_message = Some /\ r.finished_at = Some

Holding == {"loaded", "starting", "running", "enqueue", "commit", "ack"}

RowsInv ==
  \A j \in Job :
    /\ rows[j] # NoRow <=> req[j] = "done"
    /\ rows[j] # NoRow => Committable(j, rows[j])

HandsInv ==
  \A w \in Worker :
    /\ job[w] # NoJob <=> pc[w] \in Holding
    /\ owned[w] => job[w] # NoJob

LockInv ==
  \A v, w \in Worker, j \in Job : LocksRow(v, j) /\ LocksRow(w, j) => v = w

WorkerInv ==
  \A w \in Worker :
    /\ pc[w] \in Holding => rows[job[w]] # NoRow
    /\ pc[w] = "loaded" =>
         entity[w] # NoRow /\ Committable(job[w], entity[w]) /\ entity[w].status = "queued"
    /\ pc[w] = "starting" =>
         /\ base[w] # NoRow
         /\ Committable(job[w], base[w])
         /\ IF IsRegistered(job[w]) THEN InRun(entity[w])
            ELSE /\ Refused(entity[w])
                 /\ base[w].status = "failed" => rows[job[w]].status = "failed"
    /\ pc[w] = "running" => IsRegistered(job[w]) /\ InRun(entity[w])
    /\ pc[w] \in {"enqueue", "commit"} =>
         /\ Committable(job[w], txn[w])
         /\ ~IsRegistered(job[w]) => txn[w].status = "failed"

IInv == TypeOK /\ RowsInv /\ HandsInv /\ LockInv /\ WorkerInv

-----------------------------------------------------------------------------
(* The entity's methods keep these shapes. *)

LEMMA StatusFacts ==
  /\ {"queued", "running", "completed", "failed"} \subseteq Statuses
  /\ {"completed", "failed"} \subseteq TerminalStatuses
  /\ "queued" \notin TerminalStatuses /\ "running" \notin TerminalStatuses
BY DEF Statuses, ActiveStatuses, PhaseStatuses, TerminalStatuses

LEMMA NewJobCommittable ==
  ASSUME NEW j \in Job
  PROVE  Committable(j, NewJob)
BY RetriesAssumption, StatusFacts
   DEF Committable, NewJob, JobRecord, Consistent, IsFresh, IsTerminal, Optional, None, Some

LEMMA StartRuns ==
  ASSUME NEW j \in Job, NEW r, Committable(j, r), r.status = "queued"
  PROVE  InRun(Start(r))
BY StatusFacts
   DEF Committable, InRun, Start, JobRecord, Consistent, IsFresh, IsTerminal,
       Optional, None, Some

LEMMA FailRefuses ==
  ASSUME NEW j \in Job, NEW r, Committable(j, r), r.status = "queued", ~IsRegistered(j)
  PROVE  Refused(Fail(r))
BY StatusFacts
   DEF Committable, Refused, Fail, JobRecord, Consistent, IsFresh, IsTerminal,
       Optional, None, Some

LEMMA CompleteCommittable ==
  ASSUME NEW j \in Job, NEW r, InRun(r), IsRegistered(j)
  PROVE  Committable(j, Complete(r)) /\ Complete(r).status = "completed"
<1>0. Complete(r) \in JobRecord
  <2>1. /\ "completed" \in Statuses /\ 100 \in 0 .. 100
        /\ None \in Optional /\ Some \in Optional
    BY StatusFacts DEF Optional
  <2>2. r \in JobRecord
    BY DEF InRun
  <2>3. QED
    BY <2>1, <2>2 DEF Complete, JobRecord
<1>1. /\ Complete(r).status = "completed"
      /\ Complete(r).retry_count = r.retry_count
      /\ Complete(r).progress = 100
      /\ Complete(r).finished_at = Some /\ Complete(r).error_message = None
      /\ Complete(r).worker_name = Some /\ Complete(r).started_at = Some
  <2>1. r \in JobRecord /\ r.worker_name = Some /\ r.started_at = Some
    BY DEF InRun
  <2>2. QED
    BY <2>1 DEF Complete, JobRecord
<1>2. r.retry_count <= MaxRetries
  BY DEF InRun
<1>3. QED
  BY <1>0, <1>1, <1>2, StatusFacts DEF Committable, Consistent, IsTerminal, None, Some

LEMMA FailFields ==
  ASSUME NEW r, InRun(r)
  PROVE  /\ Fail(r) \in JobRecord
         /\ Fail(r).status = "failed"
         /\ Fail(r).retry_count = r.retry_count
         /\ r.retry_count \in Nat /\ r.retry_count <= MaxRetries
         /\ Fail(r).finished_at = Some /\ Fail(r).error_message = Some
         /\ Fail(r).worker_name = Some /\ Fail(r).started_at = Some
BY StatusFacts DEF InRun, Fail, JobRecord, Optional, None, Some

LEMMA RetryCommittable ==
  ASSUME NEW j \in Job, NEW r, InRun(r), IsRegistered(j), CanRetry(Fail(r), MaxRetries)
  PROVE  /\ Committable(j, Retry(Fail(r)))
         /\ Retry(Fail(r)).status = "queued"
         /\ Retry(Fail(r)).retry_count = r.retry_count + 1
         /\ r.retry_count < MaxRetries
<1> DEFINE f == Fail(r)
<1>1. /\ f \in JobRecord
      /\ f.retry_count = r.retry_count
      /\ r.retry_count \in Nat /\ r.retry_count < MaxRetries
  BY FailFields DEF CanRetry
<1> HIDE DEF f
<1>0. Retry(f) \in JobRecord
  <2>1. /\ "queued" \in Statuses /\ 0 \in 0 .. 100 /\ f.retry_count + 1 \in Nat
        /\ None \in Optional
    BY <1>1, StatusFacts DEF Optional
  <2>2. QED
    BY <1>1, <2>1 DEF Retry, JobRecord
<1>2. /\ Retry(f).retry_count = f.retry_count + 1
      /\ Retry(f).status = "queued"
      /\ Retry(f).progress = 0
      /\ Retry(f).finished_at = None /\ Retry(f).error_message = None
      /\ Retry(f).worker_name = None /\ Retry(f).started_at = None
  BY <1>1 DEF Retry, JobRecord
<1>3. Committable(j, Retry(f))
  BY <1>0, <1>1, <1>2, RetriesAssumption, StatusFacts
     DEF Committable, Consistent, IsFresh, IsTerminal, None, Some
<1>4. QED
  BY <1>1, <1>2, <1>3 DEF f

LEMMA FailCommittable ==
  ASSUME NEW j \in Job, NEW r, InRun(r), IsRegistered(j), ~CanRetry(Fail(r), MaxRetries)
  PROVE  /\ Committable(j, Fail(r))
         /\ Fail(r).status = "failed"
         /\ Fail(r).retry_count = MaxRetries
         /\ r.retry_count = MaxRetries
<1>1. r.retry_count = MaxRetries
  BY FailFields, RetriesAssumption DEF CanRetry
<1>2. QED
  BY <1>1, FailFields, StatusFacts, RetriesAssumption
     DEF Committable, Consistent, IsTerminal, None, Some

LEMMA MergedInJobRecord ==
  ASSUME NEW r, NEW e \in JobRecord, NEW cur \in JobRecord
  PROVE  Merged(r, e, cur) \in JobRecord
BY DEF Merged, Column, Timestamp, JobRecord, Optional

(* Whatever an unregistered job's UPDATE finds, the row it leaves is failed *)
(* and nothing else.                                                        *)
LEMMA MergedRefusal ==
  ASSUME NEW j \in Job, NEW r, NEW e, NEW cur,
         ~IsRegistered(j), Committable(j, r), Refused(e), Committable(j, cur),
         r.status = "failed" => cur.status = "failed"
  PROVE  Committable(j, Merged(r, e, cur)) /\ Merged(r, e, cur).status = "failed"
BY MergedInJobRecord, StatusFacts
   DEF Merged, Column, Timestamp, Committable, Refused, JobRecord, Consistent,
       IsFresh, IsTerminal, Optional, None, Some

-----------------------------------------------------------------------------
(* The inductive invariant. *)

LEMMA InitIInv == Init => IInv
BY NoRowAssumption, BoundsAssumption
   DEF Init, IInv, TypeOK, RowsInv, HandsInv, LockInv, WorkerInv, LocksRow, Holding,
       RequestStages, WorkerStages

(* A request touches no worker, and writes the row of its own new job only. *)
LEMMA RequestKeepsIInv ==
  ASSUME IInv, NEW j \in Job, RequestStep(j)
  PROVE  IInv'
<1> USE DEF IInv
<1>1. /\ UNCHANGED <<pc, job, owned, entity, base, txn, crashes, drops>>
      /\ queue' \in [Job -> Nat]
      /\ req' \in [Job -> RequestStages]
  BY DEF RequestStep, CreateJob, RejectJob, EnqueueJob, CommitRequest, AbortRequest,
         BeginRequest, SetRequest, Requeue, Open, TypeOK, RequestStages, workerVars, faultVars
<1>2. \/ /\ rows' = rows
         /\ \A k \in Job : req'[k] = "done" <=> req[k] = "done"
      \/ /\ rows[j] = NoRow
         /\ rows' = [rows EXCEPT ![j] = NewJob]
         /\ \A k \in Job : req'[k] = "done" <=> req[k] = "done" \/ k = j
  BY DEF RequestStep, CreateJob, RejectJob, EnqueueJob, CommitRequest, AbortRequest,
         BeginRequest, SetRequest, Requeue, Open, TypeOK, RowsInv
<1>3. Committable(j, NewJob) /\ NewJob \in JobRecord
  BY NewJobCommittable DEF Committable
<1>4. rows' \in [Job -> JobRecord \cup {NoRow}]
  BY <1>2, <1>3 DEF TypeOK
<1>5. \A k \in Job : rows[k] # NoRow => rows'[k] = rows[k]
  BY <1>2 DEF TypeOK
<1>6. TypeOK'
  BY <1>1, <1>4 DEF TypeOK
<1>7. RowsInv'
  BY <1>2, <1>3, NoRowAssumption DEF TypeOK, RowsInv, Committable
<1>8. HandsInv' /\ LockInv'
  BY <1>1 DEF HandsInv, LockInv, LocksRow
<1>9. WorkerInv'
  <2> SUFFICES ASSUME NEW w \in Worker PROVE WorkerInv!(w)'
    BY DEF WorkerInv
  <2>1. pc[w] \in Holding => job[w] \in Job /\ rows[job[w]] # NoRow
    BY DEF HandsInv, WorkerInv, TypeOK
  <2>2. pc[w] \in Holding => rows'[job[w]] = rows[job[w]]
    BY <2>1, <1>5
  <2>3. WorkerInv!(w)
    BY DEF WorkerInv
  <2>4. QED
    BY <1>1, <2>1, <2>2, <2>3 DEF Holding
<1>10. QED
  BY <1>6, <1>7, <1>8, <1>9

(* A step of worker w that commits nothing: the other workers' part of the *)
(* invariant is untouched, so what is left to show is w's own.             *)
LEMMA PrivateStep ==
  ASSUME IInv, TypeOK', NEW w \in Worker,
         UNCHANGED <<req, rows>>,
         \A v \in Worker \ {w} :
           /\ pc'[v] = pc[v] /\ job'[v] = job[v] /\ owned'[v] = owned[v]
           /\ entity'[v] = entity[v] /\ base'[v] = base[v] /\ txn'[v] = txn[v],
         job'[w] # NoJob <=> pc'[w] \in Holding,
         owned'[w] => job'[w] # NoJob,
         \A j \in Job : LocksRow(w, j)' =>
           LocksRow(w, j) \/ \A v \in Worker \ {w} : ~LocksRow(v, j),
         WorkerInv!(w)'
  PROVE  IInv'
<1> USE DEF IInv
<1>1. RowsInv'
  BY DEF RowsInv, Committable
<1>2. HandsInv'
  BY DEF HandsInv
<1>3. LockInv'
  BY DEF LockInv, LocksRow
<1>4. WorkerInv'
  <2> SUFFICES ASSUME NEW v \in Worker PROVE WorkerInv!(v)'
    BY DEF WorkerInv
  <2>1. CASE v = w
    BY <2>1
  <2>2. CASE v # w
    <3>1. WorkerInv!(v)
      BY DEF WorkerInv
    <3>2. QED
      BY <2>2, <3>1
  <2>3. QED
    BY <2>1, <2>2
<1>5. QED
  BY <1>1, <1>2, <1>3, <1>4

LEMMA ReceiveKeepsIInv ==
  ASSUME IInv, NEW w \in Worker, NEW j \in Job,
         DropUnknown(w, j) \/ SkipStarted(w, j) \/ LoadJob(w, j)
  PROVE  IInv'
<1> USE DEF IInv
<1>1. CASE DropUnknown(w, j) \/ SkipStarted(w, j)
  <2>1. UNCHANGED <<req, rows, pc, job, owned, entity, base, txn, crashes, drops>>
    BY <1>1 DEF DropUnknown, SkipStarted, requestVars, workerVars, faultVars
  <2>2. TypeOK'
    BY <1>1, <2>1 DEF DropUnknown, SkipStarted, CanReceive, Consume, TypeOK
  <2>3. QED
    BY <2>1, <2>2 DEF RowsInv, HandsInv, LockInv, LocksRow, WorkerInv
<1>2. CASE LoadJob(w, j)
  <2>1. /\ TypeOK'
        /\ pc'[w] = "loaded" /\ job'[w] = j /\ entity'[w] = rows[j]
        /\ rows[j] # NoRow /\ rows[j].status = "queued"
        /\ rows' = rows /\ req' = req
    BY <1>2 DEF LoadJob, CanReceive, Consume, Goto, TypeOK, WorkerStages,
                requestVars, workerVars, faultVars
  <2>2. WorkerInv!(w)'
    BY <2>1 DEF RowsInv, Holding
  <2>3. \A v \in Worker \ {w} :
           /\ pc'[v] = pc[v] /\ job'[v] = job[v] /\ owned'[v] = owned[v]
           /\ entity'[v] = entity[v] /\ base'[v] = base[v] /\ txn'[v] = txn[v]
    BY <1>2 DEF LoadJob, Goto, TypeOK
  <2>4. \A k \in Job : ~LocksRow(w, k)'
    BY <2>1 DEF LocksRow
  <2>5. QED
    BY <2>1, <2>2, <2>3, <2>4, PrivateStep, NoJobAssumption DEF Holding
<1>3. QED
  BY <1>1, <1>2

LEMMA BeginKeepsIInv ==
  ASSUME IInv, NEW w \in Worker, StartJob(w) \/ FailUnregistered(w)
  PROVE  IInv'
<1> USE DEF IInv
<1>1. /\ pc[w] = "loaded" /\ job[w] \in Job /\ rows[job[w]] # NoRow
      /\ Committable(job[w], entity[w]) /\ entity[w].status = "queued"
      /\ Committable(job[w], rows[job[w]])
  BY DEF StartJob, FailUnregistered, HandsInv, WorkerInv, RowsInv, TypeOK, Holding
<1>2. /\ pc'[w] = "starting" /\ job' = job /\ owned' = owned /\ txn' = txn
      /\ rows' = rows /\ req' = req /\ base'[w] = rows[job[w]]
      /\ base' \in [Worker -> JobRecord \cup {NoRow}]
      /\ pc' \in [Worker -> WorkerStages]
  BY <1>1 DEF StartJob, FailUnregistered, ReadRow, Goto, TypeOK, WorkerStages, requestVars
<1>3. IF IsRegistered(job[w]) THEN InRun(entity'[w]) ELSE Refused(entity'[w])
  BY <1>1, StartRuns, FailRefuses DEF StartJob, FailUnregistered, TypeOK
<1>4. TypeOK'
  <2>1. entity'[w] \in JobRecord
    BY <1>3 DEF InRun, Refused
  <2>2. entity' \in [Worker -> JobRecord \cup {NoRow}]
    BY <2>1 DEF StartJob, FailUnregistered, TypeOK
  <2>3. QED
    BY <1>2, <2>2 DEF StartJob, FailUnregistered, TypeOK, faultVars
<1>5. \A v \in Worker \ {w} :
        /\ pc'[v] = pc[v] /\ job'[v] = job[v] /\ owned'[v] = owned[v]
        /\ entity'[v] = entity[v] /\ base'[v] = base[v] /\ txn'[v] = txn[v]
  BY <1>2 DEF StartJob, FailUnregistered, ReadRow, Goto, TypeOK
<1>6. WorkerInv!(w)'
  BY <1>1, <1>2, <1>3 DEF Holding, Refused
<1>7. \A j \in Job : ~LocksRow(w, j)'
  BY <1>2 DEF LocksRow
<1>8. QED
  BY <1>1, <1>2, <1>4, <1>5, <1>6, <1>7, PrivateStep DEF HandsInv, Holding

LEMMA FlushKeepsIInv ==
  ASSUME IInv, NEW w \in Worker, Flush(w)
  PROVE  IInv'
<1> USE DEF IInv
<1> DEFINE j == job[w]
           m == Merged(base[w], entity[w], rows[job[w]])
<1>1. /\ pc[w] = "starting" /\ j \in Job /\ rows[j] # NoRow
      /\ Committable(j, rows[j]) /\ Committable(j, base[w])
      /\ IF IsRegistered(j) THEN InRun(entity[w])
         ELSE /\ Refused(entity[w])
              /\ base[w].status = "failed" => rows[j].status = "failed"
  BY DEF Flush, HandsInv, WorkerInv, RowsInv, TypeOK, Holding
<1>2. /\ m \in JobRecord
      /\ ~IsRegistered(j) => Committable(j, m) /\ m.status = "failed"
  BY <1>1, MergedInJobRecord, MergedRefusal DEF InRun, Refused, Committable
<1>3. pc'[w] = IF IsRegistered(j) THEN "running" ELSE "commit"
  BY <1>1 DEF Flush, Goto, InRun, Refused, TypeOK
<1> HIDE DEF m
<1>4. /\ job' = job /\ owned' = owned /\ entity' = entity /\ base' = base
      /\ rows' = rows /\ req' = req /\ txn'[w] = m
      /\ pc' \in [Worker -> WorkerStages]
  BY DEF Flush, Goto, TypeOK, WorkerStages, requestVars, m
<1>5. TypeOK'
  BY <1>2, <1>4 DEF Flush, TypeOK, faultVars, m
<1>6. \A v \in Worker \ {w} :
        /\ pc'[v] = pc[v] /\ job'[v] = job[v] /\ owned'[v] = owned[v]
        /\ entity'[v] = entity[v] /\ base'[v] = base[v] /\ txn'[v] = txn[v]
  BY <1>4 DEF Flush, Goto, TypeOK
<1>7. WorkerInv!(w)'
  BY <1>1, <1>2, <1>3, <1>4 DEF Holding
<1>8. \A k \in Job : LocksRow(w, k)' => \A v \in Worker : ~LocksRow(v, k)
  BY <1>4 DEF Flush, LocksRow
<1>9. QED
  BY <1>1, <1>3, <1>4, <1>5, <1>6, <1>7, <1>8, PrivateStep DEF HandsInv, Holding

LEMMA RunKeepsIInv ==
  ASSUME IInv, NEW w \in Worker,
         RunSucceeds(w) \/ RunFailsRetry(w) \/ RunFailsFinally(w)
  PROVE  IInv'
<1> USE DEF IInv
<1>1. /\ pc[w] = "running" /\ job[w] \in Job /\ rows[job[w]] # NoRow
      /\ IsRegistered(job[w]) /\ InRun(entity[w])
  BY DEF RunSucceeds, RunFailsRetry, RunFailsFinally, HandsInv, WorkerInv, TypeOK, Holding
<1>2. PICK e : /\ FlushAgain(w, e) /\ Committable(job[w], e)
               /\ pc' = [pc EXCEPT ![w] = "enqueue"] \/ pc' = [pc EXCEPT ![w] = "commit"]
  BY <1>1, CompleteCommittable, RetryCommittable, FailCommittable
     DEF RunSucceeds, RunFailsRetry, RunFailsFinally, Goto
<1>3. UNCHANGED <<req, rows, queue, job, owned, base, crashes, drops>>
  BY DEF RunSucceeds, RunFailsRetry, RunFailsFinally, requestVars, faultVars
<1>4. /\ TypeOK' /\ txn'[w] = e /\ pc'[w] \in {"enqueue", "commit"}
  BY <1>2, <1>3 DEF FlushAgain, TypeOK, WorkerStages, Committable
<1>5. \A v \in Worker \ {w} :
        /\ pc'[v] = pc[v] /\ job'[v] = job[v] /\ owned'[v] = owned[v]
        /\ entity'[v] = entity[v] /\ base'[v] = base[v] /\ txn'[v] = txn[v]
  BY <1>2, <1>3 DEF FlushAgain, TypeOK
<1>6. WorkerInv!(w)'
  BY <1>1, <1>2, <1>3, <1>4 DEF Holding
<1>7. \A k \in Job : LocksRow(w, k)' => LocksRow(w, k)
  BY <1>1, <1>3 DEF LocksRow
<1>8. QED
  BY <1>1, <1>3, <1>4, <1>5, <1>6, <1>7, PrivateStep DEF HandsInv, Holding

LEMMA EnqueueRetryKeepsIInv ==
  ASSUME IInv, NEW w \in Worker, EnqueueRetry(w)
  PROVE  IInv'
<1> USE DEF IInv
<1>1. /\ pc[w] = "enqueue" /\ pc' = [pc EXCEPT ![w] = "commit"] /\ job[w] \in Job
      /\ UNCHANGED <<req, rows, job, owned, entity, base, txn, crashes, drops>>
      /\ queue' = [queue EXCEPT ![job[w]] = @ + 1]
  BY DEF EnqueueRetry, Goto, Requeue, HandsInv, TypeOK, Holding, requestVars, faultVars
<1>2. TypeOK'
  BY <1>1 DEF TypeOK, WorkerStages
<1>3. WorkerInv!(w)'
  BY <1>1 DEF WorkerInv, TypeOK, Holding
<1>4. \A v \in Worker \ {w} :
        /\ pc'[v] = pc[v] /\ job'[v] = job[v] /\ owned'[v] = owned[v]
        /\ entity'[v] = entity[v] /\ base'[v] = base[v] /\ txn'[v] = txn[v]
  BY <1>1 DEF TypeOK
<1>5. \A k \in Job : LocksRow(w, k)' => LocksRow(w, k)
  BY <1>1 DEF LocksRow
<1>6. pc'[w] = "commit"
  BY <1>1 DEF TypeOK
<1>7. QED
  BY <1>1, <1>2, <1>3, <1>4, <1>5, <1>6, PrivateStep DEF HandsInv, Holding

(* A commit writes the row of the job whose lock it holds.  Another worker *)
(* may hold the same job before its flush; it keeps what the invariant     *)
(* says of it, since an unregistered job's commit leaves the row failed.   *)
LEMMA CommitKeepsIInv ==
  ASSUME IInv, NEW w \in Worker, Commit(w)
  PROVE  IInv'
<1> USE DEF IInv
<1>1. /\ pc[w] = "commit" /\ job[w] \in Job /\ rows[job[w]] # NoRow
      /\ Committable(job[w], txn[w])
      /\ ~IsRegistered(job[w]) => txn[w].status = "failed"
  BY DEF Commit, HandsInv, WorkerInv, TypeOK, Holding
<1>2. txn[w] \in JobRecord /\ txn[w] # NoRow
  BY <1>1, NoRowAssumption DEF Committable
<1>3. /\ rows' = [rows EXCEPT ![job[w]] = txn[w]]
      /\ pc' = [pc EXCEPT ![w] = "ack"]
      /\ UNCHANGED <<req, queue, job, owned, crashes, drops>>
      /\ entity' = [entity EXCEPT ![w] = NoRow]
      /\ base' = [base EXCEPT ![w] = NoRow]
      /\ txn' = [txn EXCEPT ![w] = NoRow]
  BY DEF Commit, Goto, requestVars, faultVars
<1>4. TypeOK'
  BY <1>2, <1>3 DEF TypeOK, WorkerStages
<1>5. RowsInv'
  BY <1>1, <1>2, <1>3 DEF RowsInv, TypeOK
<1>6. HandsInv' /\ LockInv'
  BY <1>1, <1>3 DEF HandsInv, LockInv, LocksRow, Holding, TypeOK
<1>7. WorkerInv'
  <2> SUFFICES ASSUME NEW v \in Worker PROVE WorkerInv!(v)'
    BY DEF WorkerInv
  <2>1. \A j \in Job : rows[j] # NoRow => rows'[j] # NoRow
    BY <1>2, <1>3 DEF TypeOK
  <2>2. CASE v = w
    BY <1>1, <1>3, <2>1, <2>2 DEF TypeOK, Holding
  <2>3. CASE v # w
    <3>1. /\ pc'[v] = pc[v] /\ job'[v] = job[v]
          /\ entity'[v] = entity[v] /\ base'[v] = base[v] /\ txn'[v] = txn[v]
      BY <1>3, <2>3 DEF TypeOK
    <3>2. pc[v] \in Holding => job[v] \in Job
      BY DEF HandsInv, TypeOK
    <3>3. WorkerInv!(v)
      BY DEF WorkerInv
    <3>4. \A j \in Job : ~IsRegistered(j) /\ rows[j].status = "failed"
                           => rows'[j].status = "failed"
      BY <1>1, <1>3 DEF TypeOK
    <3>5. QED
      BY <2>1, <3>1, <3>2, <3>3, <3>4 DEF Holding
  <2>4. QED
    BY <2>2, <2>3
<1>8. QED
  BY <1>4, <1>5, <1>6, <1>7

LEMMA EndKeepsIInv ==
  ASSUME IInv, NEW w \in Worker, Ack(w) \/ Crash(w) \/ BrokerDrop(w) \/ Restart(w)
  PROVE  IInv'
<1> USE DEF IInv
<1>1. UNCHANGED <<req, rows>>
  BY DEF Ack, Crash, BrokerDrop, Restart, requestVars
<1>2. TypeOK'
  <2>1. owned[w] => job[w] \in Job
    BY DEF HandsInv, TypeOK
  <2>2. CASE Ack(w) \/ Restart(w)
    BY <2>2 DEF Ack, Restart, Goto, TypeOK, WorkerStages, requestVars, faultVars
  <2>3. CASE Crash(w)
    BY <2>1, <2>3, BoundsAssumption
       DEF Crash, Goto, Requeue, TypeOK, WorkerStages, requestVars
  <2>4. CASE BrokerDrop(w)
    BY <2>1, <2>4, BoundsAssumption DEF BrokerDrop, Requeue, TypeOK, requestVars
  <2>5. QED
    BY <2>2, <2>3, <2>4
<1>3. \A v \in Worker \ {w} :
        /\ pc'[v] = pc[v] /\ job'[v] = job[v] /\ owned'[v] = owned[v]
        /\ entity'[v] = entity[v] /\ base'[v] = base[v] /\ txn'[v] = txn[v]
  BY DEF Ack, Crash, BrokerDrop, Restart, Goto, TypeOK
<1>4. \/ pc'[w] \in {"idle", "down"} /\ job'[w] = NoJob /\ ~owned'[w]
      \/ UNCHANGED <<pc, job, entity, base, txn>> /\ ~owned'[w]
  BY DEF Ack, Crash, BrokerDrop, Restart, Goto, TypeOK, HandsInv, Holding
<1>5. WorkerInv!(w)'
  BY <1>1, <1>4 DEF WorkerInv, Holding
<1>6. \A k \in Job : LocksRow(w, k)' => LocksRow(w, k)
  BY <1>4 DEF LocksRow
<1>7. QED
  BY <1>1, <1>2, <1>3, <1>4, <1>5, <1>6, PrivateStep DEF HandsInv, Holding

LEMMA NextIInv == IInv /\ [Next]_vars => IInv'
<1> SUFFICES ASSUME IInv, [Next]_vars PROVE IInv'
  OBVIOUS
<1>1. CASE Next
  BY <1>1, RequestKeepsIInv, ReceiveKeepsIInv, BeginKeepsIInv, FlushKeepsIInv,
     RunKeepsIInv, EnqueueRetryKeepsIInv, CommitKeepsIInv, EndKeepsIInv
     DEF Next, WorkerStep
<1>2. CASE UNCHANGED vars
  BY <1>2 DEF vars, IInv, TypeOK, RowsInv, HandsInv, LockInv, LocksRow, WorkerInv
<1>3. QED
  BY <1>1, <1>2

THEOREM Invariance == Spec => []IInv
BY InitIInv, NextIInv, PTL DEF Spec

-----------------------------------------------------------------------------
(* What follows for any number of workers. *)

(* Every variable keeps its type. *)
THEOREM TypeCorrect == Spec => []TypeOK
BY Invariance, PTL DEF IInv

(* The work of a job is never done twice at the same time. *)
THEOREM ExclusiveRuns == Spec => []RunExclusive
<1>1. IInv => RunExclusive
  BY DEF IInv, HandsInv, LockInv, LocksRow, RunExclusive, TypeOK, Holding
<1>2. QED
  BY <1>1, Invariance, PTL

(* No committed row shows a job in the middle of a run. *)
THEOREM NeverStranded == Spec => []NothingStranded
<1>1. IInv => NothingStranded
  BY DEF IInv, RowsInv, Committable, NothingStranded
<1>2. QED
  BY <1>1, Invariance, PTL

(* The columns of a committed row belong together. *)
THEOREM ConsistentRows == Spec => []RowsConsistent
<1>1. IInv => RowsConsistent
  BY DEF IInv, RowsInv, Committable, RowsConsistent
<1>2. QED
  BY <1>1, Invariance, PTL

(* A committed row is within the retry budget, and failed only at its end. *)
THEOREM WithinBudget == Spec => []RetryBudget
<1>1. IInv => RetryBudget
  BY DEF IInv, RowsInv, Committable, RetryBudget
<1>2. QED
  BY <1>1, Invariance, PTL

-----------------------------------------------------------------------------
(* A single worker *)

OneWorker == \A v, w \in Worker : v = w

(* What a transaction may turn a queued row into, as the ledger sees it. *)
Successor(j, r, t) ==
  \/ IsRegistered(j) /\ t.status = "completed" /\ t.retry_count = r.retry_count
  \/ /\ IsRegistered(j) /\ t.status = "queued"
     /\ r.retry_count < MaxRetries /\ t.retry_count = r.retry_count + 1
  \/ /\ IsRegistered(j) /\ t.status = "failed"
     /\ r.retry_count = MaxRetries /\ t.retry_count = MaxRetries
  \/ ~IsRegistered(j) /\ t.status = "failed" /\ t.retry_count = 0

(* Between reading a job and committing it, its row is as it was read. *)
Undisturbed(w) ==
  /\ InHand(w, job[w]) => rows[job[w]].status = "queued"
  /\ pc[w] \in {"loaded", "starting", "running"} =>
       entity[w].retry_count = rows[job[w]].retry_count
  /\ pc[w] \in {"enqueue", "commit"} => Successor(job[w], rows[job[w]], txn[w])
  /\ pc[w] = "commit" /\ txn[w].status = "queued" => queue[job[w]] > 0

SoloInv == \A w \in Worker : Undisturbed(w)

LInv == IInv /\ SoloInv /\ RetryHasMessage

-----------------------------------------------------------------------------

LEMMA InitLInv == Init => LInv
BY InitIInv DEF Init, LInv, SoloInv, Undisturbed, InHand, RetryHasMessage

(* A request only adds a job that no worker holds, and messages. *)
LEMMA RequestKeepsLInv ==
  ASSUME LInv, NEW j \in Job, RequestStep(j)
  PROVE  SoloInv' /\ RetryHasMessage'
<1> USE DEF LInv, IInv
<1>1. UNCHANGED <<pc, job, owned, entity, base, txn>>
  BY DEF RequestStep, CreateJob, RejectJob, EnqueueJob, CommitRequest, AbortRequest, workerVars
<1>2. \A k \in Job : queue[k] > 0 => queue'[k] > 0
  <2>1. queue' = queue \/ queue' = [queue EXCEPT ![j] = @ + 1]
    BY DEF RequestStep, CreateJob, RejectJob, EnqueueJob, CommitRequest, AbortRequest, Requeue
  <2>2. queue \in [Job -> Nat]
    BY DEF TypeOK
  <2>3. QED
    BY <2>1, <2>2
<1>3. \A k \in Job : rows'[k] = rows[k] \/ (rows[k] = NoRow /\ rows'[k] = NewJob)
  BY DEF RequestStep, CreateJob, RejectJob, EnqueueJob, CommitRequest, AbortRequest,
         TypeOK, RowsInv
<1>4. SoloInv'
  <2> SUFFICES ASSUME NEW w \in Worker PROVE Undisturbed(w)'
    BY DEF SoloInv
  <2>1. pc[w] \in Holding => /\ job[w] \in Job /\ rows'[job[w]] = rows[job[w]]
    BY <1>3 DEF HandsInv, WorkerInv, TypeOK
  <2>2. CASE pc[w] \in Holding
    <3>1. queue[job[w]] > 0 => queue'[job[w]] > 0
      BY <1>2, <2>1, <2>2
    <3>2. Undisturbed(w)
      BY DEF SoloInv
    <3>3. QED
      BY <1>1, <2>1, <2>2, <3>1, <3>2 DEF Undisturbed, InHand, Successor
  <2>3. CASE pc[w] \notin Holding
    BY <1>1, <2>3 DEF Undisturbed, InHand, Holding
  <2>4. QED
    BY <2>2, <2>3
<1>5. RetryHasMessage'
  <2> SUFFICES ASSUME NEW k \in Job, rows'[k] # NoRow,
                      rows'[k].status = "queued", rows'[k].retry_count > 0
               PROVE  queue'[k] > 0 \/ \E w \in Worker : owned[w] /\ InHand(w, k)
    BY <1>1 DEF RetryHasMessage, InHand
  <2>1. rows'[k] = rows[k]
    BY <1>3 DEF NewJob
  <2>2. queue[k] > 0 \/ \E w \in Worker : owned[w] /\ InHand(w, k)
    BY <2>1 DEF RetryHasMessage
  <2>3. QED
    BY <1>2, <2>2
<1>6. QED
  BY <1>4, <1>5

LEMMA ReceiveKeepsLInv ==
  ASSUME OneWorker, LInv, NEW w \in Worker, NEW j \in Job,
         DropUnknown(w, j) \/ SkipStarted(w, j) \/ LoadJob(w, j)
  PROVE  SoloInv' /\ RetryHasMessage'
<1> USE DEF LInv, IInv
<1>1. pc[w] = "idle" /\ \A v \in Worker : v = w
  BY DEF DropUnknown, SkipStarted, LoadJob, CanReceive, OneWorker
<1>2. rows' = rows /\ \A k \in Job \ {j} : queue'[k] = queue[k]
  BY DEF DropUnknown, SkipStarted, LoadJob, Consume, TypeOK
<1>3. \A k \in Job : rows[k] # NoRow /\ rows[k].status = "queued" /\ rows[k].retry_count > 0
        => queue[k] > 0
  BY <1>1 DEF RetryHasMessage, InHand
<1>4. CASE DropUnknown(w, j) \/ SkipStarted(w, j)
  <2>1. UNCHANGED <<pc, job, owned, entity, base, txn>>
    BY <1>4 DEF DropUnknown, SkipStarted, workerVars
  <2>2. SoloInv'
    BY <1>1, <2>1 DEF SoloInv, Undisturbed, InHand
  <2>3. ~(rows[j] # NoRow /\ rows[j].status = "queued")
    BY <1>4 DEF DropUnknown, SkipStarted
  <2>4. RetryHasMessage'
    BY <1>2, <1>3, <2>3 DEF RetryHasMessage
  <2>5. QED
    BY <2>2, <2>4
<1>5. CASE LoadJob(w, j)
  <2>1. /\ pc'[w] = "loaded" /\ job'[w] = j /\ owned'[w] = TRUE /\ entity'[w] = rows[j]
        /\ rows[j].status = "queued"
    BY <1>5 DEF LoadJob, Goto, TypeOK
  <2>2. SoloInv'
    BY <1>1, <1>2, <2>1 DEF SoloInv, Undisturbed, InHand
  <2>3. owned'[w] /\ InHand(w, j)'
    BY <2>1 DEF InHand
  <2>4. RetryHasMessage'
    BY <1>2, <1>3, <2>3 DEF RetryHasMessage
  <2>5. QED
    BY <2>2, <2>4
<1>6. QED
  BY <1>4, <1>5

(* From reading the row to the last flush, the worker's own job stays in   *)
(* its hand and nothing is taken from the queue.                           *)
LEMMA ExecuteKeepsLInv ==
  ASSUME OneWorker, LInv, IInv', NEW w \in Worker,
         \/ StartJob(w) \/ FailUnregistered(w) \/ Flush(w)
         \/ RunSucceeds(w) \/ RunFailsRetry(w) \/ RunFailsFinally(w) \/ EnqueueRetry(w)
  PROVE  SoloInv' /\ RetryHasMessage'
<1> USE DEF LInv, IInv
<1>1. /\ pc[w] \in {"loaded", "starting", "running", "enqueue"}
      /\ job[w] \in Job /\ rows[job[w]] # NoRow
      /\ \A v \in Worker : v = w
  BY DEF StartJob, FailUnregistered, Flush, RunSucceeds, RunFailsRetry, RunFailsFinally,
         EnqueueRetry, HandsInv, WorkerInv, TypeOK, Holding, OneWorker
<1>2. /\ rows' = rows /\ job' = job /\ owned' = owned
      /\ \A k \in Job : queue[k] > 0 => queue'[k] > 0
  BY <1>1 DEF StartJob, FailUnregistered, Flush, RunSucceeds, RunFailsRetry, RunFailsFinally,
              EnqueueRetry, Requeue, TypeOK
<1>3. pc'[w] \in {"starting", "running", "enqueue", "commit"}
  BY DEF StartJob, FailUnregistered, Flush, RunSucceeds, RunFailsRetry, RunFailsFinally,
         EnqueueRetry, Goto, TypeOK
<1>4. Undisturbed(w) /\ WorkerInv!(w)
  BY DEF SoloInv, WorkerInv
<1>5. Undisturbed(w)'
  <2>1. CASE StartJob(w) \/ FailUnregistered(w)
    <3>1. /\ pc[w] = "loaded" /\ pc'[w] = "starting"
          /\ entity'[w] = Start(entity[w]) \/ entity'[w] = Fail(entity[w])
      BY <2>1 DEF StartJob, FailUnregistered, Goto, TypeOK
    <3>2. entity'[w].retry_count = entity[w].retry_count
      BY <1>4, <3>1 DEF Start, Fail, Committable, JobRecord
    <3>3. QED
      BY <1>1, <1>2, <1>4, <3>1, <3>2 DEF Undisturbed, InHand
  <2>2. CASE Flush(w)
    <3>1. /\ pc[w] = "starting" /\ entity' = entity
          /\ pc'[w] = IF entity[w].status = "running" THEN "running" ELSE "commit"
      BY <2>2 DEF Flush, Goto, TypeOK
    <3>2. CASE IsRegistered(job[w])
      BY <1>1, <1>2, <1>4, <3>1, <3>2 DEF Undisturbed, InHand, InRun
    <3>3. CASE ~IsRegistered(job[w])
      <4>1. pc'[w] = "commit"
        BY <1>4, <3>1, <3>3 DEF Refused
      <4>2. txn'[w].status = "failed" /\ txn'[w].retry_count = 0
        BY <1>2, <3>3, <4>1 DEF WorkerInv, Committable
      <4>3. QED
        BY <1>1, <1>2, <1>4, <3>1, <3>3, <4>1, <4>2 DEF Undisturbed, InHand, Successor
    <3>4. QED
      BY <3>2, <3>3
  <2>3. CASE RunSucceeds(w) \/ RunFailsRetry(w) \/ RunFailsFinally(w)
    <3>1. /\ pc[w] = "running" /\ IsRegistered(job[w]) /\ InRun(entity[w])
          /\ entity[w].retry_count = rows[job[w]].retry_count
          /\ rows[job[w]].status = "queued"
      BY <1>4, <2>3 DEF RunSucceeds, RunFailsRetry, RunFailsFinally, Undisturbed, InHand
    <3>2. Successor(job[w], rows[job[w]], txn'[w])
      <4>1. CASE RunSucceeds(w)
        <5>1. txn'[w] = Complete(entity[w])
          BY <4>1 DEF RunSucceeds, FlushAgain, TypeOK
        <5>2. /\ Complete(entity[w]).status = "completed"
              /\ Complete(entity[w]).retry_count = entity[w].retry_count
          BY <3>1 DEF Complete, InRun, JobRecord
        <5>3. QED
          BY <3>1, <5>1, <5>2 DEF Successor
      <4>2. CASE RunFailsRetry(w)
        <5>1. /\ txn'[w] = Retry(Fail(entity[w]))
              /\ CanRetry(Fail(entity[w]), MaxRetries)
          BY <4>2 DEF RunFailsRetry, FlushAgain, TypeOK
        <5>2. QED
          BY <1>1, <3>1, <5>1, RetryCommittable DEF Successor
      <4>3. CASE RunFailsFinally(w)
        <5>1. /\ txn'[w] = Fail(entity[w])
              /\ ~CanRetry(Fail(entity[w]), MaxRetries)
          BY <4>3 DEF RunFailsFinally, FlushAgain, TypeOK
        <5>2. QED
          BY <1>1, <3>1, <5>1, FailCommittable DEF Successor
      <4>4. QED
        BY <2>3, <4>1, <4>2, <4>3
    <3>3. pc'[w] \in {"enqueue", "commit"}
      BY <2>3 DEF RunSucceeds, RunFailsRetry, RunFailsFinally, Goto, TypeOK
    <3>4. pc'[w] = "commit" => txn'[w].status # "queued"
      <4>1. CASE RunSucceeds(w)
        BY <3>1, <4>1 DEF RunSucceeds, FlushAgain, Complete, InRun, JobRecord, TypeOK
      <4>2. CASE RunFailsRetry(w)
        BY <4>2 DEF RunFailsRetry, Goto, TypeOK
      <4>3. CASE RunFailsFinally(w)
        BY <3>1, <4>3, FailFields DEF RunFailsFinally, FlushAgain, TypeOK
      <4>4. QED
        BY <2>3, <4>1, <4>2, <4>3
    <3>5. QED
      BY <1>2, <3>1, <3>2, <3>3, <3>4 DEF Undisturbed, InHand, Successor
  <2>4. CASE EnqueueRetry(w)
    <3>1. /\ pc[w] = "enqueue" /\ pc'[w] = "commit" /\ txn' = txn
          /\ queue'[job[w]] = queue[job[w]] + 1
      BY <1>1, <2>4 DEF EnqueueRetry, Goto, Requeue, TypeOK
    <3>2. queue'[job[w]] > 0
      BY <1>1, <3>1 DEF TypeOK
    <3>3. QED
      BY <1>2, <1>4, <3>1, <3>2 DEF Undisturbed, InHand, Successor
  <2>5. QED
    BY <2>1, <2>2, <2>3, <2>4
<1>6. SoloInv'
  BY <1>1, <1>5 DEF SoloInv
<1>7. RetryHasMessage'
  <2> SUFFICES ASSUME NEW k \in Job, rows[k] # NoRow,
                      rows[k].status = "queued", rows[k].retry_count > 0
               PROVE  queue'[k] > 0 \/ (owned[w] /\ InHand(w, k)')
    BY <1>2 DEF RetryHasMessage
  <2>1. queue[k] > 0 \/ (owned[w] /\ InHand(w, k))
    BY <1>1, <1>2 DEF RetryHasMessage, InHand
  <2>2. InHand(w, k) => InHand(w, k)'
    BY <1>2, <1>3 DEF InHand
  <2>3. QED
    BY <1>2, <2>1, <2>2
<1>8. QED
  BY <1>6, <1>7

(* The commit of a retry comes after its message was published. *)
LEMMA CommitKeepsLInv ==
  ASSUME OneWorker, LInv, NEW w \in Worker, Commit(w)
  PROVE  SoloInv' /\ RetryHasMessage'
<1> USE DEF LInv, IInv
<1>1. /\ pc[w] = "commit" /\ job[w] \in Job
      /\ pc'[w] = "ack" /\ queue' = queue
      /\ rows' = [rows EXCEPT ![job[w]] = txn[w]]
      /\ \A v \in Worker : v = w
  BY DEF Commit, Goto, HandsInv, TypeOK, Holding, OneWorker
<1>2. SoloInv'
  BY <1>1 DEF SoloInv, Undisturbed, InHand
<1>3. RetryHasMessage'
  <2> SUFFICES ASSUME NEW k \in Job, rows'[k] # NoRow,
                      rows'[k].status = "queued", rows'[k].retry_count > 0
               PROVE  queue'[k] > 0
    BY DEF RetryHasMessage
  <2>1. CASE k = job[w]
    <3>1. txn[w].status = "queued"
      BY <1>1, <2>1 DEF TypeOK
    <3>2. QED
      BY <1>1, <2>1, <3>1 DEF SoloInv, Undisturbed
  <2>2. CASE k # job[w]
    <3>1. rows'[k] = rows[k]
      BY <1>1, <2>2 DEF TypeOK
    <3>2. \A v \in Worker : ~InHand(v, k)
      BY <1>1, <2>2 DEF InHand
    <3>3. QED
      BY <1>1, <3>1, <3>2 DEF RetryHasMessage
  <2>3. QED
    BY <2>1, <2>2
<1>4. QED
  BY <1>2, <1>3

(* A message leaves a worker's hand for good only after the commit; in     *)
(* every other case it is put back.                                        *)
LEMMA EndKeepsLInv ==
  ASSUME OneWorker, LInv, NEW w \in Worker,
         Ack(w) \/ Crash(w) \/ BrokerDrop(w) \/ Restart(w)
  PROVE  SoloInv' /\ RetryHasMessage'
<1> USE DEF LInv, IInv
<1>1. rows' = rows /\ \A v \in Worker : v = w
  BY DEF Ack, Crash, BrokerDrop, Restart, OneWorker
<1>2. \A k \in Job : queue[k] > 0 => queue'[k] > 0
  <2>1. queue' = queue \/ queue' = [queue EXCEPT ![job[w]] = @ + 1]
    BY DEF Ack, Crash, BrokerDrop, Restart, Requeue
  <2>2. queue \in [Job -> Nat]
    BY DEF TypeOK
  <2>3. QED
    BY <2>1, <2>2
<1>3. \A k \in Job : owned[w] /\ InHand(w, k) =>
        queue'[k] > 0 \/ (owned'[w] /\ InHand(w, k)')
  <2> SUFFICES ASSUME NEW k \in Job, owned[w], InHand(w, k)
               PROVE  queue'[k] > 0 \/ (owned'[w] /\ InHand(w, k)')
    OBVIOUS
  <2>1. job[w] = k /\ pc[w] # "ack" /\ pc[w] # "down" /\ queue[k] \in Nat
    BY DEF InHand, TypeOK
  <2>2. queue' = [queue EXCEPT ![k] = @ + 1]
    BY <2>1 DEF Ack, Crash, BrokerDrop, Restart, Requeue
  <2>3. queue'[k] = queue[k] + 1
    BY <2>2 DEF TypeOK
  <2>4. QED
    BY <2>1, <2>3
<1>4. \/ pc'[w] \in {"idle", "down"}
      \/ UNCHANGED <<pc, job, entity, base, txn>>
  BY DEF Ack, Crash, BrokerDrop, Restart, Goto, TypeOK
<1>5. Undisturbed(w)'
  <2>1. CASE pc'[w] \in {"idle", "down"}
    BY <2>1 DEF Undisturbed, InHand
  <2>2. CASE UNCHANGED <<pc, job, entity, base, txn>>
    <3>1. Undisturbed(w)
      BY DEF SoloInv
    <3>2. pc[w] = "commit" => job[w] \in Job
      BY DEF HandsInv, TypeOK, Holding
    <3>3. QED
      BY <1>1, <1>2, <2>2, <3>1, <3>2 DEF Undisturbed, InHand, Successor
  <2>3. QED
    BY <1>4, <2>1, <2>2
<1>6. SoloInv'
  BY <1>1, <1>5 DEF SoloInv
<1>7. RetryHasMessage'
  <2> SUFFICES ASSUME NEW k \in Job, rows[k] # NoRow,
                      rows[k].status = "queued", rows[k].retry_count > 0
               PROVE  queue'[k] > 0 \/ (owned'[w] /\ InHand(w, k)')
    BY <1>1 DEF RetryHasMessage
  <2>1. queue[k] > 0 \/ (owned[w] /\ InHand(w, k))
    BY <1>1 DEF RetryHasMessage, InHand
  <2>2. QED
    BY <1>2, <1>3, <2>1
<1>8. QED
  BY <1>6, <1>7

LEMMA NextLInv ==
  ASSUME OneWorker
  PROVE  LInv /\ [Next]_vars => LInv'
<1> SUFFICES ASSUME LInv, [Next]_vars PROVE LInv'
  OBVIOUS
<1>1. IInv'
  BY NextIInv DEF LInv
<1>2. CASE Next
  BY <1>1, <1>2, RequestKeepsLInv, ReceiveKeepsLInv, ExecuteKeepsLInv,
     CommitKeepsLInv, EndKeepsLInv
     DEF Next, WorkerStep, LInv
<1>3. CASE UNCHANGED vars
  BY <1>1, <1>3
     DEF vars, LInv, SoloInv, Undisturbed, Successor, InHand, RetryHasMessage
<1>4. QED
  BY <1>2, <1>3

THEOREM LInvariance ==
  ASSUME OneWorker
  PROVE  Spec => []LInv
<1>1. LInv /\ [Next]_vars => LInv'
  BY NextLInv
<1>2. QED
  BY <1>1, InitLInv, PTL DEF Spec

(* With one worker, a retry is never lost: the queued row has its message. *)
THEOREM RetriesHaveMessages ==
  ASSUME OneWorker
  PROVE  Spec => []RetryHasMessage
<1>1. Spec => []LInv
  BY LInvariance
<1>2. QED
  BY <1>1, PTL DEF LInv

-----------------------------------------------------------------------------
(* The refinement. *)

(* The only steps that write a committed row: the commit of a request, to  *)
(* a row that was not there, and that of the worker, to a queued one.      *)
LEMMA RowWrites ==
  ASSUME LInv, [Next]_vars
  PROVE  \/ rows' = rows
         \/ \E j \in Job : /\ rows[j] = NoRow
                           /\ rows' = [rows EXCEPT ![j] = NewJob]
         \/ \E w \in Worker :
              /\ job[w] \in Job
              /\ rows[job[w]] # NoRow /\ rows[job[w]].status = "queued"
              /\ Committable(job[w], txn[w])
              /\ Successor(job[w], rows[job[w]], txn[w])
              /\ rows' = [rows EXCEPT ![job[w]] = txn[w]]
<1>1. CASE \E j \in Job : RequestStep(j)
  BY <1>1 DEF RequestStep, CreateJob, RejectJob, EnqueueJob, CommitRequest, AbortRequest,
              LInv, IInv, RowsInv
<1>2. ASSUME NEW w \in Worker, Commit(w)
      PROVE  /\ job[w] \in Job
             /\ rows[job[w]] # NoRow /\ rows[job[w]].status = "queued"
             /\ Committable(job[w], txn[w])
             /\ Successor(job[w], rows[job[w]], txn[w])
             /\ rows' = [rows EXCEPT ![job[w]] = txn[w]]
  BY <1>2 DEF Commit, LInv, IInv, TypeOK, HandsInv, WorkerInv, SoloInv, Undisturbed,
              InHand, Holding
<1>3. ASSUME NEW w \in Worker,
             \/ WorkerStep(w) /\ ~Commit(w)
             \/ Crash(w) \/ BrokerDrop(w) \/ Restart(w)
      PROVE  rows' = rows
  BY <1>3 DEF WorkerStep, DropUnknown, SkipStarted, LoadJob, StartJob, FailUnregistered,
              Flush, RunSucceeds, RunFailsRetry, RunFailsFinally, EnqueueRetry, Ack,
              Crash, BrokerDrop, Restart
<1>4. CASE UNCHANGED vars
  BY <1>4 DEF vars
<1>5. QED
  BY <1>1, <1>2, <1>3, <1>4 DEF Next

(* With one worker, a finished job stays as it is. *)
THEOREM FinishedForGood ==
  ASSUME OneWorker
  PROVE  Spec => FinishedStays
<1>1. LInv /\ [Next]_vars =>
        [\A j \in Job : rows[j] # NoRow /\ IsTerminal(rows[j]) => rows'[j] = rows[j]]_vars
  <2> SUFFICES ASSUME LInv, [Next]_vars,
                      NEW j \in Job, rows[j] # NoRow, IsTerminal(rows[j])
               PROVE  rows'[j] = rows[j]
    OBVIOUS
  <2>1. rows[j].status # "queued"
    BY StatusFacts DEF IsTerminal
  <2>2. QED
    BY <2>1, RowWrites DEF LInv, IInv, TypeOK
<1>2. Spec => []LInv
  BY LInvariance
<1>3. QED
  BY <1>1, <1>2, PTL DEF Spec, FinishedStays

(* With one worker, the committed rows implement the job ledger. *)
THEOREM ImplementsLedger ==
  ASSUME OneWorker
  PROVE  Spec => FollowsLedger
<1>1. Init => Ledger!LedgerInit
  BY DEF Init, Ledger!LedgerInit, ledgerOfRows, LedgerEntry
<1>2. LInv /\ [Next]_vars => [Ledger!LedgerNext]_ledgerOfRows
  <2> SUFFICES ASSUME LInv, [Next]_vars
               PROVE  Ledger!LedgerNext \/ ledgerOfRows' = ledgerOfRows
    OBVIOUS
  <2>1. /\ rows \in [Job -> JobRecord \cup {NoRow}]
        /\ rows' \in [Job -> JobRecord \cup {NoRow}]
        /\ \A j \in Job : ledgerOfRows[j] = LedgerEntry(j)
        /\ \A j \in Job : ledgerOfRows'[j] = LedgerEntry(j)'
    BY NextIInv DEF LInv, IInv, TypeOK, ledgerOfRows
  (* One row written is one entry recorded. *)
  <2>2. ASSUME NEW j \in Job, NEW r \in JobRecord, rows' = [rows EXCEPT ![j] = r]
        PROVE  Ledger!Record(j, r.status, r.retry_count)
    <3>1. ledgerOfRows' =
            [ledgerOfRows EXCEPT ![j] =
               [status |-> r.status, retry_count |-> r.retry_count]]
      BY <2>1, <2>2, NoRowAssumption DEF ledgerOfRows, LedgerEntry
    <3>2. QED
      BY <3>1 DEF Ledger!Record
  <2>3. CASE rows' = rows
    BY <2>3 DEF ledgerOfRows, LedgerEntry
  <2>4. ASSUME NEW j \in Job, rows[j] = NoRow, rows' = [rows EXCEPT ![j] = NewJob]
        PROVE  Ledger!LedgerNext
    <3>1. NewJob \in JobRecord /\ NewJob.status = "queued" /\ NewJob.retry_count = 0
      BY NewJobCommittable DEF Committable, NewJob
    <3>2. Ledger!Record(j, "queued", 0)
      BY <2>2, <2>4, <3>1
    <3>3. Ledger!Admit(j)
      BY <2>1, <2>4, <3>2 DEF Ledger!Admit, LedgerEntry
    <3>4. QED
      BY <3>3 DEF Ledger!LedgerNext
  <2>5. ASSUME NEW j \in Job, NEW t,
               rows[j] # NoRow, rows[j].status = "queued",
               Committable(j, t), Successor(j, rows[j], t),
               rows' = [rows EXCEPT ![j] = t]
        PROVE  Ledger!LedgerNext
    <3>1. t \in JobRecord /\ rows[j] \in JobRecord
      BY <2>1, <2>5 DEF Committable
    <3>2. Ledger!Record(j, t.status, t.retry_count)
      BY <2>2, <2>5, <3>1
    <3>3. /\ ledgerOfRows[j].status = "queued"
          /\ ledgerOfRows[j].retry_count = rows[j].retry_count
          /\ ledgerOfRows[j] = [status |-> rows[j].status, retry_count |-> rows[j].retry_count]
      BY <2>1, <2>5 DEF LedgerEntry
    <3>4. ledgerOfRows[j] # NoRow
      <4>1. ledgerOfRows[j] \in [status : Statuses, retry_count : Nat]
        BY <3>1, <3>3 DEF JobRecord
      <4>2. QED
        BY <4>1, NoRowAssumption
    <3>5. Ledger!Finish(j) \/ Ledger!TryAgain(j) \/ Ledger!GiveUp(j) \/ Ledger!Refuse(j)
      BY <2>5, <3>2, <3>3, <3>4
         DEF Successor, Ledger!Finish, Ledger!TryAgain, Ledger!GiveUp, Ledger!Refuse,
             Ledger!Queued
    <3>6. QED
      BY <3>5 DEF Ledger!LedgerNext
  <2>6. QED
    BY <2>3, <2>4, <2>5, RowWrites
<1>3. Spec => []LInv
  BY LInvariance
<1>4. QED
  BY <1>1, <1>2, <1>3, PTL DEF Spec, FollowsLedger, Ledger!LedgerSpec

-----------------------------------------------------------------------------
(* One active job per document and type, when requests do not overlap. *)

OneRequest == MaxOpen = 1

Queued(j) == rows[j] # NoRow /\ rows[j].status = "queued"

(* A request that is open has found its slot free, and it is the only one  *)
(* that could fill it; what the worker commits was queued before.          *)
SlotInv ==
  /\ \A j, k \in Job : Open(j) /\ Open(k) => j = k
  /\ \A j, k \in Job : Open(j) /\ Queued(k) => SlotOf[j] # SlotOf[k]
  /\ \A j, k \in Job : Queued(j) /\ Queued(k) /\ SlotOf[j] = SlotOf[k] => j = k

(* A committed row is active exactly when it is queued. *)
LEMMA ActiveIsQueued ==
  ASSUME IInv
  PROVE  \A s : ActiveInSlot(s) = {j \in Job : Queued(j) /\ SlotOf[j] = s}
<1>1. ASSUME NEW j \in Job, rows[j] # NoRow
      PROVE  IsActive(rows[j]) <=> rows[j].status = "queued"
  <2>1. rows[j].status \in {"queued", "completed", "failed"}
    BY <1>1 DEF IInv, RowsInv, Committable
  <2>2. QED
    BY <2>1 DEF IsActive, ActiveStatuses, PhaseStatuses
<1>2. QED
  BY <1>1 DEF ActiveInSlot, Queued

LEMMA InitSlotInv == Init => SlotInv
BY DEF Init, SlotInv, Open, Queued

LEMMA NextSlotInv ==
  ASSUME OneRequest, LInv, SlotInv, [Next]_vars
  PROVE  SlotInv'
<1> USE DEF LInv, IInv
<1>1. ASSUME NEW j \in Job, BeginRequest(j)
      PROVE  \A k \in Job : ~Open(k)
  <2> DEFINE open == {k \in Job : Open(k)}
  <2>1. Cardinality(open) < 1
    BY <1>1 DEF BeginRequest, OneRequest
  <2>2. ASSUME NEW k \in Job, Open(k) PROVE FALSE
    <3>1. open = {k}
      BY <2>2 DEF SlotInv
    <3>2. Cardinality({k}) = 1
      BY FS_Singleton
    <3>3. QED
      BY <2>1, <3>1, <3>2
  <2>3. QED
    BY <2>2
<1>2. CASE \E j \in Job : CreateJob(j)
  <2>1. PICK j \in Job : CreateJob(j)
    BY <1>2
  <2>2. /\ \A k \in Job : ~Open(k)
        /\ \A k \in Job : Queued(k) => SlotOf[k] # SlotOf[j]
    BY <1>1, <2>1, ActiveIsQueued DEF CreateJob
  <2>3. rows' = rows /\ \A k \in Job : Open(k)' => k = j
    BY <2>1, <2>2 DEF CreateJob, SetRequest, TypeOK, Open
  <2>4. \A k \in Job : Queued(k)' <=> Queued(k)
    BY <2>3 DEF Queued
  <2>5. QED
    BY <2>2, <2>3, <2>4 DEF SlotInv
<1>3. CASE \E j \in Job : RejectJob(j) \/ EnqueueJob(j) \/ AbortRequest(j)
  <2>1. PICK j \in Job : RejectJob(j) \/ EnqueueJob(j) \/ AbortRequest(j)
    BY <1>3
  <2>2. rows' = rows /\ \A k \in Job : Open(k)' => Open(k)
    BY <2>1 DEF RejectJob, EnqueueJob, AbortRequest, SetRequest, TypeOK, Open
  <2>3. \A k \in Job : Queued(k)' <=> Queued(k)
    BY <2>2 DEF Queued
  <2>4. QED
    BY <2>2, <2>3 DEF SlotInv
<1>4. CASE \E j \in Job : CommitRequest(j)
  <2>1. PICK j \in Job : CommitRequest(j)
    BY <1>4
  <2>2. /\ Open(j) /\ rows' = [rows EXCEPT ![j] = NewJob]
        /\ \A k \in Job : Open(k)' => Open(k) /\ k # j
    BY <2>1 DEF CommitRequest, SetRequest, TypeOK, Open
  <2>3. \A k \in Job : ~Open(k)'
    BY <2>2 DEF SlotInv
  <2>4. \A k \in Job : Queued(k)' => k = j \/ Queued(k)
    BY <2>2 DEF Queued, TypeOK
  <2>5. QED
    BY <2>2, <2>3, <2>4 DEF SlotInv
<1>5. CASE ~(\E j \in Job : RequestStep(j))
  <2>1. req' = req
    BY <1>5 DEF Next, WorkerStep, DropUnknown, SkipStarted, LoadJob, StartJob, FailUnregistered,
                Flush, RunSucceeds, RunFailsRetry, RunFailsFinally, EnqueueRetry, Commit, Ack,
                Crash, BrokerDrop, Restart, requestVars, vars
  <2>2. \A k \in Job : rows'[k] # NoRow <=> rows[k] # NoRow
    BY <2>1, NextIInv DEF RowsInv
  <2>3. \A k \in Job : Queued(k)' => Queued(k)
    BY <2>2, RowWrites DEF Queued, TypeOK
  <2>4. \A k \in Job : Open(k)' <=> Open(k)
    BY <2>1 DEF Open
  <2>5. QED
    BY <2>3, <2>4 DEF SlotInv
<1>6. QED
  BY <1>2, <1>3, <1>4, <1>5 DEF RequestStep

(* "Only one active job per type per document"                             *)
(* (create_processing_job.py:3) is true of the deployment when its         *)
(* requests come one after the other, whatever the worker does with        *)
(* retries, crashes and lost connections.                                  *)
THEOREM OneActivePerSlotHolds ==
  ASSUME OneWorker, OneRequest
  PROVE  Spec => []OneActivePerSlot
<1>1. LInv /\ SlotInv /\ [Next]_vars => SlotInv'
  BY NextSlotInv
<1>2. LInv /\ SlotInv => OneActivePerSlot
  <2> SUFFICES ASSUME LInv, SlotInv, NEW s \in Slot
               PROVE  Cardinality(ActiveInSlot(s)) <= 1
    BY DEF OneActivePerSlot
  <2>1. \A j, k \in ActiveInSlot(s) : j = k
    BY ActiveIsQueued DEF LInv, SlotInv
  <2>2. CASE ActiveInSlot(s) = {}
    BY <2>2, FS_EmptySet
  <2>3. ASSUME NEW j \in ActiveInSlot(s)
        PROVE  Cardinality(ActiveInSlot(s)) <= 1
    <3>1. ActiveInSlot(s) = {j}
      BY <2>1
    <3>2. Cardinality({j}) = 1
      BY FS_Singleton
    <3>3. QED
      BY <3>1, <3>2
  <2>4. QED
    BY <2>2, <2>3
<1>3. Spec => []LInv
  BY LInvariance
<1>4. QED
  BY <1>1, <1>2, <1>3, InitSlotInv, PTL DEF Spec
=============================================================================
