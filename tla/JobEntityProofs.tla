--------------------------- MODULE JobEntityProofs ---------------------------
(***************************************************************************)
(* The entity keeps its promises for any budget and any reported progress. *)
(* EntityConsistent and EntityBudget are inductive together with the       *)
(* types; each method needs only what its guard says of the status.        *)
(***************************************************************************)
EXTENDS JobEntity, TLAPS

EntityInv == EntityTypeOK /\ EntityConsistent /\ EntityBudget

LEMMA ClampBounds ==
  ASSUME NEW n \in Int
  PROVE  Clamp(n) \in 0 .. 100
BY DEF Clamp

LEMMA StatusSets ==
  /\ {"queued", "running", "completed", "failed", "cancelled"} \subseteq Statuses
  /\ PhaseStatuses \subseteq Statuses
  /\ \A s \in PhaseStatuses :
       s \notin TerminalStatuses /\ s \notin {"queued", "running", "failed", "completed"}
  /\ {"queued", "running"} \cap TerminalStatuses = {}
  /\ {"completed", "failed", "cancelled"} = TerminalStatuses
BY DEF Statuses, ActiveStatuses, PhaseStatuses, TerminalStatuses

LEMMA EntityInvInit == EntityInit => EntityInv
BY StatusSets, MaxRetriesAssumption
   DEF EntityInit, EntityInv, EntityTypeOK, EntityConsistent, EntityBudget, NewJob,
       JobRecord, Consistent, IsFresh, IsTerminal, Optional, None, Some

(* What a step must leave, field by field. *)
LEMMA Shapes ==
  ASSUME EntityInv, job' \in JobRecord, job'.retry_count <= MaxRetries,
         job'.worker_name = job'.started_at,
         \/ job'.status = "queued" /\ IsFresh(job')
         \/ /\ job'.status \in {"running"} \cup PhaseStatuses
            /\ job'.finished_at # Some /\ job'.error_message # Some
         \/ /\ job'.status = "completed" /\ job'.progress = 100
            /\ job'.finished_at = Some /\ job'.error_message # Some
         \/ /\ job'.status = "failed"
            /\ job'.finished_at = Some /\ job'.error_message = Some
         \/ /\ job'.status = "cancelled"
            /\ job'.finished_at = Some /\ job'.error_message # Some
  PROVE  EntityInv'
<1> USE StatusSets DEF IsFresh, IsTerminal, None, Some
<1>1. Consistent(job')
  BY DEF Consistent
<1>2. QED
  BY <1>1 DEF EntityInv, EntityTypeOK, EntityConsistent, EntityBudget

LEMMA CompleteTypes ==
  ASSUME NEW j \in JobRecord
  PROVE  Complete(j) \in JobRecord
<1>1. "completed" \in Statuses /\ 100 \in 0 .. 100
  BY StatusSets
<1>2. QED
  BY <1>1 DEF Complete, JobRecord, Optional, None, Some

LEMMA RetryTypes ==
  ASSUME NEW j \in JobRecord
  PROVE  Retry(j) \in JobRecord
<1>1. "queued" \in Statuses /\ 0 \in 0 .. 100
  BY StatusSets
<1>2. j.retry_count + 1 \in Nat
  BY DEF JobRecord
<1> DEFINE n == j.retry_count + 1
<1>3. Retry(j) = [j EXCEPT !.status = "queued", !.retry_count = n, !.progress = 0,
                           !.worker_name = None, !.started_at = None,
                           !.finished_at = None, !.error_message = None]
  BY DEF Retry
<1>4. n \in Nat
  BY <1>2
<1> HIDE DEF n
<1>5. QED
  BY <1>1, <1>3, <1>4 DEF JobRecord, Optional, None, Some

LEMMA CompleteKeeps ==
  ASSUME EntityInv, CompleteCall
  PROVE  EntityInv'
<1>1. job \in JobRecord /\ Consistent(job) /\ job.retry_count <= MaxRetries
  BY DEF EntityInv, EntityTypeOK, EntityConsistent, EntityBudget
<1>2. job' = Complete(job)
  BY DEF CompleteCall
<1>3. job' \in JobRecord
  BY <1>1, <1>2, CompleteTypes
<1>4. /\ job'.status = "completed" /\ job'.progress = 100
      /\ job'.finished_at = Some /\ job'.error_message # Some
      /\ job'.retry_count = job.retry_count
      /\ job'.worker_name = job.worker_name /\ job'.started_at = job.started_at
  BY <1>1, <1>2 DEF Complete, JobRecord, None, Some
<1>5. job.worker_name = job.started_at
  BY <1>1 DEF Consistent
<1>6. job'.retry_count <= MaxRetries /\ job'.worker_name = job'.started_at
  BY <1>1, <1>4, <1>5
<1>7. QED
  BY <1>3, <1>4, <1>6, Shapes

LEMMA RetryKeeps ==
  ASSUME EntityInv, RetryCall
  PROVE  EntityInv'
<1>1. job \in JobRecord /\ job.retry_count \in Nat
  BY DEF EntityInv, EntityTypeOK, JobRecord
<1>2. job' = Retry(job) /\ job.retry_count < MaxRetries
  BY DEF RetryCall, CanRetry
<1>3. job' \in JobRecord
  BY <1>1, <1>2, RetryTypes
<1>4. /\ job'.status = "queued" /\ IsFresh(job')
      /\ job'.retry_count = job.retry_count + 1
      /\ job'.worker_name = job'.started_at
  BY <1>1, <1>2 DEF Retry, JobRecord, IsFresh, None, Some
<1>5. job'.retry_count <= MaxRetries
  BY <1>1, <1>2, <1>4, MaxRetriesAssumption
<1>6. QED
  BY <1>3, <1>4, <1>5, Shapes

LEMMA EntityInvStep == EntityInv /\ [EntityNext]_job => EntityInv'
<1> SUFFICES ASSUME EntityInv, [EntityNext]_job
             PROVE  EntityInv'
  OBVIOUS
<1> USE StatusSets
     DEF EntityInv, EntityTypeOK, EntityConsistent, EntityBudget, JobRecord,
         Consistent, IsFresh, IsTerminal, Optional, None, Some
<1>1. CASE StartCall
  BY <1>1 DEF StartCall, CanStart, Start
<1>2. CASE AdvanceCall
  <2>1. PICK phase \in PhaseStatuses, progress \in Reports :
          CanAdvance(job, phase) /\ job' = Advance(job, phase, progress)
    BY <1>2 DEF AdvanceCall
  <2>2. Clamp(progress) \in 0 .. 100
    BY ClampBounds, ReportsAssumption
  <2>3. QED
    BY <2>1, <2>2 DEF CanAdvance, Advance
<1>3. CASE CompleteCall
  BY <1>3, CompleteKeeps
<1>4. CASE FailCall
  BY <1>4 DEF FailCall, CanFail, Fail
<1>5. CASE CancelCall
  BY <1>5 DEF CancelCall, CanCancel, Cancel
<1>6. CASE RetryCall
  BY <1>6, RetryKeeps
<1>7. CASE UNCHANGED job
  BY <1>7
<1>8. QED
  BY <1>1, <1>2, <1>3, <1>4, <1>5, <1>6, <1>7 DEF EntityNext

(* Whatever sequence of methods is called, the fields of a job agree with  *)
(* its status (jobs.py:81-138).                                            *)
THEOREM AlwaysConsistent == EntitySpec => []EntityConsistent
<1>1. EntityInv => EntityConsistent
  BY DEF EntityInv
<1>2. QED
  BY <1>1, EntityInvInit, EntityInvStep, PTL DEF EntitySpec

(* The retries counted never pass the budget that can_retry() is asked     *)
(* with (jobs.py:124-133).                                                 *)
THEOREM AlwaysWithinBudget == EntitySpec => []EntityBudget
<1>1. EntityInv => EntityBudget
  BY DEF EntityInv
<1>2. QED
  BY <1>1, EntityInvInit, EntityInvStep, PTL DEF EntitySpec

(* A completed or cancelled job is left alone, and FAILED is left by a     *)
(* counted retry only (jobs.py:100-138).                                   *)
THEOREM TerminalForGood == EntitySpec => TerminalLeftByRetryOnly
<1> DEFINE LeftByRetry ==
      IsTerminal(job) =>
        /\ job.status = "failed"
        /\ job'.status = "queued"
        /\ job'.retry_count = job.retry_count + 1
<1>1. EntityTypeOK /\ [EntityNext]_job => [LeftByRetry]_job
  <2> SUFFICES ASSUME EntityTypeOK, EntityNext, IsTerminal(job)
               PROVE  LeftByRetry
    OBVIOUS
  <2>1. ~StartCall /\ ~AdvanceCall /\ ~CompleteCall /\ ~FailCall /\ ~CancelCall
    BY StatusSets
       DEF StartCall, CanStart, AdvanceCall, CanAdvance, CompleteCall, CanComplete,
           FailCall, CanFail, CancelCall, CanCancel, IsTerminal
  <2>2. RetryCall
    BY <2>1 DEF EntityNext
  <2>3. QED
    BY <2>2 DEF RetryCall, CanRetry, Retry, EntityTypeOK, JobRecord
<1>2. EntityInv => EntityTypeOK
  BY DEF EntityInv
<1>3. QED
  BY <1>1, <1>2, EntityInvInit, EntityInvStep, PTL DEF EntitySpec, TerminalLeftByRetryOnly
=============================================================================
