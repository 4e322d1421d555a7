------------------------------ MODULE JobEntity ------------------------------
(***************************************************************************)
(* One ProcessingJob and any sequence of its methods, in whatever order a  *)
(* worker, a use case or a future cancel endpoint calls them: the entity   *)
(* accepts or refuses each call by its status alone.                       *)
(***************************************************************************)
EXTENDS ProcessingJob

CONSTANTS
  MaxRetries,   \* what callers of can_retry pass
  Reports       \* progress values reported to advance(), of any size

ASSUME MaxRetriesAssumption == MaxRetries \in Nat
ASSUME ReportsAssumption    == Reports \subseteq Int

VARIABLE job

StartCall == CanStart(job) /\ job' = Start(job)

AdvanceCall ==
  \E phase \in PhaseStatuses, progress \in Reports :
    CanAdvance(job, phase) /\ job' = Advance(job, phase, progress)

CompleteCall == CanComplete(job) /\ job' = Complete(job)

FailCall == CanFail(job) /\ job' = Fail(job)

CancelCall == CanCancel(job) /\ job' = Cancel(job)

(* retry() is only called behind can_retry(max_retries). *)
RetryCall == CanRetry(job, MaxRetries) /\ job' = Retry(job)

EntityInit == job = NewJob

EntityNext ==
  \/ StartCall
  \/ AdvanceCall
  \/ CompleteCall
  \/ FailCall
  \/ CancelCall
  \/ RetryCall

EntitySpec == EntityInit /\ [][EntityNext]_job

-----------------------------------------------------------------------------

(* The fields keep their types; progress stays between 0 and 100 whatever  *)
(* a worker reports (advance() clamps it).                                 *)
EntityTypeOK == job \in JobRecord

(* Whatever calls were made, the fields agree with the status: only what   *)
(* is finished has finished_at, only a failed job has an error, a queued   *)
(* job shows nothing of an earlier run.                                    *)
EntityConsistent == Consistent(job)

(* The retries never pass the budget. *)
EntityBudget == job.retry_count <= MaxRetries

(* A cancelled or completed job is left alone, and the only way out of     *)
(* FAILED is a counted retry back to QUEUED.                               *)
TerminalLeftByRetryOnly ==
  [][IsTerminal(job) =>
       /\ job.status = "failed"
       /\ job'.status = "queued"
       /\ job'.retry_count = job.retry_count + 1]_job
=============================================================================
