---------------------------- MODULE ProcessingJob ----------------------------
(***************************************************************************)
(* The ProcessingJob entity (app/domain/documents/jobs.py): the fields a   *)
(* transition reads or writes, and one operator per method.  A method that *)
(* raises ValidationError has its guard as an operator Can<Method>; a      *)
(* caller in the wrong status does not take the transition.                *)
(*                                                                         *)
(* Texts and timestamps are abstracted to whether they are None.           *)
(***************************************************************************)
EXTENDS Naturals, Integers, Columns

(* shared/constants.py, ProcessingJobStatus and the sets built from it *)
PhaseStatuses ==
  {"parsing", "rendering", "normalizing", "chunking", "embedding", "indexing"}

ActiveStatuses == {"queued", "running"} \cup PhaseStatuses

TerminalStatuses == {"completed", "failed", "cancelled"}

Statuses == ActiveStatuses \cup TerminalStatuses

JobRecord ==
  [ status        : Statuses,
    retry_count   : Nat,
    progress      : 0 .. 100,
    worker_name   : Optional,
    error_message : Optional,
    started_at    : Optional,
    finished_at   : Optional ]

(* The dataclass defaults, which CreateProcessingJobUseCase keeps. *)
NewJob ==
  [ status |-> "queued", retry_count |-> 0, progress |-> 0,
    worker_name |-> None, error_message |-> None,
    started_at |-> None, finished_at |-> None ]

IsActive(job)   == job.status \in ActiveStatuses
IsTerminal(job) == job.status \in TerminalStatuses

-----------------------------------------------------------------------------
(* Transitions *)

CanStart(job) == job.status = "queued"

Start(job) ==
  [job EXCEPT !.status = "running", !.worker_name = Some,
              !.started_at = Some, !.progress = 0, !.error_message = None]

CanAdvance(job, phase) ==
  /\ phase \in PhaseStatuses
  /\ job.status \in {"running"} \cup PhaseStatuses

Clamp(n) == IF n < 0 THEN 0 ELSE IF n > 100 THEN 100 ELSE n

Advance(job, phase, progress) ==
  [job EXCEPT !.status = phase, !.progress = Clamp(progress)]

CanComplete(job) == ~IsTerminal(job)

\* mutant: completing leaves the progress of the last phase
CompleteKeepingProgress(job) ==
  [job EXCEPT !.status = "completed", !.finished_at = Some, !.error_message = None]

Complete(job) ==
  [job EXCEPT !.status = "completed", !.progress = 100,
              !.finished_at = Some, !.error_message = None]

CanFail(job) == ~IsTerminal(job)

Fail(job) ==
  [job EXCEPT !.status = "failed", !.finished_at = Some, !.error_message = Some]

CanCancel(job) == ~IsTerminal(job)

Cancel(job) == [job EXCEPT !.status = "cancelled", !.finished_at = Some]

\* mutant: the budget admits one retry too many
CanRetryOnceMore(job, max_retries) ==
  job.status = "failed" /\ job.retry_count <= max_retries

\* mutant: the last retry of the budget is refused
CanRetryOnceLess(job, max_retries) ==
  job.status = "failed" /\ job.retry_count + 1 < max_retries

(* can_retry: the policy; retry() itself only requires FAILED. *)
CanRetry(job, max_retries) ==
  job.status = "failed" /\ job.retry_count < max_retries

\* mutant: the finish of the failed run survives the retry
RetryKeepingFinish(job) ==
  [job EXCEPT !.status = "queued", !.retry_count = @ + 1, !.progress = 0,
              !.worker_name = None, !.started_at = None, !.error_message = None]

Retry(job) ==
  [job EXCEPT !.status = "queued", !.retry_count = @ + 1, !.progress = 0,
              !.worker_name = None, !.started_at = None,
              !.finished_at = None, !.error_message = None]

-----------------------------------------------------------------------------
(* What a job's fields say together.  None of the methods checks these. *)

(* A queued job carries nothing of an earlier run but its retry_count. *)
IsFresh(job) ==
  /\ job.progress = 0
  /\ job.worker_name = None /\ job.error_message = None
  /\ job.started_at  = None /\ job.finished_at   = None

Consistent(job) ==
  /\ job.status = "queued" => IsFresh(job)
  /\ IsTerminal(job) <=> job.finished_at = Some
  /\ job.error_message = Some <=> job.status = "failed"
  /\ job.status = "completed" => job.progress = 100
  /\ job.worker_name = job.started_at
=============================================================================
