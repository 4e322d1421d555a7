------------------------------ MODULE JobLedger ------------------------------
(***************************************************************************)
(* What the job pipeline promises to whoever reads the processing_jobs     *)
(* table: a job appears queued, every failure of its work is counted once, *)
(* it is queued again while the budget lasts, and what is finished stays   *)
(* as it is.  The status machine of app/domain/documents/jobs.py and the   *)
(* retry policy of app/workers/executor.py, without messages, sessions,    *)
(* locks or processes.                                                     *)
(***************************************************************************)
EXTENDS Naturals

CONSTANTS
  Job,         \* job ids
  Retryable,   \* the jobs whose type has a worker
  MaxRetries,
  Absent       \* the ledger has no such job

VARIABLE ledger

Entry == [status : {"queued", "completed", "failed"}, retry_count : 0 .. MaxRetries]

LedgerTypeOK == ledger \in [Job -> Entry \cup {Absent}]

LedgerInit == ledger = [j \in Job |-> Absent]

Queued(j) == ledger[j] # Absent /\ ledger[j].status = "queued"

Record(j, status, retries) ==
  ledger' = [ledger EXCEPT ![j] = [status |-> status, retry_count |-> retries]]

(* A request admits a job. *)
Admit(j) ==
  /\ ledger[j] = Absent
  /\ Record(j, "queued", 0)

(* The work of a job succeeds. *)
Finish(j) ==
  /\ j \in Retryable
  /\ Queued(j)
  /\ Record(j, "completed", ledger[j].retry_count)

(* The work fails with budget left: the failure is counted. *)
TryAgain(j) ==
  /\ j \in Retryable
  /\ Queued(j)
  /\ ledger[j].retry_count < MaxRetries
  /\ Record(j, "queued", ledger[j].retry_count + 1)

(* The work fails with the budget spent. *)
GiveUp(j) ==
  /\ j \in Retryable
  /\ Queued(j)
  /\ ledger[j].retry_count = MaxRetries
  /\ Record(j, "failed", MaxRetries)

(* Nothing can do the work of this type. *)
Refuse(j) ==
  /\ j \notin Retryable
  /\ Queued(j)
  /\ Record(j, "failed", 0)

LedgerNext ==
  \E j \in Job : Admit(j) \/ Finish(j) \/ TryAgain(j) \/ GiveUp(j) \/ Refuse(j)

LedgerSpec == LedgerInit /\ [][LedgerNext]_ledger
=============================================================================
