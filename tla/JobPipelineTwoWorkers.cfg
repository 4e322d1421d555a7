\* Two worker processes on one queue, requests that overlap.
CONSTANTS
  j1 = j1  j2 = j2  j3 = j3
  ingest1 = ingest1  ocr1 = ocr1
  NoRow = NoRow
  NoJob = NoJob
  Job = {j1, j3}
  Slot <- MCSlot
  SlotOf <- MCSlotOf
  Registered = {ingest1}
  Worker = {w1, w2}
  MaxRetries = 2
  MaxOpen = 2
  MaxCrashes = 1
  MaxDrops = 2
SPECIFICATION Spec
INVARIANTS RunExclusive NothingStranded RowsConsistent RetryBudget
SYMMETRY WorkerSymmetry
CHECK_DEADLOCK FALSE
