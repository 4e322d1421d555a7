\* The deployment: one worker process, scheduled fairly; one request after the other.
CONSTANTS
  j1 = j1  j2 = j2  j3 = j3
  ingest1 = ingest1  ocr1 = ocr1
  NoRow = NoRow
  NoJob = NoJob
  Job = {j1, j2, j3}
  Slot <- MCSlot
  SlotOf <- MCSlotOf
  Registered = {ingest1}
  Worker = {w1}
  MaxRetries = 2
  MaxOpen = 1
  MaxCrashes = 2
  MaxDrops = 1
SPECIFICATION FairSpec
INVARIANTS TypeOK RetryHasMessage OneActivePerSlot
PROPERTIES MessagedJobEnds FollowsLedger
CHECK_DEADLOCK FALSE
