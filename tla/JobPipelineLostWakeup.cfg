\* One worker, one request, nothing fails.
CONSTANTS
  j1 = j1  j2 = j2  j3 = j3
  ingest1 = ingest1  ocr1 = ocr1
  NoRow = NoRow
  NoJob = NoJob
  Job = {j1}
  Slot <- MCSlot
  SlotOf <- MCSlotOf
  Registered = {ingest1}
  Worker = {w1}
  MaxRetries = 1
  MaxOpen = 1
  MaxCrashes = 0
  MaxDrops = 0
SPECIFICATION FairSpec
PROPERTIES WorkerPicksUp
CHECK_DEADLOCK FALSE
