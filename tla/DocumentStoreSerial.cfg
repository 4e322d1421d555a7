\* Sessions that come one after the other.
CONSTANTS
  short = short  long = long
  NoDoc = NoDoc
  NoVersion = NoVersion
  NoJob = NoJob
  Session = {s1, s2, s3, s4, s5}
  Content = {short, long}
  MaxChunks = 2
  Chunks <- MCChunks
  MaxRetries = 1
  MaxOpen = 1
SPECIFICATION StoreSpec
INVARIANTS DeletionConsistent UploadsDiffer CurrentIsLatest CompletedIsProcessed
PROPERTIES DeletedIsFrozen
SYMMETRY SessionSymmetry
CHECK_DEADLOCK FALSE
