\* An ingestion retried after a new version.
CONSTANTS
  short = short  long = long
  NoDoc = NoDoc
  NoVersion = NoVersion
  NoJob = NoJob
  Session = {s1, s2, s3, s4}
  Content = {short, long}
  MaxChunks = 2
  Chunks <- MCChunks
  MaxRetries = 1
  MaxOpen = 1
SPECIFICATION StoreSpec
INVARIANTS OneVersionIndexed
SYMMETRY SessionSymmetry
CHECK_DEADLOCK FALSE
