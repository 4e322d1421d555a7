\* Sessions that overlap, two at a time.
CONSTANTS
  short = short  long = long
  NoDoc = NoDoc
  NoVersion = NoVersion
  NoJob = NoJob
  Session = {s1, s2, s3, s4, s5}
  Content = {short, long}
  MaxChunks = 2
  Chunks <- MCChunks
  MaxRetries = 1
  MaxOpen = 2
SPECIFICATION StoreSpec
INVARIANTS StoreTypeOK BlobBehindVersion CurrentIsAVersion NumbersContiguous ProcessedIsIndexed
PROPERTIES JobsFollowLedger
SYMMETRY SessionSymmetry
CHECK_DEADLOCK FALSE
