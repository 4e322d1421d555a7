\* A deletion that overlaps with another request.
CONSTANTS
  short = short  long = long
  NoDoc = NoDoc
  NoVersion = NoVersion
  NoJob = NoJob
  Session = {s1, s2, s3}
  Content = {short, long}
  MaxChunks = 2
  Chunks <- MCChunks
  MaxRetries = 0
  MaxOpen = 2
SPECIFICATION StoreSpec
PROPERTIES DeletedStaysDeleted
SYMMETRY SessionSymmetry
CHECK_DEADLOCK FALSE
