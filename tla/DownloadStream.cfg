\* Both kinds of connection; up to three ranges of one byte, two at a time, and
\* two of two bytes, scaled; 5 is too large a file.
SPECIFICATION FairSpec
CONSTANTS
  Sizes = {1, 3, 4, 5}
  ProbeSizes = {0, 1, 4}
  Replies = {"range", "error"}
  MaxHops = 1
  MaxAttempts = 2
  MinSize = 2
  MaxBytes = 4
  ChunkSize = 1
  MaxChunks = 3
  MaxParallel = 2
  Connections = {"plain", "intercepted"}
INVARIANTS ProgressHonest NoOrphanFetch
PROPERTIES DeliversInOrder HandlerReturns
CHECK_DEADLOCK FALSE
