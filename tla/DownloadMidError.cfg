\* A range that fails after the header, on an intercepted connection.
SPECIFICATION Spec
CONSTANTS
  Sizes = {3}
  ProbeSizes = {1}
  Replies = {"range", "error"}
  MaxHops = 0
  MaxAttempts = 1
  MinSize = 2
  MaxBytes = 5
  ChunkSize = 1
  MaxChunks = 4
  MaxParallel = 2
  Connections = {"intercepted"}
INVARIANTS BodyIsTheFile
CHECK_DEADLOCK FALSE
