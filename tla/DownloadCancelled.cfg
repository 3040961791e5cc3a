\* The user cancels a download that is about to end.
SPECIFICATION Spec
CONSTANTS
  Sizes = {3}
  ProbeSizes = {1}
  Replies = {"range", "error"}
  MaxHops = 0
  MaxAttempts = 1
  MinSize = 2
  MaxBytes = 5
  ChunkSize = 1
  MaxChunks = 4
  MaxParallel = 2
  Connections = {"plain"}
PROPERTIES CancelledStays
CHECK_DEADLOCK FALSE
