\* One handler at a time, a disk that works.
SPECIFICATION Spec
CONSTANTS
  Jobs = {1}
  MaxTurns = 1
  InitialFiles <- NoFile
  DiskFails = FALSE
INVARIANT FinishedIsSetUp
CHECK_DEADLOCK FALSE
