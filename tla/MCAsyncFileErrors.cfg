CONSTANTS
  None = None
  Bytes = {1, 2, 3}
  BufLimit = 1
  BufLimits = {}
  InitialDisk <- MCInitialDisk
  ReadSizes <- MCReadSizes
  WriteData <- MCWriteData
  Seeks <- MCSeeks
  SetLenSizes = {4}
  Cancellable = {}
  IoErrors = TRUE
  MaxOps = 4

SPECIFICATION Spec
\* The task ends after MaxOps operations or once it gives the File up.
CHECK_DEADLOCK FALSE

INVARIANT NoPanic
PROPERTY FlushReportsLostWrite
