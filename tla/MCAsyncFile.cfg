CONSTANTS
  None = None
  Bytes = {1, 2, 3}
  BufLimit = 1
  BufLimits = {2}
  InitialDisk <- MCInitialDisk
  ReadSizes <- MCReadSizes
  WriteData <- MCWriteData
  Seeks <- MCSeeks
  SetLenSizes = {4}
  Cancellable = {"read", "write", "flush", "sync_all"}
  IoErrors = FALSE
  MaxOps = 5

SPECIFICATION Spec
\* The task ends after MaxOps operations or once it gives the File up.
CHECK_DEADLOCK FALSE

INVARIANT TypeOK
INVARIANT IdleHoldsBuffer
PROPERTY ReadSeesFile
PROPERTY SeekLandsOnTarget
PROPERTY Progress
