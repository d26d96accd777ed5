CONSTANTS
  None = None
  Bytes = {1, 2, 3}
  BufLimit = 2
  BufLimits = {}
  InitialDisk <- MCInitialDisk
  ReadSizes <- MCReadSizes
  WriteData <- MCWriteData
  Seeks <- MCSeeks
  SetLenSizes = {1}
  Cancellable = {"read"}
  IoErrors = FALSE
  MaxOps = 4

SPECIFICATION Spec
\* The task ends after MaxOps operations or once it gives the File up.
CHECK_DEADLOCK FALSE

PROPERTY ReadSeesFile
