CONSTANTS
  None = None
  Bytes = {1, 2, 3}
  BufLimit = 1
  BufLimits = {}
  InitialDisk <- MCInitialDisk
  ReadSizes <- MCReadSizes
  WriteData <- MCWriteData
  Seeks <- MCSeeksBack
  SetLenSizes = {4}
  Cancellable = {"read"}
  IoErrors = FALSE
  MaxOps = 3

SPECIFICATION Spec
\* The task ends after MaxOps operations or once it gives the File up.
CHECK_DEADLOCK FALSE

PROPERTY ReadSeesFile
