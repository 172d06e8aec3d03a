CONSTANTS
  Sizes      <- MCSizes
  Iterations <- MCIterations
  OpsValues  <- MCOpsValues
SPECIFICATION Spec
INVARIANT TempFilesRemoved
