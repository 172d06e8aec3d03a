CONSTANTS
  Iterations <- MCIterations
  TotalLines <- MCTotalLines
  AvgLines   <- MCAvgLines
  OpsLines   <- MCOpsLines
  WallTimes  <- MCWallTimes
SPECIFICATION Spec
INVARIANT ReportWrittenWhenDataExists
