CONSTANTS
  d1 = d1
  d2 = d2
  c1 = c1
  x1 = x1
  x2 = x2
  y1 = y1
  Trees <- MCTrees
  DapExamples <- MCDapExamples
  CellExamples <- MCCellExamples
  DapFiles <- MCDapFiles
  CellFiles <- MCCellFiles
  Queries <- MCQueries
  MaxRequests = 1
SPECIFICATION ServiceSpec
PROPERTY SignalStopsDaemon
