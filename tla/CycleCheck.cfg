CONSTANTS
  A = A
  B = B
  C = C
  Nodes   <- MCNodes
  MaxDeps <- MCMaxDeps
SPECIFICATION Spec
INVARIANT HasCycleIsReachableCycle
