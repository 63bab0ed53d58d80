CONSTANTS
  Weights <- MCWeights
  InitWeight = "ctor"
  Duration = 5
  TimeStep = 2
  MaxRebuilds = 4
SPECIFICATION Spec
INVARIANT TypeOK
INVARIANT SolverHoldsLiveTask
PROPERTY TargetReachesEnd
CHECK_DEADLOCK FALSE
