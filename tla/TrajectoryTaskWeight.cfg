CONSTANTS
  Weights <- MCWeights
  InitWeight = "ctor"
  Duration = 5
  TimeStep = 2
  MaxRebuilds = 4
SPECIFICATION Spec
CHECK_DEADLOCK FALSE
INVARIANT WeightPersists
