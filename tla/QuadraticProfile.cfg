CONSTANTS
  NrStepsIn = {1, 2, 3, 4, 5, 6, 7, 8, 9, 10, 11, 12}
  ProportionIn = {2, 3, 4}
  ExtraCalls = 1
SPECIFICATION Spec
INVARIANT TypeOK
INVARIANT ReachesEnd
PROPERTY Monotone
CHECK_DEADLOCK FALSE
