CONSTANTS
  TrueOrientations <- MCTrueOrientations
  ControlPoses <- MCControlPoses
  FeetChoices <- MCFeetChoices
  ImuMounts <- MCImuMounts
  MaxMoves = 2
SPECIFICATION Spec
INVARIANT EstimateKeepsImuTilt
INVARIANT AnchorsCoincide
