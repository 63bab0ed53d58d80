CONSTANTS
  Geometries <- MCGeometriesWithEmpty
  SizeTMod = 65536
SPECIFICATION Spec
INVARIANT TypeOK
INVARIANT ConstraintPlanesSupport
INVARIANT ReadsWithinRingUnlessEmpty
CHECK_DEADLOCK FALSE
