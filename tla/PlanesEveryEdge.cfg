CONSTANTS
  Geometries <- MCGeometries
  SizeTMod = 65536
SPECIFICATION Spec
INVARIANT EveryEdgeConstrained
CHECK_DEADLOCK FALSE
