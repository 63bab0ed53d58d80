CONSTANTS
  PhaseOrders <- RightFootOrders
  InitContacts <- SeatedContacts
  TimeoutUnit = 1
  ForceIterN = 2
  OpenStep = 5
  OpenFull = 1000
  InitPercentOpen = {0}
  MaxIdleIter = 3
SPECIFICATION Spec
CHECK_DEADLOCK FALSE
INVARIANT DofContactAddedOnce
