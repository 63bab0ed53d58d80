CONSTANTS
  PhaseOrders <- EgressOrders
  InitContacts <- SeatedContacts
  TimeoutUnit = 1
  ForceIterN = 2
  OpenStep = 5
  OpenFull = 1000
  InitPercentOpen = {0, 500}
  MaxIdleIter = 3
SPECIFICATION Spec
INVARIANT TypeOK
INVARIANT NoContactFault
INVARIANT NoStaleEfTask
INVARIANT FreedContactOnMovedLimb
INVARIANT WiggleEnvelope
PROPERTY EgressCompletes
PROPERTY EgressCompletesIfConverging
CHECK_DEADLOCK FALSE
