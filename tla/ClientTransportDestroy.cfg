CONSTANTS
  f1 = f1
  f2 = f2
  bad = bad
  Frames <- MCFrames
  BadFrames <- MCBadFrames
  TimeoutInit <- MCTimeoutInit
  TimeoutSet <- MCTimeoutSet
  QueueCap = 2
  MaxFrames = 3
  MaxRequests = 1
SPECIFICATION Spec
PROPERTY NoHandlerAfterDestruction
CHECK_DEADLOCK FALSE
