CONSTANTS
  f1 = f1
  f2 = f2
  bad = bad
  Frames <- MCFrames
  BadFrames <- MCBadFrames
  TimeoutInit <- MCTimeoutInit
  TimeoutSet <- MCTimeoutSet
  QueueCap = 2
  MaxFrames = 4
  MaxRequests = 1
SPECIFICATION Spec
INVARIANT TypeOK
PROPERTY StopTerminates
PROPERTY FramesKeepFlowing
PROPERTY WaitEnds
PROPERTY SessionRefined
CHECK_DEADLOCK FALSE
