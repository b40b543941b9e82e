SPECIFICATION FairSpec
CONSTANTS
  a = a
  b = b
  Closed = Closed
  Obj = {a, b}
  Optional = {b}
  Log <- LiveLog
  StartPos = 2
  QueueCap = 1
  BatchMax = 2
  FaultBound <- EveryFault
  MayStop = TRUE
INVARIANT TypeOK
INVARIANT LossConfined
INVARIANT ServedViewComplete
INVARIANT LoadIsExclusive
PROPERTY ReadyIfConnected
PROPERTY StopReturns
CHECK_DEADLOCK FALSE
