SPECIFICATION Spec
CONSTANTS
  a = a
  b = b
  Closed = Closed
  Obj = {a, b}
  Optional = {b}
  Log <- ShortLog
  StartPos = 1
  QueueCap = 1
  BatchMax = 2
  FaultBound <- OneLoss
  MayStop = FALSE
INVARIANT SubscribedBeforeSnapshot
CHECK_DEADLOCK FALSE
