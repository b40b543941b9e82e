SPECIFICATION FairSpec
CONSTANTS
  c1 = c1
  Conn = {c1}
  QueueCap = 1
  LedgerBound = 3
  RequestBound = 2
INVARIANT WireInOrder
INVARIANT NoMissedClose
PROPERTY WrittenOrLeft
CHECK_DEADLOCK FALSE
