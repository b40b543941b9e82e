SPECIFICATION FairSpec
CONSTANTS
  r1 = r1
  r2 = r2
  Req = {r1, r2}
  NoReq = NoReq
  RunBound = 2
  BreakBound = 1
  RefuseBound = 1
INVARIANT StreamOwned
INVARIANT PendingExact
PROPERTY ReconnectNotStuck
CHECK_DEADLOCK FALSE
