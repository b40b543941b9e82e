SPECIFICATION FairSpec
CONSTANTS
  c1 = c1
  s1 = s1
  s2 = s2
  w1 = w1
  w2 = w2
  NoConn = NoConn
  Idle = Idle
  Conn = {c1}
  Session = {s1, s2}
  Worker = {w1, w2}
  DeepenMax = 1
INVARIANT OneInFlight
INVARIANT RegistryAgrees
CHECK_DEADLOCK FALSE
PROPERTY Repriced
PROPERTY CreateAnswered
