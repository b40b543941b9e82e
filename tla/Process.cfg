SPECIFICATION FairSpec
CONSTANTS
  w1 = w1
  h1 = h1
  h2 = h2
  p1 = p1
  n1 = n1
  n2 = n2
  Main = Main
  Sync = Sync
  NoJob = NoJob
  Worker = {w1}
  Heavy = {h1, h2}
  Proxied = {p1}
  Net = {n1, n2}
INVARIANT NobodyLeft
INVARIANT NobodyWaitsInVain
PROPERTY RunsEachOnce
PROPERTY Answered
 
CHECK_DEADLOCK FALSE
