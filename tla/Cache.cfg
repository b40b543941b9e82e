SPECIFICATION CacheSpec
CONSTANTS
  sub = sub
  sub2 = sub2
  shot = shot
  v1 = v1
  v2 = v2
  v3 = v3
  v4 = v4
  v5 = v5
  Account = {1, 2}
  Session = {sub, shot}
  OneShot = {shot}
  Vec = {v1, v2, v3, v4, v5}
  NoVec = NoVec
  NoEntry = NoEntry
  MaxTotalLines = 3
  MaxLinesPerAccount = 2
  LineChunkSize = 2
  CacheReuseLedgers = 0
  LinesPerWave = 2
  LedgerBound = 2
INVARIANT CountExact
INVARIANT PinsExact
PROPERTY ReadersStable
VIEW UpToAddresses
CHECK_DEADLOCK FALSE
