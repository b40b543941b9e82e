SPECIFICATION Spec
CONSTANTS
  xrp = xrp
  usd = usd
  me = me
  gw = gw
  gx = gx
  none = none
  Currency = {xrp, usd}
  NativeCurrency = xrp
  Issuer = {me, gw, gx}
  Sender = me
  NoIssuer = none
  AssetOrder <- InOrder
  AutoSources <- Holds
  Requests <- SomeRequests
  MaxSrcCur = 2
  MarketBound = 2
  UpdateBound = 2
INVARIANT StaleIsMarked
 
INVARIANT AtMostOneAfterClose
INVARIANT SourcesAsAsked
CHECK_DEADLOCK FALSE
