SPECIFICATION BooksSpec
CONSTANTS
  xrp = xrp
  usd1 = usd1
  usd2 = usd2
  XRP = XRP
  USD = USD
  dom = dom
  NoDomain = NoDomain
  Native = xrp
  Asset = {xrp, usd1, usd2}
  TokenOf <- MCTokenOf
  Domain = {dom}
  Root <- MCRoot
  Amm <- MCAmm
  NoQuality = 3
INVARIANT IndexesAgree
INVARIANT BooksFollowLedger
