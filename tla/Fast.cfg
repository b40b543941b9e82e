SPECIFICATION FinderSpec
CONSTANTS
  N = N
  S = S
  G = G
  A = A
  B = B
  D = D
  Asset = {N, S, G, A, B, D}
  Native = N
  TokenOf <- Token1
  Ends <- AllEnds
  BookSets <- SomeBooks
  Churn <- OneComes
  ChurnBound = 1
  Tip <- Tips
  NoQuality = 8
  Budgets <- SomeBudgets
  Extras <- SomeExtras
  Rates <- TwoRates
  MaxPathLength = 8
  MaxPathCount = 2
  MaxCandidates = 8
INVARIANT CandidatesAreWalks
INVARIANT ShortNotHidden
INVARIANT WideEnoughIsComplete
CHECK_DEADLOCK FALSE
