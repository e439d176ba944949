SPECIFICATION Spec
CONSTANTS
  a = a
  b = b
  Users = {a, b}
  t = t
  usd = usd
  new = new
  Tokens = {t, usd, new}
  NewTokens = {new}
  ZeroAddress = ZeroAddress
  Offers <- MCSharedOffers
  Unit = 2
  FeeRates = {1000}
  MaxSales = 2
  MaxAmount = 3
  MaxTime = 3
INVARIANTS RoundingBounded HoldingsAccounted ClaimsCovered
CHECK_DEADLOCK FALSE
