SPECIFICATION Spec
CONSTANTS
  a = a
  i = i
  Users = {a, i}
  Issuer = i
  UnderlyingAmount = 2
  StrikePrice = 5
  ExpirationDate = 1
  MaxDeposit = 5
  MaxPaid = 10
  MaxTime = 2
INVARIANTS OptionsBacked
PROPERTIES ReleasedAgainstStrike
CHECK_DEADLOCK FALSE
