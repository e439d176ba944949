SPECIFICATION BankSpec
CONSTANTS
  Pages = {"v1", "v2", "eip712", "permit2", "7702"}
  Wealth = 2
  Amounts = {1}
  MaxCalls = 3
INVARIANTS PermitAsSigned
PROPERTIES BalancesSettle
CHECK_DEADLOCK FALSE
