SPECIFICATION Spec
CONSTANTS
  a = a
  b = b
  Users = {a, b}
  p = p
  Pools = {p}
  NoPool = NoPool
  Reward = 1
  Precision = 3
  MaxStaked = 3
  MaxBlock = 4
  MaxChanges = 5
  MaxGiven = 1
INVARIANTS SettlementNeverReverts RewardsBounded EtherConserved
PROPERTIES EarnedOnlyGrows OnlyOwnerUncovers
CHECK_DEADLOCK FALSE
