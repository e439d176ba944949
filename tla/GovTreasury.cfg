SPECIFICATION Spec
CONSTANTS
  Users = {a}
  Owner = a
  InitialSupply = 2
  MaxSupply = 2
  MaxBlock = 4
  Accounts = {g, d}
  Deployer = d
  GovContract = g
  Officers = {d}
  MaxDeposits = 2
  Amounts = {1, 2}
  MaxProposals = 2
  InitialParams <- MCStrict
  ParamChoices <- MCChoices
INVARIANTS TreasuryBalances
PROPERTIES OnlyProposalsSpend StaysExecutable
CHECK_DEADLOCK FALSE
