SPECIFICATION Spec
CONSTANTS
  Users = {a, b}
  Owner = a
  InitialSupply = 2
  MaxSupply = 3
  MaxBlock = 4
  Accounts = {g, d}
  Deployer = d
  GovContract = g
  Officers = {}
  MaxDeposits = 1
  Amounts = {1}
  MaxProposals = 1
  InitialParams <- MCStrict
  ParamChoices <- MCFixed
INVARIANTS PastVotesConserved VotesBackedBySupply
PROPERTIES PastVotesFixed DecisionStands ImplementsAssembly
CHECK_DEADLOCK FALSE
