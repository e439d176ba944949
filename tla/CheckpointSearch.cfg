SPECIFICATION SearchSpec
CONSTANTS
  MaxBlock = 5
  Weights = {0, 1, 2}
  Histories <- MCHistories
  Blocks <- MCBlocks
INVARIANTS SearchCorrect
CHECK_DEADLOCK FALSE
