SPECIFICATION Spec
CONSTANTS
  Keys = {1, 2}
  Hooks = {"pool", "symbol"}
  Calls <- MCCalls
  Rate <- MCRate
  ChunkSize = 1
  MaxBlock = 3
  Null = Null
PROPERTIES ImplementsView EventuallySynced
CHECK_DEADLOCK FALSE
