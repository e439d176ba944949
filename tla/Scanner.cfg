SPECIFICATION ScanSpec
CONSTANTS
  Limit = 2
  PageLimit = 3
  MaxSlots = 4
  MaxFaults = 1
INVARIANTS ReportedInOrder
PROPERTIES ImplementsFeed EverythingReported InterruptEnds
CHECK_DEADLOCK FALSE
