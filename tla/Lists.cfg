SPECIFICATION ListsSpec
CONSTANTS
  Urls = {"x", "y"}
  Releases <- MCReleases
  Defaults <- MCDefaults
  DefaultUrl = "x"
  Bundled = 1
  Ids = {1, 2, 3, 4}
  Newest <- MCNewest
  MaxFlight = 2
  MaxReloads = 1
INVARIANTS PendingIsNewer
PROPERTIES ListsSettle
CHECK_DEADLOCK FALSE
