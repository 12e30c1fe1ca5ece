SPECIFICATION ShutdownSpec
CONSTANTS
  Calls <- StorageCalls
  RequestOf <- StorageRequests
  BadOrigs = {}
  MaxLives = 1
  Pushes = {"p1", "p2"}
  UrlOf <- MCUrlOf
  Stores = {s1}
  StoredBy <- MCStoredBy
  FlushSize = 1
INVARIANTS EarlyDeletesApplied
CHECK_DEADLOCK FALSE
