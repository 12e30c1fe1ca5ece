SPECIFICATION ShutdownFairSpec
CONSTANTS
  Calls <- StorageCalls
  RequestOf <- StorageRequests
  BadOrigs = {}
  MaxLives = 1
  Pushes = {"p1", "p2"}
  UrlOf <- MCUrlOf
  Stores = {s1}
  StoredBy <- MCStoredBy
  FlushSize = 1
INVARIANTS LostOnlyInShutdown
PROPERTIES ProcessEnds
CHECK_DEADLOCK FALSE
