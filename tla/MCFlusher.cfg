SPECIFICATION FairSpec
CONSTANTS
  Calls = {c1, c2, c3, c4}
  FlushSize = 2
INVARIANTS StoredExactlyOnce NoLostWakeup EarlyDelivered WedgedOnlyInShutdown
PROPERTIES BatchOwned WedgedForever QueueSpec EventuallyDelivered
CHECK_DEADLOCK FALSE
