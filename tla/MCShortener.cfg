SPECIFICATION FairSpec
CONSTANTS
  Calls <- MCCalls
  Hashes <- MCHashes
  Users <- MCUsers
  Origs <- MCOrigs
  Requests <- MCRequests
  MaxTries = 3
  MaxClock = 2
  MaxFaults = 1
INVARIANTS AnswerLeadsToOrig DeletedByEarlierOwner
PROPERTIES ErrorStoresNothing UrlStoreSpec DeletionApplied
CHECK_DEADLOCK FALSE
