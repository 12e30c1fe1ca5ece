SPECIFICATION Spec
CONSTANTS
  Calls <- MCCalls
  Hashes <- MCHashes
  Users <- MCUsers
  Origs <- MCOrigs
  Requests <- MCRequests
  MaxClock = 3
  MaxFaults = 1
PROPERTIES UnsetMeansNow
CHECK_DEADLOCK FALSE
