SPECIFICATION Spec
CONSTANTS
  Calls <- MCCalls
  Hashes <- MCHashes
  Users <- MCUsers
  Origs <- MCOrigs
  Requests <- MCRequests
  MaxTries = 3
  MaxClock = 2
  MaxFaults = 0
INVARIANT AcceptedDeletesApplied
CHECK_DEADLOCK FALSE
