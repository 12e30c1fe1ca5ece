SPECIFICATION Spec
CONSTANTS
  Calls <- MCCalls
  Paths <- MCPaths
  Users <- MCUsers
  Origs <- MCOrigs
  Requests <- MCRequests
  MaxTries = 3
INVARIANTS EveryAnswerLeadsToOrig
CHECK_DEADLOCK FALSE
