SPECIFICATION Spec
CONSTANTS
  Calls <- MCCalls
  Paths <- MCPaths
  Users <- MCUsers
  Origs <- MCOrigs
  Requests <- MCRequests
  MaxTries = 3
INVARIANTS AnswerLeadsToOrig DeletedByOwner DeliveredIsDeleted
CHECK_DEADLOCK FALSE
