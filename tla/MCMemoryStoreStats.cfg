SPECIFICATION Spec
CONSTANTS
  Threads = {t1, t2, t3}
  Keys <- MCKeys
  Users <- MCUsers
  Origs <- MCOrigs
  Requests <- MCRequests
INVARIANTS StatsOfOneMap
CHECK_DEADLOCK FALSE
