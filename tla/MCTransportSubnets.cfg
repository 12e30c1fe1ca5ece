\* MaxClock bounds the clock: a session expires after one tick.
SPECIFICATION Spec
CONSTANTS
  None = None
  Bad = Bad
  Slots <- MCSlots
  Requests <- MCRequests
  Filters <- MCFilters
  Users <- MCUsers
  Lifetime = 1
  MaxClock = 1
INVARIANTS NoSubnetsPass
\* Every request is answered and the clock stops at its bound.
CHECK_DEADLOCK FALSE
