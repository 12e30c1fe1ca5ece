SPECIFICATION Spec
CONSTANTS
  Calls <- MCCalls
  RequestOf <- MCRequestOf
  BadOrigs = {"bad"}
  MaxLives = 1
INVARIANT ChangedMeansUnsaved
CHECK_DEADLOCK FALSE
