SPECIFICATION Spec
CONSTANTS
  Calls <- MCCalls
  RequestOf <- MCRequestOf
  BadOrigs = {"bad"}
  MaxLives = 2
INVARIANT SavedFileLoads
CHECK_DEADLOCK FALSE
