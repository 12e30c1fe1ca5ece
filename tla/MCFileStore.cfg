SPECIFICATION FairSpec
CONSTANTS
  Calls <- MCCalls
  RequestOf <- MCRequestOf
  BadOrigs = {"bad"}
  MaxLives = 2
INVARIANTS FileOfOneDump TornOnlyMidWrite QuietFileIsCurrent CloseKeepsAcked
PROPERTIES CloseReturns EventuallyDumped
CHECK_DEADLOCK FALSE
