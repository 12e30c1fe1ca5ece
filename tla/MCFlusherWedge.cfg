SPECIFICATION FairSpec
CONSTANTS
  Calls = {c1, c2}
  FlushSize = 1
PROPERTY InterruptEndsRun
CHECK_DEADLOCK FALSE
