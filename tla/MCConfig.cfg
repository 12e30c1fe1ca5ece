SPECIFICATION ConfigSpec
CONSTANTS
  Zero = Zero
  Unset = Unset
  Refused = Refused
  Params <- MCParams
  SectionOf <- MCSectionOf
  DefaultOf <- MCDefaultOf
  FlagVals <- MCFlagVals
  FileVals <- MCFileVals
  EnvVals <- MCEnvVals
  Focus <- MCFocus
INVARIANTS
  Precedence
  MemoryOnlyOnRequest
\* New and createStorage return.
CHECK_DEADLOCK FALSE
