CONSTANTS
  Bad = Bad
  NoFile = NoFile
  Vals = {0, 1, 2}
  MemAddrs = {0, 1}
  Files <- WellFormedFiles
SPECIFICATION Spec
INVARIANT LoadMatchesFile
PROPERTY LoadTerminates
CHECK_DEADLOCK FALSE
