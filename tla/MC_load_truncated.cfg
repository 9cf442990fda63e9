CONSTANTS
  Bad = Bad
  NoFile = NoFile
  Vals = {0, 1, 2}
  MemAddrs = {0, 1}
  Files <- TruncatedFiles
SPECIFICATION Spec
INVARIANT LoadMatchesFile
CHECK_DEADLOCK FALSE
