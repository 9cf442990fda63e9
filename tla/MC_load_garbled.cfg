CONSTANTS
  Bad = Bad
  NoFile = NoFile
  Vals = {0, 1, 2}
  MemAddrs = {0, 1}
  Files <- GarbledFiles
SPECIFICATION Spec
PROPERTY LoadTerminates
CHECK_DEADLOCK FALSE
