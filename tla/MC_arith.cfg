CONSTANTS
  WordBits = 4
INIT ArithInit
NEXT ArithNext
INVARIANT AdderMatchesReference
