CONSTANTS
  Chars = {a}
  BS = BS
  Ctl = Ctl
  Stale = Stale
  Nul = Nul
  KeyBound = 20
  Typed = {a}
  Prompts = {"e"}
SPECIFICATION Spec
INVARIANT NoBufferOverrun
CHECK_DEADLOCK FALSE
