CONSTANTS
  Chars = {a, b}
  BS = BS
  Ctl = Ctl
  Stale = Stale
  Nul = Nul
  KeyBound = 4
  Typed = {a, b, BS, Ctl}
  Prompts = {"i", "l", "e"}
SPECIFICATION Spec
INVARIANT TypeOK ReturnsEditedLine
CHECK_DEADLOCK FALSE
