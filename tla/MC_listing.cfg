CONSTANTS
  Tags = {T, U}
  Target = T
  NoFile = NoFile
  Files <- ListingFiles
  NOffset = 3
  MaxLines = 4
SPECIFICATION Spec
INVARIANT TypeOK ShowsWindow
PROPERTY ListingTerminates
CHECK_DEADLOCK FALSE
