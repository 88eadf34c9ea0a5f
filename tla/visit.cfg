SPECIFICATION Spec
CONSTANTS
  Piece <- Pieces
  Home <- MCHome
  Visits <- TargetsAndTexts
  PathSize = 6
  VersionSize = 5
  MaxHops = 3
  None = None
INVARIANT OneRedirect
INVARIANT OneSpelling
INVARIANT OwnDirectory
INVARIANT HiddenAsWritten
INVARIANT PageAsWritten
CHECK_DEADLOCK FALSE
