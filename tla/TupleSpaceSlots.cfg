SPECIFICATION Spec
CONSTANTS
  PoolMax = 2
  Key <- MCKey3
  Embargo = 1
  GreyTimeout = 0
  WhiteTimeout = 1
  Debug = FALSE
  Files <- MCSavedFiles
  MaxTime = 2
  MaxWhite = 3
INVARIANTS
  TypeOK
  NoAlias
  FlaggedFirst
  WhitelistedCovers
  MarksBracket
