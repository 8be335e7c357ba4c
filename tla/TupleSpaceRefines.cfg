SPECIFICATION Spec
CONSTANTS
  PoolMax = 2
  Key <- MCKey3
  Embargo = 1
  GreyTimeout = 1
  WhiteTimeout = 2
  Debug = TRUE
  Files <- MCFiles
  MaxTime = 3
  MaxWhite = 2
INVARIANT
  Sorted
PROPERTIES
  FlagsStickWhileUsed
  ImplementsGreylisting
