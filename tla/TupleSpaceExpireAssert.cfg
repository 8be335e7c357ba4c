SPECIFICATION Spec
CONSTANTS
  PoolMax = 2
  Key <- MCKey3
  Embargo = 1
  GreyTimeout = 0
  WhiteTimeout = 1
  Debug = TRUE
  Files <- MCNoFile
  MaxTime = 2
  MaxWhite = 3
INVARIANT
  NoExpireAssert
