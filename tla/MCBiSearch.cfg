SPECIFICATION FairSearchSpec
CONSTANTS
  MaxLen = 4
  Key <- MCKey
INVARIANT
  MeetsContract
PROPERTY
  Terminates
CHECK_DEADLOCK FALSE
