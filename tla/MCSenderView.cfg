SPECIFICATION ViewSpec
CONSTANTS
  k1 = k1
  k2 = k2
  k3 = k3
  Key <- MCKey
  Capacity = 2
  Embargo = 2
  GreyTimeout = 1
  WhiteTimeout = 2
  MaxTime = 3
SYMMETRY MCSymmetry
VIEW MCView
INVARIANT
  TypeOK
PROPERTIES
  PersistenceIsRewarded
  NobodyIsEarly
