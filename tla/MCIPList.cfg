\* Addresses of two bits: seven ranges, and rules at every depth.
CONSTANTS
  Bits = 2
  Verdicts = {"greylist", "accept"}
  Lists <- MCLists
  MaxRequests = 1
  MaxChanges = 2

SPECIFICATION Spec

INVARIANTS
  TypeOK
  LongestDecides
  TableFits
  HitsConserved


  
