\* Three texts and room for two rules at a time: the array grows twice.
CONSTANTS
  Text = {1, 2, 3}
  Verdicts = {"greylist", "reject"}
  Words = {"greylist", "reject", "remove", "unknown"}
  Delta = 2
  OldCounts = FALSE
  Files <- MCFiles
  MaxRequests = 1
  MaxChanges = 2

SPECIFICATION Spec

INVARIANTS
  TypeOK
  Sorted

PROPERTIES
  ImplementsRuleMap
