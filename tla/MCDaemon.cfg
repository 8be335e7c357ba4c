SPECIFICATION Spec
CONSTANTS
  MaxChildren = 2
  NumFiles = 1
  MaxAbends = 1
  Window = 2
  MaxChanges = 1
  MaxCrashes = 4
  MaxBusy = 0
  MaxTime = 4
INVARIANTS TypeOK ZombiesNoticed HousekeepingDue  GivesUpOnBurst
CHECK_DEADLOCK FALSE
PROPERTIES OrdersObeyed HousekeepingGoesOn
