SPECIFICATION Spec
CONSTANTS
  o1 = o1
  o2 = o2
  iplist = iplist
  show = show
  Operator = {o1, o2}
  Immediate = {iplist}
  Reports = {show}
  MaxCommands = 3
  MaxChildren = 2
INVARIANTS TypeOK OkIsEarned PromisedReportIsRead
CHECK_DEADLOCK FALSE
PROPERTIES EveryCommandReturns GldServesAgain
