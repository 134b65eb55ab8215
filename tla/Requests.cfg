CONSTANTS
  c1 = c1
  c2 = c2
  Clients <- Both
  Requests <- AllRequests
  Earlier <- TwoAlarms
  Now = 5
  Times = {7}
  MaxCalls = 2
  MaxUpsets = 2
SPECIFICATION Spec
SYMMETRY Exchange
INVARIANTS TypeOK TablesAgree ActionsComplete ArgsDelivered
PROPERTIES IsRegistry
CHECK_DEADLOCK FALSE
