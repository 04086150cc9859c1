SPECIFICATION FairSpec
CONSTANTS
  Nobody = Nobody
  Users = {a, b}
  Elsewhere = {a}
  MaxOrders = 2
  MaxCalls = 2
  MaxLoads = 2
INVARIANTS
  SettledIsCurrent
  OrdersListedOnce
PROPERTIES
  SubmitEnds
  DisconnectLogsOut
CHECK_DEADLOCK FALSE
