CONSTANTS
  Request = {"r1"}
  MaxCommands = 2
  MaxPings = 1
  MaxBreaks = 1
  MaxConns = 6
  None = None
SPECIFICATION FairSpec
CHECK_DEADLOCK FALSE
INVARIANTS
  TypeOK
  TableHeals
  WillingServerActive
  ConfirmedRequestsArrive
PROPERTIES
  EventuallyRegistered
