SPECIFICATION FairSpec
CONSTANTS
  Writers = {v, w}
  Sources = {client}
  Checks = {healthy, unhealthy}
  ErrorCodes <- OneError
  HistoryLimit = 2
  EventLimit = 4
  MaxSkew = 1
  MaxTime = 2
  MaxFaults = 1
  None = None
  Free = Free
INVARIANTS TypeOK HistoryOrdered UncutChangesRecorded
PROPERTIES ImplementsRegister StoresEnd
