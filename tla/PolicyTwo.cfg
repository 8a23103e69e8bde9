SPECIFICATION FairSpec
CONSTANTS
  Operators = {a, b}
  Templates = {t1}
  Actions = {"apply", "rollback"}
  InitConfigs <- Bare
  EditKinds = {"font", "on"}
  MaxEdits = 1
  MaxFaults = 0
  RawEditor = FALSE
  Admin = FALSE
  LateFaults = FALSE
  None = None
  Free = Free
  Gateway = Gateway
  Managed = Managed
  Foreign = Foreign
INVARIANTS DropinHasPolicy
PROPERTIES OperatorsKeepPeers UndoneLeavesNothing OperationsEnd
