SPECIFICATION Spec
CONSTANTS
  Operators = {a}
  Templates = {t1}
  Actions = {"apply", "activate", "rollback"}
  InitConfigs <- Varied
  EditKinds = {"theme", "font", "interactive", "on", "off"}
  MaxEdits = 1
  MaxFaults = 1
  RawEditor = TRUE
  Admin = TRUE
  LateFaults = TRUE
  None = None
  Free = Free
  Gateway = Gateway
  Managed = Managed
  Foreign = Foreign
INVARIANTS InstallBacked
PROPERTIES RestoreIsInverse ActivatedIsGoverned RolledBackIsClean
