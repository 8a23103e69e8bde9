SPECIFICATION Spec
CONSTANTS
  Operators = {a}
  Templates = {t1}
  Actions = {"apply"}
  InitConfigs <- Bare
  EditKinds = {"theme", "font", "interactive", "on", "off"}
  MaxEdits = 1
  MaxFaults = 1
  RawEditor = FALSE
  Admin = FALSE
  LateFaults = FALSE
  None = None
  Free = Free
  Gateway = Gateway
  Managed = Managed
  Foreign = Foreign
PROPERTIES FailedManifestWriteUndone
