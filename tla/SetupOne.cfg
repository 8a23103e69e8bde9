SPECIFICATION Spec
CONSTANTS
  Operators = {a}
  NFiles = 2
  MaxSaves = 1
  MaxFaults = 2
  Rollback = TRUE
  None = None
  Free = Free
  Gateway = Gateway
PROPERTIES ConfiguredIsWhole ChangedIsBackedUp RetireKeepsOthers RetiredIsRunning
