SPECIFICATION Spec
CONSTANTS
  x = x
  y = y
  primary = primary
  canary = canary
  Scopes = {mcp}
  Items = {x, y}
  MaxRank = 2
  MaxVersion = 2
  Sources = {primary, canary}
  Remotes = {primary, canary}
  Documents <- FourDocuments
  Profile = 1
  MaxEdits = 2
  None = None
  Unparsed = Unparsed
  Absent = Absent
  Unusable = Unusable
INVARIANTS InstalledIsExact RecordIsInstalled
PROPERTIES HomeCannotRefuse
