SPECIFICATION Spec
CONSTANTS
  gateway = gateway
  fetcher = fetcher
  Procs = {gateway, fetcher}
  Gateways = {gateway}
  MaxDoc = 2
  Unusable = {}
  Barred = {}
  Unfit = {}
  Degrade = FALSE
  MaxFailures = 0
  MaxAges = 0
  MaxLocal = 0
  MaxFetches = 1
INVARIANTS ChildNotBehind
