SPECIFICATION FairSpec
CONSTANTS
  gateway = gateway
  fetcher = fetcher
  Procs = {gateway, fetcher}
  Gateways = {gateway}
  MaxDoc = 4
  Unusable = {2}
  Barred = {3}
  Unfit <- Tight
  Degrade = TRUE
  MaxFailures = 1
  MaxAges = 1
  MaxLocal = 1
  MaxFetches = 1
INVARIANTS RefusedNeverServed CachePaired
PROPERTIES NeverReplacedByOlder Follows
