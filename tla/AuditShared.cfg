SPECIFICATION FairSpec
CONSTANTS
  gateway = gateway
  server = server
  writer = writer
  loop = loop
  sweeper = sweeper
  writer2 = writer2
  Procs = {gateway, server}
  Threads <- BothThreads
  ProcOf <- BothProcOf
  LoopThreads = {loop}
  PruneThreads = {sweeper}
  Writers = {writer, writer2}
  NoProc = NoProc
  NoThread = NoThread
  SegmentCap = 1
  SegmentKeep = 1
  AppendRetries = 3
  DrainBatch = 2
  Running = {gateway, server}
  QuietStart = TRUE
  LongTails = FALSE
  MaxEvents = 3
  MaxFaults = 1
  MaxPrunes = 1
INVARIANTS TypeOK OneInside ChainIntact AuditOrDeny OneRechain LoopPolls
PROPERTIES StoredStays OperationsEnd
CHECK_DEADLOCK FALSE
