SPECIFICATION Spec
CONSTANTS
  gateway = gateway
  server = server
  writer = writer
  loop = loop
  sweeper = sweeper
  writer2 = writer2
  Procs = {gateway, server}
  Threads <- BothThreads
  ProcOf <- BothProcOf
  LoopThreads = {loop}
  PruneThreads = {sweeper}
  Writers = {writer, writer2}
  NoProc = NoProc
  NoThread = NoThread
  SegmentCap = 2
  SegmentKeep = 1
  AppendRetries = 3
  DrainBatch = 2
  Running = {gateway}
  QuietStart = FALSE
  LongTails = FALSE
  MaxEvents = 3
  MaxFaults = 1
  MaxPrunes = 0
CHECK_DEADLOCK FALSE
INVARIANT ChainIntact
