SPECIFICATION Spec
CONSTANTS
  main = main
  initp = initp
  idle = idle
  p1 = p1
  chan = chan
  pool = pool
  Threads <- MCThreads
  priority <- MCPriority
  Idle = idle
  Main = main
  InitProc = initp
  Locks = {chan, pool}
  ChanLock = chan
  DiskDone = DiskDone
  NULL = NULL
  MaxRepeat = 2
INVARIANTS MutualExclusion TypeOK NoPanic OneListPerTask NoLostWakeup
PROPERTIES HolderChanges ImplementsMutex
