SPECIFICATION FairSpec
CONSTANTS
  Threads = {idle_task, r, w1, w2}
  priority <- MCPriority
  Idle = idle_task
  Readers = {r}
  Writers = {w1, w2}
  bufsize = 3
  Bytes = {a, b}
  NULL = NULL
  MaxCount = 3
INVARIANTS ReadNeverBlocks LockInv
PROPERTIES ProducerSleepsOnlyWhenFull ImplementsFifo WriteCompletes
