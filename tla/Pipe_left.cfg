SPECIFICATION Spec
CONSTANTS
  Threads = {idle_task, r, w1}
  priority <- MCPriority
  Idle = idle_task
  Readers = {r}
  Writers = {w1}
  bufsize = 3
  Bytes = {a, b}
  NULL = NULL
  MaxCount = 3
INVARIANT WriteNeverBlocks
