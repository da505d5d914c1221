SPECIFICATION Spec
CONSTANTS
  Threads = {idle_task, r1, r2}
  priority <- MCPriority
  Idle = idle_task
  Readers = {r1, r2}
  Keys = {38}
  bufsize = 3
  Bytes <- MCBytes
  NULL = NULL
  MaxPort = 1
  MaxCount = 1
INVARIANT ConsumerSleepsOnlyWhenEmpty
