SPECIFICATION Spec
CONSTANTS
  Threads = {idle_task, r1, r2}
  priority <- MCPriority
  Idle = idle_task
  Readers = {r1, r2}
  Keys = {42, 57373, 38, 57419}
  bufsize = 2
  Bytes <- MCBytes
  NULL = NULL
  MaxPort = 2
  MaxCount = 1
INVARIANTS TypeOK NoPanic ModifiersTrackKeys
