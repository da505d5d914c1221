SPECIFICATION FairSpec
CONSTANTS
  Threads = {init, main, idle_task, p1, p2}
  priority <- MCPriority
  Idle = idle_task
  Init1 = init
  Main = main
  Statuses <- MCStatuses
  MaxPid = 6
INVARIANTS NoPanic PidsUnique ParentAlive NoFreedTask WaiterHasNoZombie
PROPERTIES  WaitReturns
