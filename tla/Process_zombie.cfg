SPECIFICATION Spec
CONSTANTS
  Threads = {init, main, idle_task, p1, p2, p3}
  priority <- MCPriority
  Idle = idle_task
  Init1 = init
  Main = main
  Statuses <- MCStatuses
  MaxPid = 6
SYMMETRY PageSymmetry
INVARIANT InitReapsZombies
