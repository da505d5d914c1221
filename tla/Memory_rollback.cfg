SPECIFICATION Spec
CONSTANTS
  Procs = {init, p}
  Init1 = init
  Kernel = Kernel
  KernelPages = 13
  UserFrames = 4
  UserPages = 3
  PagesPerTable = 2
  BitmapPages = 2
  BitmapWholePages = 1
  blocks_per_arena = 2
  LargePages = 2
  ImagePages = 1
  MaxHeld = 2
  MaxKernelHeld = 1
  NULL = NULL
INVARIANTS ReservedIsMapped
CHECK_DEADLOCK FALSE
