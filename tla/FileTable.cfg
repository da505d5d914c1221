SPECIFICATION Spec
CONSTANTS
  MaxCount = 3
  Uint32 = 8
  main = main
  p1 = p1
  p2 = p2
  f = f
  x = x
  y = y
  z = z
  Tasks = {main, p1, p2}
  Main = main
  First = p1
  Files = {f}
  Slots <- MCSlots
  Fds <- MCFds
  Objects = {x, y, z}
INVARIANTS  PipeHeldWhileOpen 
SYMMETRY MCSymmetry
CHECK_DEADLOCK FALSE
