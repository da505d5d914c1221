SPECIFICATION Spec
CONSTANTS
  BITS_PER_SECTOR = 16
  used_sects = 4
  SecCnts <- MCSecCnts
  DirectBlocks = 2
  IndirectBlocks = 2
  BLOCK_SIZE = 2
  EntriesPerSector = 3
  MAX_FILES_PER_PART = 3
  Uint8 = 256
  Uint32 = 64
  Names = {a, b}
  CommandPaths <- MCCommandPaths
  Counts = {3}
  Offsets <- MCOffsets
  BITS_PER_BYTE = 2
  MaxDepth = 2
  MaxBytes = 6
  MaxKept = 1
INVARIANTS TypeOK  CacheCoherent   CallsTell LayoutFits
 
SYMMETRY NameSymmetry
VIEW MCView
CHECK_DEADLOCK FALSE
