SPECIFICATION MCSpec
CONSTANTS
  MAX_FILES = 2
  WORD = 16
  Harts = {h1, h2}
  BootHart = h1
  Archives <- MCArchives
  BadDevice = bad
  MountPaths <- MCMountPaths
  OpenPaths <- MCOpenPaths
  Counts = {1, 3}
  Seeks <- MCSeeks
  MaxFd = 4
  MaxInst = 2
INVARIANTS PosInFile DescriptorsExact IteratorValid
PROPERTY ImplementsFiles
