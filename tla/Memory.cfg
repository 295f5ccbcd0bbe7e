SPECIFICATION MemorySpec
CONSTANTS
  Levels = 3
  Fan = 4
  Frames <- MCFrames
  Requests <- MCRequests
  Mgrs = {m1, m2}
  Maps = {a, g}
  Globals = {g}
  MaxLen = 4
INVARIANTS
  TablesNotShared NoWildWalk
  ConfirmExact ConfirmSucceeds
PROPERTY ImplementsMap
