SPECIFICATION FairSpec
CONSTANTS
  Procs = {0, 1, 2}
  HartOf <- OwnHart
  BootProc = 1
  MaxDepth = 2
  None = None
INVARIANTS
  MutualExclusion
  NoLostLock
  CountIsDepth
PROPERTIES
   SpinnersProgress
