SPECIFICATION FairSpec
CONSTANTS
  Harts = {0, 1, 2}
  MAX_PROCESSORS = 4
  NoHart = NoHart
INVARIANTS
  OneBootHart
  MainAfterBoot
  CleanupAfterOK
  
PROPERTIES
  OnlyBootRevokes KernelExits OKHartStops
CHECK_DEADLOCK FALSE
