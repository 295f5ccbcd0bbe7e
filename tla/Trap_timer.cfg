SPECIFICATION TrapSpec
CONSTANTS
  Causes = {"software", "timer"}
  Hart = 0
  StackBase = 64
  StackSize = 8
  Processors = 4
  TlsLen = 2
  SaveSpace = 2
  UserSP = 1000
  Junk = {0, 5}
  MaxPC = 3
CHECK_DEADLOCK FALSE
INVARIANT Resumes
