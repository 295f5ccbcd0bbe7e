SPECIFICATION Spec
CONSTANTS
  Harts = {0, 1}
  MAX_PROCESSORS = 2
  NoHart = NoHart
INVARIANT
  OKHartsReturned
CHECK_DEADLOCK FALSE
