SPECIFICATION Spec
CONSTANTS
  Harts = {0, 1}
  MAX_PROCESSORS = 2
  NoHart = NoHart
INVARIANT
  TimedOutStaysOut
CHECK_DEADLOCK FALSE
