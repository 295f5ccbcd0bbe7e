SPECIFICATION IrqSpec
CONSTANTS
  Harts = {0, 1}
  Procs <- IrqProcs
  HartOf <- IrqHartOf
  BootProc <- IrqBoot
  MaxDepth = 2
  None = None
INVARIANTS
  HartsExclusive
