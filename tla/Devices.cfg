SPECIFICATION DevicesSpec
CONSTANTS
  Trees <- MCTrees
  StackCPUs = 2
  Base = 3
  MaxArgs = 2
  AddrCalls <- InRangeCalls
  PhandleCalls <- MCPhandleCalls
  Harts = {h1, h2, h3}
  Boot = h1
  Depth = 3
  Size = 2
  MaxBoot = 4
  MaxOther = 2
INVARIANTS
  CpusExact  BootOutcome 
   ParseCorrect
  NothingDropped BytesInOrder
PROPERTY AllSent
