SPECIFICATION RuntimeSpec
CONSTANTS
  Harts = {h0, h1, h2}
  Boot = h0
  Zero = Zero
  MaxDepth = 2
  WORD = 4
  MAXHDL = 2
  Tasks = {t1, t2}
  NoTask = none
  ATEXIT_MAX_FUNCS = 3
  Funcs = {d1, d2}
  NULL = null
  MaxObjs = 4
  Causes = {"software", "timer", "ebreak", "ecall", "fault", "high"}
  Hart = 1
  StackBase = 64
  StackSize = 8
  Processors = 4
  TlsLen = 2
  SaveSpace = 2
  UserSP = 1000
  Junk = {0, 5}
  MaxPC = 3
INVARIANTS
  NoStaleOwner
  HeldIsLive SearchEnds
  DestroyedOnce AllDestroyed
  ScratchTellsMode NormalResumes RegsRestored TlsRecovered
PROPERTY ReverseOrder
