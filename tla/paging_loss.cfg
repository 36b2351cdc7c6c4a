SPECIFICATION Spec
CONSTANTS
  boot = boot
  other = other
  p1 = p1
  p2 = p2
  Procs = {p1}
  NoProc = NoProc
  NPages = 4
  PerFile = 1
  SizeWord = 4
  SwapPaths = {boot}
  BootPath = boot
  NVPages = 4
  Blocks = {2}
  CodePages = {0}
  BootAlgs = {"FIFO"}
  Switches = {}
  MaxFree = 4
  MaxFiles = 1
  MaxClock = 0
INVARIANTS
  PresentIsInMemory
CHECK_DEADLOCK FALSE
