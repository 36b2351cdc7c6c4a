SPECIFICATION Spec
CONSTANTS
  boot = boot
  other = other
  p1 = p1
  p2 = p2
  Procs = {p1}
  NoProc = NoProc
  NPages = 3
  PerFile = 1
  SizeWord = 4
  SwapPaths = {boot}
  BootPath = boot
  NVPages = 4
  Blocks = {3}
  CodePages = {0, 1}
  BootAlgs = {"FIFO"}
  Switches = {"FIFO", "LRU"}
  MaxFree = 3
  MaxFiles = 1
  MaxClock = 2
INVARIANTS
  IInv
PROPERTIES
  ReplacesOldest
CHECK_DEADLOCK FALSE
