SPECIFICATION Spec
CONSTANTS
  boot = boot
  other = other
  p1 = p1
  p2 = p2
  Procs = {p1, p2}
  NoProc = NoProc
  NPages = 3
  PerFile = 1
  SizeWord = 4
  SwapPaths = {boot, other}
  BootPath = boot
  NVPages = 3
  Blocks = {0, 1, 2}
  CodePages = {0}
  BootAlgs = {"FIFO"}
  Switches = {"LRU"}
  MaxFree = 3
  MaxFiles = 3
  MaxClock = 0
INVARIANTS
  BitmapIsTable SizeCoversUse PresentIsInFrame
PROPERTIES
  ImplementsResidency
CHECK_DEADLOCK FALSE
