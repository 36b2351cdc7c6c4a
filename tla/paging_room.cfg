SPECIFICATION Spec
CONSTANTS
  boot = boot
  other = other
  p1 = p1
  p2 = p2
  Procs = {p1, p2}
  NoProc = NoProc
  NPages = 5
  PerFile = 2
  SizeWord = 5
  SwapPaths = {boot}
  BootPath = boot
  NVPages = 3
  Blocks = {2}
  CodePages = {0}
  BootAlgs = {"FIFO"}
  Switches = {}
  MaxFree = 5
  MaxFiles = 1
  MaxClock = 0
SYMMETRY Symmetry
INVARIANTS
  NeverUndefined PagesArePrivate PagesAreConserved SwapIsAccounted
