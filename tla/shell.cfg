SPECIFICATION Spec
CONSTANTS
  Dirs <- Tree
  Lines <- TypedLines
  WindowPaths <- TypedInWindow
  MaxParts = 3
  MaxWindows = 1
INVARIANTS
  ModesAgree
PROPERTIES
  CdAgrees
  ExitEnds
CHECK_DEADLOCK FALSE
