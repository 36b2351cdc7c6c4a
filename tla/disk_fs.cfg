SPECIFICATION Spec
CONSTANTS
  one = one
  two = two
  NoName = NoName
  Swap = Swap
  Names = {one, two}
  MapSize = 5
  NData = 6
  NSlots = 4
  SwapBlks = 1
  MaxBlks = 2
  PerBlock = 4
  Word = 16
  Sizes = {3, 7}
  Modes = {{"r"}}
  MaxDepth = 2
  MaxOpens = 1
  MaxMarks = 2
  MaxBoots = 1
  MaxDrift = 0
CONSTRAINT MCFollowed
SYMMETRY MCSymmetry
INVARIANTS
  OneEntryEach
  BlocksArePrivate
  MarkedIsOwned
  CountsMatch
  TreeIsSound
PROPERTIES
  ReadOnlyIsKept
\* an undefined step ends the behaviour, as does a bound
CHECK_DEADLOCK FALSE
