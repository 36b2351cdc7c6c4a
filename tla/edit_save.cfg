SPECIFICATION Spec
CONSTANTS
  TabStop = 4
  PerBlock = 2
  MaxBlks = 2
  Letters = {"a"}
  InitTexts <- OneText
  Modes <- ReadWrite
  Garbage = {}
  ScreenRows = 2
  QuitTimes = 3
  MaxRows = 3
  MaxChars = 3
  MaxFile = 4
  MaxSearched = 0
  MaxQuery = 1
INVARIANTS
  UnmodifiedIsOnDisk
