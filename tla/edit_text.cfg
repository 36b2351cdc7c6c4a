SPECIFICATION Spec
CONSTANTS
  TabStop = 2
  PerBlock = 16
  MaxBlks = 2
  Letters = {"/", "*"}
  InitTexts <- TabText
  Modes <- ReadWrite
  Garbage = {}
  ScreenRows = 2
  QuitTimes = 1
  MaxRows = 4
  MaxChars = 3
  MaxFile = 1
  MaxSearched = 2
  MaxQuery = 2
INVARIANTS
  CursorInText
  FoundIsThere
PROPERTIES
  ColoursFollow
  ImplementsTextBuffer
