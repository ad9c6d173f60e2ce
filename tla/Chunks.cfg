SPECIFICATION Spec
CONSTANTS
  Lengths = {1, 4, 9}
  MaxBlocks = 5
  Texts <- MCTexts
  MinLen = 3
  MaxLen = 6
  WindowSize = 5
  Overlap = 1
  SepLen = 1
  Base = 4
  MaxDropped = 1
INVARIANTS ChunksKeepTheText IdsNameTheirChunks
CHECK_DEADLOCK FALSE
