SPECIFICATION ScreenSpec
CONSTANTS
  Width = 5
  Height = 3
  CURSOR_WIDTH = 2
  CURSOR_HEIGHT = 1
  StartX = 1
  StartY = 0
  Packets <- MCPackets
  MaxPackets = 3
  MaxLost = 0
  Colors = {red}
  BLACK = black
  WHITE = white
  Rectangles <- MCRectangles
  GLYPH = 2
  Font <- MCFont
  Texts <- MCTexts
  Word = 16
  MaxCalls = 2
INVARIANT ClearedToBlack
CHECK_DEADLOCK FALSE
