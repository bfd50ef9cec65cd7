SPECIFICATION ProgramsSpec
CONSTANTS
  Width = 1024
  Height = 768
  CURSOR_WIDTH = 5
  CURSOR_HEIGHT = 5
  StartX = 870
  StartY = 100
  Packets <- MCPackets
  MaxPackets = 2
  MaxLost = 0
  Keys = {"1", "2", "q", "Q"}
  BUFFER_SIZE = 2
  MaxKeys = 3
PROPERTIES QReturnsToMenu HeldButtonPaints 
CHECK_DEADLOCK FALSE
