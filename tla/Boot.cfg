SPECIFICATION BootSpec
CONSTANTS
  Width = 66
  Height = 12
  CURSOR_WIDTH = 5
  CURSOR_HEIGHT = 5
  StartX = 8
  StartY = 3
  Packets <- MCPackets
  MaxPackets = 4
  MaxLost = 0
  Regions <- MCRegions
  PAGE_SIZE = 4
  Firmware = {1, 3, 33}
  Key = 30
  MaxKeys = 1
INVARIANTS InterruptsHandled  BootSettles
PROPERTY HandshakeEnds
CHECK_DEADLOCK FALSE
