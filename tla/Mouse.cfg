SPECIFICATION MouseSpec
CONSTANTS
  Width = 66
  Height = 12
  CURSOR_WIDTH = 5
  CURSOR_HEIGHT = 5
  StartX = 8
  StartY = 3
  Packets <- MCPackets
  MaxPackets = 5
  MaxLost = 2
INVARIANTS MouseTypeOK RealignsWhenCalm ButtonsCurrent
PROPERTY CursorMovesByPacket
CHECK_DEADLOCK FALSE
