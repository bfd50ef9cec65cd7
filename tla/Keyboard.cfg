SPECIFICATION KeyboardSpec
CONSTANTS
  Char <- MCChar
  Layout <- MCLayout
  Extended = {}
  Modifiers <- MCModifiers
  BUFFER_SIZE = 2
  Builds = {"split"}
  MaxKeys = 3
  MaxWire = 1
  Sizes = {1, 2}
INVARIANTS FlagsFollowKeys StoredAsTyped ReceivedInOrder
PROPERTIES UsesRing KeyEndsRead
