SPECIFICATION Spec
CONSTANTS
  Char = {97, 98}
  BUFFER_SIZE = 3
  Builds = {"rmw"}
  MaxKeys = 4
INVARIANT DeliveredInOrder
CHECK_DEADLOCK FALSE
