SPECIFICATION Spec
CONSTANTS
  Char = {97, 98}
  BUFFER_SIZE = 3
  Builds = {"rmw", "split"}
  MaxKeys = 5
INVARIANTS TypeOK FifoUnlessRaced KeysAccounted
PROPERTIES  BlockedReaderServed KeepsPromise
CHECK_DEADLOCK FALSE
