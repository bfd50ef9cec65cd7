SPECIFICATION MemSpec
CONSTANTS
  Usable <- MCUsable
  Root = 0
  Index <- MCIndex
  LowerHalf <- MCLowerHalf
  Addresses <- MCAddresses
  Prots = {rw, rx}
  Full = full
INVARIANTS MemTypeOK FramesExclusive TlbCoherent
PROPERTIES OnlyTargetChanges MapsFreshPage
CHECK_DEADLOCK FALSE
