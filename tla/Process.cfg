SPECIFICATION ProcSpec
CONSTANTS
  init = init
  paint = paint
  rw = rw
  rx = rx
  r = r
  krw = krw
  Program = {init, paint}
  InitProgram = init
  Segments <- MCSegments
  PAGE_SIZE = 4
  Radix = 3
  Grain = 2
  CursorPages <- MCCursorPages
  UserStack = 45
  UserStackPages = 2
  MmapBase = 12
  RW = rw
  KernelRW = krw
  Requests <- MCRequests
  Sizes <- MCSizes
  MaxCalls = 4
  MmapStep = 12
  Usable <- MCUsable
  Root = 0
  Index <- MCIndex
  LowerHalf <- MCLowerHalf
  Addresses <- MCAddresses
  Prots = {rw, rx, r, krw}
  Full = full
INVARIANTS ProgramFindsItsImage BlocksUsable
PROPERTIES  DiesOnlyOfCause UsesMemory ProgramStarts
CHECK_DEADLOCK FALSE
