SPECIFICATION ConsoleSpec
CONSTANTS
  VGA_WIDTH = 3
  VGA_HEIGHT = 2
  Printable <- MCPrintable
  Formats <- MCFormats
  Exceptions <- MCExceptions
  NotSupported <- MCNotSupported
  MaxPrints = 4
INVARIANT TermTypeOK
PROPERTIES ShowsTranscript HandlerEnds
CHECK_DEADLOCK FALSE
