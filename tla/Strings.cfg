SPECIFICATION StringsSpec
CONSTANTS
  Chars = {44, 97}
  Size = 4
  Values = {0, 1, 9, 10, 16, 17, 99, 100, 255, 256, 400, 4096}
  Widths = {1, 2, 4}
INVARIANTS  NumbersRoundTrip
