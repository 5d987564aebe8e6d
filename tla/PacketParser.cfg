SPECIFICATION MCFairSpec
CONSTANTS
  Parsers <- MCParsers
  Registered = {1, 5}
  Parts <- MCParts
  MaxParts = 2
  MaxPackets = 2
  Word = 256
  Capacity = 7
  MaxBytes = 11
INVARIANTS
  ParsesWholePackets
  NeverThrows
  FirstInFirstOut
PROPERTY ParserEnds
CHECK_DEADLOCK FALSE
