SPECIFICATION MCSpec
CONSTANTS
    Kinds = {"int", "char"}
    MaxCols = 2
    MaxConns = 2
    MaxSets = 2
    IntW = 3
    LongW = 4
    RealW = 5
    Types = {"bool", "int", "uint", "long", "ulong", "real", "string"}
    Magnitudes = {2, 5, 17}
    MaxRows = 2
    MaxSeen = 3
    MaxVal = 1
    MaxColumn = 2
    NRows = 1
    FirstSize = 8
    MaxText = 20
    MaxTokens = 4
    MaxPiece = 7
INVARIANTS
    ConsumerKeepsUp
    TextAndRowsWhole
    ConsoleServes
PROPERTY
    VariablesFollow
CHECK_DEADLOCK FALSE
