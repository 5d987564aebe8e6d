SPECIFICATION Spec
CONSTANTS
    Workers = {w1, w2}
    Keyboard = TRUE
    AcceptMayFail = TRUE
PROPERTIES
    OnlyEscapeStops
    RunsAndEnds
CHECK_DEADLOCK FALSE
