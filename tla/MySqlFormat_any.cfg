SPECIFICATION Spec
CONSTANTS
    Start = 8
    MaxLength = 20
INVARIANT
    SubstitutedWhole
CHECK_DEADLOCK FALSE
