SPECIFICATION Spec
CONSTANTS
  Capacity = 7
  MaxBytes = 11
  AnyOrder = TRUE
INVARIANT NoOverrun
