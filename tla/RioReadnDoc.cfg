CONSTANTS
  N = 2
  Total = 3
  Junk = Junk
SPECIFICATION Spec
CHECK_DEADLOCK FALSE
INVARIANT ReadnFillsBuffer
