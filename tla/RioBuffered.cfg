CONSTANTS
  N = 3
  Total = 7
  Junk = Junk
  Newlines = {2, 3, 6}
  Size = 2
  MaxLen = 3
  Unset = Unset
SPECIFICATION BufferedFairSpec
CHECK_DEADLOCK FALSE
INVARIANTS
  BufferedTypeOK
  CountsExact
  WholeMessageIntact
  BufferedCallsExact
PROPERTY CallsEnd
