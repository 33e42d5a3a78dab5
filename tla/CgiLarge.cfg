CONSTANTS
  Workers = {w1}
  Cap = 1
  MaxOut = 2
  ExecMayFail = FALSE
  Server = Server
SPECIFICATION FairSpec
CHECK_DEADLOCK FALSE
PROPERTY SomeRequestEnds
