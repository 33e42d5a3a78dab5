CONSTANTS
  Workers = {w1, w2}
  Cap = 2
  MaxOut = 3
  ExecMayFail = TRUE
  Server = Server
  Conns = {c1, c2}
  PoolLen = 1
  None = None
SPECIFICATION ForkedFairSpec
CHECK_DEADLOCK FALSE
INVARIANTS
  ForkedTypeOK
  ReapBalance
  OutputComplete
  OneReadIfInTime
  StuckHasReason
  AnsweredOnce
PROPERTY ClientsSeeTheEnd
