CONSTANTS
  Workers = {w1}
  Main = Main
  Conns = {c1}
  Fds = {3, 4, 5}
  PoolLen = 1
  Caches = {{403, 404, 500}}
  Requests = {"page", "head", "missing"}
  None = None
SPECIFICATION Spec
CHECK_DEADLOCK FALSE
INVARIANT PeerCannotStopServer
