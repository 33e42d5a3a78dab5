CONSTANTS
  Workers = {w1, w2}
  Main = Main
  Conns = {c1, c2}
  Fds = {3, 4, 5, 6}
  PoolLen = 1
  Caches = {{403, 404, 500}, {403}}
  Requests = {"part", "page", "head", "missing", "forbidden", "unreadable", "cgi", "cgiBadStatus"}
  None = None
SYMMETRY Symmetry
SPECIFICATION Spec
CHECK_DEADLOCK FALSE
INVARIANTS
  TypeOK
  DescriptorsHaveOneOwner
  NoSocketLost
  EndHasReason
PROPERTIES
  ImplementsService
  SilentCloseHasReason
  OnlyCgiAndUnreadableLeak
