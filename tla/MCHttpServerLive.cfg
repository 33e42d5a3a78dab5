CONSTANTS
  Workers = {w1, w2}
  Main = Main
  Conns = {staller, asker, mute, mute2}
  Staller = staller
  Asker = asker
  Mute = mute
  Mute2 = mute2
  Fds = {3, 4, 5, 6}
  PoolLen = 1
  Caches = {{500}}
  Requests = {"page"}
  None = None
SPECIFICATION LiveSpec
CHECK_DEADLOCK FALSE
PROPERTY AcceptedIsClosed
