CONSTANTS
  ThreadNum = 1
  MaxFd = 6
  Entries = {e1}
  Codes = {404}
  MaxAddrs = 1
SPECIFICATION Spec
CHECK_DEADLOCK FALSE
INVARIANT ListenOrThrow
