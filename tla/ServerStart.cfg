CONSTANTS
  ThreadNum = 2
  MaxFd = 6
  Entries = {e1, e2, e3}
  Codes = {404, 500}
  MaxAddrs = 2
SPECIFICATION FairSpec
CHECK_DEADLOCK FALSE
INVARIANTS
  TypeOK
  StartLeavesNothing
  CacheBeforeThreads
PROPERTY NotDeaf
