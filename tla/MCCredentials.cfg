SPECIFICATION FairSpec
CONSTANTS
  p1 = p1
  p2 = p2
  Processes = {p1, p2}
  Urls = {"here", "there"}
  NoLock = NoLock
  NoFile = NoFile
  NoToken = NoToken
  LockStale = 1
  LockTimeout = 1
  MaxLogins = 2
  MaxRefresh = 1
  MaxFaults = 1
CONSTRAINT Region
INVARIANTS
  RefusedOnlyIfLost
  LogoutIsFinal
PROPERTIES
  RemovesOnlyRevoked
  EveryCommandEnds
