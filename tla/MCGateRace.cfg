CONSTANTS
  s1 = s1
  s2 = s2
  ip1 = ip1
  Sessions = {s1, s2}
  IPs = {ip1}
  FrontendIP <- PairOnOneAddress
  Parallel = TRUE
  IOFaults = TRUE
  MaxAttempts = 2
  LockoutDuration = 2
  StaleAfter = 1
  MaxClock = 4
  MaxCrashes = 1
SPECIFICATION FairHistorySpec
INVARIANTS TypeOK LockBounded CountBelowMax OneAttemptUnderLock
PROPERTY HungUpSessionEnds
