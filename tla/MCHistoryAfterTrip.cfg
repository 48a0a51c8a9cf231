CONSTANTS
  s1 = s1
  s2 = s2
  ip1 = ip1
  Sessions = {s1, s2}
  IPs = {ip1}
  FrontendIP <- PairOnOneAddress
  Parallel = TRUE
  IOFaults = FALSE
  MaxAttempts = 3
  LockoutDuration = 2
  StaleAfter = 1
  MaxClock = 2
  MaxCrashes = 0
SPECIFICATION HistorySpec
SYMMETRY SessionSymmetry
INVARIANT AtMostOneAfterTrip
