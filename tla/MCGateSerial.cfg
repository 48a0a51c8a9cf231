CONSTANTS
  s1 = s1
  s2 = s2
  s3 = s3
  ip1 = ip1
  ip2 = ip2
  Sessions = {s1, s2, s3}
  IPs = {ip1, ip2}
  FrontendIP <- TwoAddresses
  Parallel = FALSE
  IOFaults = FALSE
  MaxAttempts = 3
  LockoutDuration = 1
  StaleAfter = 0
  MaxClock = 2
  MaxCrashes = 1
SPECIFICATION Spec
INVARIANT NoLockWithoutFailures
PROPERTY ImplementsPolicy
