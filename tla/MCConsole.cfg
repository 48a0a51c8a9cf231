CONSTANTS
  Frontend = fe
  Hosts = {fe}
  Nobody = Nobody
  AcceptWindow = 1
  me = s1
  Sessions = {s1, s2}
  MaxAttempts = 1
  LockoutDuration = 1
  StaleAfter = 0
  IdleTimeout = 1
  MaxTimeout = 1
  InboxCapacity = 1
  Burst = 1
SPECIFICATION FairSpec
PROPERTIES ImplementsSession ConsoleEnds
