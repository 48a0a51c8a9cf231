CONSTANTS
  IdleTimeout = 2
  MaxTimeout = 5
  InboxCapacity = 1
  Burst = 2
SPECIFICATION Spec
INVARIANT DeadPumpShowsAsSilence
