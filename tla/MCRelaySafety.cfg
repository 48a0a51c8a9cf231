CONSTANTS
  IdleTimeout = 2
  MaxTimeout = 9
  InboxCapacity = 1
  Burst = 2
SPECIFICATION TimelessSpec
INVARIANTS TypeOK HangUpIsNoticed
PROPERTIES IdleMeansSilence ExitEndsSession
