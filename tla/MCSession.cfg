CONSTANTS
  fe = fe
  other = other
  third = third
  Peers = {fe, other, third}
  Frontend = fe
  Nobody = Nobody
  AcceptWindow = 2
SPECIFICATION FairSpec
INVARIANTS TypeOK ProgramNeedsAllGates NothingLeftOpen ProgramEndsFirst
PROPERTIES WindowIsBounded
