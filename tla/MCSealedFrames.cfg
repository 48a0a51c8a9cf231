CONSTANTS
  HeaderLen = 2
  Overhead = 2
  NonceSize = 1
  maxFrameLen = 4
  Sizes = {0, 1, 2, 3}
  MaxFrames = 3
  MaxCorrupted = 1
SPECIFICATION FairSpec
INVARIANTS TypeOK FailureHasCause
PROPERTIES ImplementsChannel FramesArrive
