\* Stereo, four frames of queue: any interleaving of the three threads.
SPECIFICATION FairSpec
CONSTANTS
  Channels = 2
  CapFrames = 4
  BufferFrames = 3
  RampFrames = 5
  Timed = TRUE
  MayFail = TRUE
INVARIANTS
  TypeOK
  Quiet
  Filled
PROPERTIES
  StartReturns
  StopReturns
CHECK_DEADLOCK FALSE
