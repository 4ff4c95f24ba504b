\* Any file of up to four packets; two packets are fetched at a time, one may fail.
SPECIFICATION FairSpec
CONSTANTS
  Streams <- MCStreams
  Files <- MCFiles
  Delay <- MCDelay
  Requested = 2
  ALLOWED_FAILURES = 1
INVARIANTS
  NothingLost
  JumpLands
  EmptyMeansStopped
  ThrowsForMany
PROPERTIES
  NoneThrownAfter
  CallsReturn
CHECK_DEADLOCK FALSE
