SPECIFICATION FairSpec
CONSTANTS
  Media <- MCLive
  BufCap = 1
  MaxBatch = 1
PROPERTIES ExitReachesAll ResumeWakes PlaysToTheEnd JumpAnswered
