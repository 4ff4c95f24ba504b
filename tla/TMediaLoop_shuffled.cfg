\* Three shuffled songs that are not to be repeated.
SPECIFICATION FairLoopSpec
CONSTANTS
  Paths <- MCPaths
  MaxEntries = 4
  Bad = {"x", "y"}
  Images = {"i"}
  Starts <- Songs
PROPERTIES
  NoRepeatEnds
CHECK_DEADLOCK FALSE
