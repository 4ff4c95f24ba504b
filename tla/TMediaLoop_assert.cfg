\* A shuffled playlist with a file that cannot be opened.
SPECIFICATION LoopSpec
CONSTANTS
  Paths <- MCPaths
  MaxEntries = 4
  Bad = {"x", "y"}
  Images = {"i"}
  Starts <- OneBad
INVARIANTS
  AssertionsHold
CHECK_DEADLOCK FALSE
