\* Up to three files with any key, signal and error at any time; up to four left alone;
\* a playlist of up to four files out of three, any sequence of calls.
SPECIFICATION MCSpec
CONSTANTS
  Paths <- MCPaths
  MaxEntries = 4
  Bad = {"x", "y"}
  Images = {"i"}
  Starts <- EveryWay
INVARIANTS
  PlayingIsCurrent
  OnlyFailuresDropped
  NextInTurn
  QueueValid
  InOrder
PROPERTIES
  QuitEnds
  BadEnds
  UnshuffledEnds
  RepeatPlaysAll
  CurrentKept
  PeekAgrees
  RemoveKeepsCurrent
CHECK_DEADLOCK FALSE
