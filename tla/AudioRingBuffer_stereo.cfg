\* Three stereo frames, read more than twice around.
SPECIFICATION Spec
CONSTANTS
  Frames = 3
  Channels = 2
  Samples = {"x", "y"}
  Times = {0, 1}
  MaxRead = 7
INVARIANTS
  CountsAddUp
PROPERTIES
  Fifo
