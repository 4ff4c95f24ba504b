\* Three frames of one channel.
SPECIFICATION Spec
CONSTANTS
  Frames = 3
  Channels = 1
  Samples = {"x", "y"}
  Times = {0}
  MaxRead = 7
PROPERTIES
  KeepsUnread
