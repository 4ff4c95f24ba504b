SPECIFICATION Spec
CONSTANTS
  Media <- MCSafety
  BufCap = 1
  MaxBatch = 1
INVARIANTS ErrorStops CleanEnd SeekNotLost FramePaired BufferHoldsStart BufferFollowsClock
PROPERTIES SeeksServed
