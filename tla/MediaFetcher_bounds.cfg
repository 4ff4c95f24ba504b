SPECIFICATION Spec
CONSTANTS
  Media <- MCBounds
  BufCap = 1
  MaxBatch = 1
INVARIANTS SeekTargetInBounds
