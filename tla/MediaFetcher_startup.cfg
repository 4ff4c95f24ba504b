SPECIFICATION Spec
CONSTANTS
  Media <- MCStartup
  BufCap = 1
  MaxBatch = 1
INVARIANTS NeverLeftInUse
