\* Every command line of up to four words out of fourteen, and other options; six units of time and a
\* film of four; the three threads of an audio file.
SPECIFICATION MCSpec
CONSTANTS
  Duration = 4
  Seek = 2
  EndTime = 5
  Writers = {"audio"}
  Readers = {"fill"}
  Peekers = {"video"}
  Capacity = 4
  MaxBatch = 3
  Arguments <- MCArguments
  Lex <- MCLex
  Int32 <- MCNumber
  Percent <- MCNumber
  PathOf <- MCPathOf
  Places <- MCPlaces
  Children <- MCChildren
  media_type <- MCMediaType
INVARIANTS
  GoesOnFromTick
  WordsUsedOnce
  FilesAsAsked
  BatonHeld
