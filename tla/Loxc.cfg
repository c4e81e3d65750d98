SPECIFICATION Spec
CONSTANTS
  Radix = 256
  MAX_NUMBER_OF_LOCAL_VARIABLES = 6
  LIST_BUILD_APPEND_THRESHOLD = 2
  MAP_BUILD_ADD_THRESHOLD = 1
  MAX_FRAME_SIZE = 3
  MaxWrites = 3
  MaxRuns = 2
  MaxWork = 3
  Sources <- MCSources
  Images <- MCImages
INVARIANTS
  TypeOK
  NothingNeededIsFreed
  RunsWholeProgram
  LoadedAsWritten
  CollectorRuns
PROPERTIES
  LoadingEnds
CHECK_DEADLOCK FALSE
