SPECIFICATION Spec
CONSTANTS
  Radix = 9
  MAX_NUMBER_OF_LOCAL_VARIABLES = 14
  LIST_BUILD_APPEND_THRESHOLD = 2
  MAP_BUILD_ADD_THRESHOLD = 1
  MAX_FRAME_SIZE = 3
  value_stack_max = 8
  MaxInputs = 4
  Programs <- MCPrograms
  Compiled <- MCCompiled
  Texts <- MCTexts
INVARIANTS
  TypeOK
  RunsAsWritten
  StackMatchesLocals
  RejectsExactly
PROPERTIES
  ConstKeepsValue
  ProgramsEnd
