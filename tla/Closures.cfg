SPECIFICATION Spec
CONSTANTS
  Vals = {Nil}
  Nil = Nil
  Closure = {c1, c2}
  Upvalue = {u1, u2}
  Script = Script
  Arities = {0, 1}
  MAX_FRAME_SIZE = 3
  value_stack_max = 4
  MaxCaptures = 2
  UnsafeErrors = FALSE
  UnsafeContinue = FALSE
SYMMETRY Addresses
INVARIANTS
  TypeOK
  MachineIntact
  OpenListSorted
  OpenUpvaluesOnStack
  OneUpvaluePerVariable
  ReadsTheVariable
