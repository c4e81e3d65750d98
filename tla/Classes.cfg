SPECIFICATION Spec
CONSTANTS
  Obj = {c1, c2, f1, f2, i1, b1}
  Nil = Nil
  Names = {init, m}
  FieldNames = {m}
  init = init
  c1 = c1
  c2 = c2
  f1 = f1
  f2 = f2
  i1 = i1
  b1 = b1
  A = A
  B = B
  Globals = {A, B}
  Assigned = {A}
  Superclass <- MCSuperclass
  Arities = {0}
  MAX_FRAME_SIZE = 3
  value_stack_max = 3
  Addresses <- MCAddresses
INVARIANTS
  TypeOK
  ThisFitsMethod
  InitializerTabled
  NothingHeldIsFreed
PROPERTIES
  ConstructorYieldsInstance
