SPECIFICATION Spec
CONSTANTS
  Obj = {o1, o2, o3, o4}
  Kinds = {"STRING", "FUNCTION", "CLOSURE", "CLASS", "UPVALUE"}
  Chars = {"a"}
  NoChars = NoChars
  Size <- MCSize
  debug_stress_gc = FALSE
  gc_next_collection = 4
  gc_heap_grow_factor = 1
SYMMETRY Addresses
INVARIANTS
  TypeOK
  NoDangling
  VectorExact
  StringsUnique
  NoStaleMarks
  BytesExact
PROPERTIES
  CollectsEverything
  ImplementsMemory
