SPECIFICATION FairSpec
CONSTANTS
  Obj = {o1, o2, o3}
  Kinds = {"STRING", "FUNCTION", "CLASS", "INSTANCE", "LIST"}
  Chars = {"a"}
  NoChars = NoChars
  Size <- MCSize
  debug_stress_gc = TRUE
  gc_next_collection = 4
  gc_heap_grow_factor = 1
INVARIANTS
  NoDangling
PROPERTIES
  AllocationEnds
