------------------------------ MODULE HeapProofs ------------------------------
(***************************************************************************)
(* Proofs about the allocator and the collector, for any number of         *)
(* objects, any contents and sizes, and any options.                       *)
(***************************************************************************)
EXTENDS Heap, ObjectsProofs, FiniteSetTheorems, WellFoundedInduction

-----------------------------------------------------------------------------
(* The program's own steps.  Between allocations there are no marks, all   *)
(* objects count as survivors and no new object is under way.              *)

(* The program loads a pointer from an object it has.                      *)
LEMMA LoadInv == HeapInv /\ Load => HeapInv'
<1> SUFFICES ASSUME HeapInv, Load PROVE HeapInv'
  OBVIOUS
<1> USE DEF HeapInv
<1>1. PICK o \in roots : \E x \in RefsOf(heap[o]) : roots' = roots \cup {x}
  BY DEF Load
<1>2. PICK x \in RefsOf(heap[o]) : roots' = roots \cup {x}
  BY <1>1
<1>3. /\ pc = "idle" /\ pc' = "idle"
      /\ UNCHANGED <<heap, objs, interned_strings, net_bytes, next_gc, gc_disabled,
                     is_marked, grey_objects, resume, i, request, temp_stash>>
  BY DEF Load, collector, allocation
<1>4. x \in DOMAIN heap
  BY <1>3 DEF GraphClosed, Survivors, AllRoots
<1>5. TypeOK'
  BY <1>2, <1>3, <1>4 DEF TypeOK, Stage, Collecting
<1>6. VectorExact' /\ NoStaleMarks' /\ InitializerTabled'
  BY <1>3 DEF VectorExact, NoStaleMarks, InitializerTabled
<1>7. GraphClosed'
  BY <1>2, <1>3, <1>4 DEF GraphClosed, Survivors, AllRoots
<1>8. ArgumentsRooted' /\ TriColour' /\ Sweeping' /\ PoolExact'
  BY <1>3 DEF ArgumentsRooted, TriColour, Sweeping, PoolExact, Survivors
<1> QED
  BY <1>5, <1>6, <1>7, <1>8

(* The program forgets roots.                                              *)
LEMMA DropInv == HeapInv /\ Drop => HeapInv'
<1> SUFFICES ASSUME HeapInv, Drop PROVE HeapInv'
  OBVIOUS
<1> USE DEF HeapInv
<1>1. /\ pc = "idle" /\ pc' = "idle" /\ roots' \subseteq roots
      /\ UNCHANGED <<heap, objs, interned_strings, net_bytes, next_gc, gc_disabled,
                     is_marked, grey_objects, resume, i, request, temp_stash>>
  BY DEF Drop, collector, allocation
<1>2. TypeOK'
  BY <1>1 DEF TypeOK, Stage, Collecting
<1>3. VectorExact' /\ NoStaleMarks' /\ InitializerTabled'
  BY <1>1 DEF VectorExact, NoStaleMarks, InitializerTabled
<1>4. GraphClosed'
  BY <1>1 DEF GraphClosed, Survivors, AllRoots
<1>5. ArgumentsRooted' /\ TriColour' /\ Sweeping' /\ PoolExact'
  BY <1>1 DEF ArgumentsRooted, TriColour, Sweeping, PoolExact, Survivors
<1> QED
  BY <1>2, <1>3, <1>4, <1>5

(* The program switches the collector on or off.                           *)
LEMMA SwitchGCInv == HeapInv /\ SwitchGC => HeapInv'
<1> SUFFICES ASSUME HeapInv, SwitchGC PROVE HeapInv'
  OBVIOUS
<1> USE DEF HeapInv
<1>1. /\ pc = "idle" /\ pc' = "idle" /\ gc_disabled' \in BOOLEAN
      /\ UNCHANGED <<roots, heap, objs, interned_strings, net_bytes, next_gc,
                     is_marked, grey_objects, resume, i, request, temp_stash>>
  BY DEF SwitchGC, collector, allocation
<1>2. TypeOK'
  BY <1>1 DEF TypeOK, Stage, Collecting
<1>3. VectorExact' /\ NoStaleMarks' /\ InitializerTabled'
  BY <1>1 DEF VectorExact, NoStaleMarks, InitializerTabled
<1>4. GraphClosed'
  BY <1>1 DEF GraphClosed, Survivors, AllRoots
<1>5. ArgumentsRooted' /\ TriColour' /\ Sweeping' /\ PoolExact'
  BY <1>1 DEF ArgumentsRooted, TriColour, Sweeping, PoolExact, Survivors
<1> QED
  BY <1>2, <1>3, <1>4, <1>5

(* An object o gets new pointers, all to objects that exist.               *)
LEMMA AssignInv ==
  ASSUME HeapInv, pc = "idle", NEW o \in DOMAIN heap,
         NEW ptr \in Pointers(heap[o].kind),
         Refs(heap[o].kind, ptr) \subseteq DOMAIN heap,
         heap[o].kind = "CLASS" => ptr["init_method"] \subseteq ptr["methods"],
         heap' = [heap EXCEPT ![o].ptr = ptr],
         UNCHANGED <<roots, objs, interned_strings, net_bytes, next_gc, gc_disabled,
                     is_marked, grey_objects, resume, i, pc, request, temp_stash>>
  PROVE  HeapInv'
<1> USE DEF HeapInv
<1>1. heap[o] \in ObjectType
  BY DEF TypeOK
<1>2. /\ DOMAIN heap' = DOMAIN heap
      /\ \A y \in DOMAIN heap : y # o => heap'[y] = heap[y]
      /\ heap'[o] = [heap[o] EXCEPT !.ptr = ptr]
  OBVIOUS
<1>3. /\ heap'[o].kind = heap[o].kind /\ heap'[o].chars = heap[o].chars
      /\ heap'[o].ptr = ptr /\ heap'[o] \in ObjectType
  BY <1>1, <1>2 DEF ObjectType
<1>4. TypeOK'
  BY <1>2, <1>3 DEF TypeOK, Stage, Collecting
<1>5. VectorExact' /\ NoStaleMarks'
  BY <1>2 DEF VectorExact, NoStaleMarks
<1>6. InitializerTabled'
  BY <1>2, <1>3 DEF InitializerTabled
<1>7. GraphClosed'
  <2>1. Survivors' = DOMAIN heap /\ Survivors = DOMAIN heap
    BY <1>2 DEF Survivors
  <2>2. ASSUME NEW y \in DOMAIN heap
        PROVE  RefsOf(heap'[y]) \subseteq DOMAIN heap
    <3>1. CASE y = o
      BY <1>3, <3>1 DEF RefsOf
    <3>2. CASE y # o
      BY <1>2, <3>2, <2>1 DEF GraphClosed
    <3> QED
      BY <3>1, <3>2
  <2> QED
    BY <1>2, <2>1, <2>2 DEF GraphClosed, AllRoots
<1>8. ArgumentsRooted' /\ TriColour' /\ Sweeping'
  BY DEF ArgumentsRooted, TriColour, Sweeping
<1>9. PoolExact'
  BY <1>2, <1>3 DEF PoolExact, Survivors
<1> QED
  BY <1>4, <1>5, <1>6, <1>7, <1>8, <1>9

(* The program stores a pointer it has into a member, or clears one.       *)
LEMMA StoreInv == HeapInv /\ Store => HeapInv'
<1> SUFFICES ASSUME HeapInv, Store PROVE HeapInv'
  OBVIOUS
<1>0. PICK o \in roots : \E f \in FieldsOf(heap[o].kind) \cap Mutable :
        \E S \in {{}} \cup {heap[o].ptr[f] \cup {x} : x \in OfKind(f) \cap roots} :
          heap' = [heap EXCEPT ![o].ptr[f] = S]
  BY DEF Store
<1>1. PICK f \in FieldsOf(heap[o].kind) \cap Mutable :
        \E S \in {{}} \cup {heap[o].ptr[f] \cup {x} : x \in OfKind(f) \cap roots} :
          heap' = [heap EXCEPT ![o].ptr[f] = S]
  BY <1>0
<1>2. PICK S \in {{}} \cup {heap[o].ptr[f] \cup {x} : x \in OfKind(f) \cap roots} :
        heap' = [heap EXCEPT ![o].ptr[f] = S]
  BY <1>1
<1> DEFINE ptr == [heap[o].ptr EXCEPT ![f] = S]
<1>3. /\ pc = "idle"
      /\ UNCHANGED <<roots, objs, interned_strings, net_bytes, next_gc, gc_disabled,
                     is_marked, grey_objects, resume, i, pc, request, temp_stash>>
  BY DEF Store, collector, allocation
<1>4. Survivors = DOMAIN heap /\ roots \subseteq DOMAIN heap
  BY <1>3 DEF HeapInv, GraphClosed, Survivors, AllRoots
<1>5. /\ o \in DOMAIN heap /\ heap[o] \in ObjectType
      /\ heap[o].kind \in Kind /\ heap[o].ptr \in Pointers(heap[o].kind)
      /\ DOMAIN heap \subseteq Obj
  BY <1>1, <1>4 DEF HeapInv, TypeOK, ObjectType
<1>6. RefsOf(heap[o]) \subseteq DOMAIN heap
  BY <1>4, <1>5 DEF HeapInv, GraphClosed
<1>7. S \subseteq DOMAIN heap
  <2>1. heap[o].ptr[f] \subseteq DOMAIN heap
    BY <1>1, <1>6 DEF RefsOf, Refs
  <2> QED
    BY <1>2, <1>4, <2>1
<1>8. ptr \in Pointers(heap[o].kind)
  BY <1>5, <1>7 DEF Pointers
<1>9. Refs(heap[o].kind, ptr) \subseteq DOMAIN heap
  <2>1. \A e \in FieldsOf(heap[o].kind) : ptr[e] \subseteq DOMAIN heap
    BY <1>5, <1>6, <1>7 DEF RefsOf, Refs, Pointers
  <2> QED
    BY <2>1 DEF Refs
<1>10. heap[o].kind = "CLASS" => ptr["init_method"] \subseteq ptr["methods"]
  <2>1. f # "init_method" /\ f # "methods"
    BY <1>1 DEF Mutable
  <2>2. SUFFICES ASSUME heap[o].kind = "CLASS"
                 PROVE  ptr["init_method"] \subseteq ptr["methods"]
    OBVIOUS
  <2>3. "init_method" \in FieldsOf(heap[o].kind) /\ "methods" \in FieldsOf(heap[o].kind)
    BY <2>2 DEF FieldsOf
  <2>4. ptr["init_method"] = heap[o].ptr["init_method"] /\ ptr["methods"] = heap[o].ptr["methods"]
    BY <1>5, <2>1, <2>3 DEF Pointers
  <2> QED
    BY <1>5, <2>2, <2>4 DEF HeapInv, InitializerTabled
<1>11. heap' = [heap EXCEPT ![o].ptr = ptr]
  BY <1>2, <1>5 DEF ObjectType
<1> HIDE DEF ptr
<1> QED
  BY <1>3, <1>5, <1>8, <1>9, <1>10, <1>11, AssignInv

(* A class gets a method; an initializer is tabled as it is cached.        *)
LEMMA StoreMethodInv == HeapInv /\ StoreMethod => HeapInv'
<1> SUFFICES ASSUME HeapInv, StoreMethod PROVE HeapInv'
  OBVIOUS
<1>1. PICK o \in roots, x \in roots, is_init \in BOOLEAN :
        /\ heap[o].kind = "CLASS" /\ heap[x].kind = "CLOSURE"
        /\ heap' = [heap EXCEPT ![o].ptr = WithMethod(@, x, is_init)]
  BY DEF StoreMethod
<1> DEFINE old == heap[o].ptr
           ptr == WithMethod(old, x, is_init)
<1>2. /\ pc = "idle"
      /\ UNCHANGED <<roots, objs, interned_strings, net_bytes, next_gc, gc_disabled,
                     is_marked, grey_objects, resume, i, pc, request, temp_stash>>
  BY DEF StoreMethod, collector, allocation
<1>3. Survivors = DOMAIN heap /\ roots \subseteq DOMAIN heap
  BY <1>2 DEF HeapInv, GraphClosed, Survivors, AllRoots
<1>4. /\ o \in DOMAIN heap /\ x \in DOMAIN heap /\ heap[o] \in ObjectType
      /\ old \in Pointers(heap[o].kind) /\ DOMAIN heap \subseteq Obj
  BY <1>1, <1>3 DEF HeapInv, TypeOK
<1>5. RefsOf(heap[o]) \subseteq DOMAIN heap
  BY <1>3, <1>4 DEF HeapInv, GraphClosed
<1>6. FieldsOf(heap[o].kind) = {"name", "method_names", "methods", "init_method"}
  BY <1>1 DEF FieldsOf
<1>7. \A e \in FieldsOf(heap[o].kind) : old[e] \subseteq DOMAIN heap
  BY <1>5 DEF RefsOf, Refs
<1>8. old["init_method"] \subseteq old["methods"]
  BY <1>1, <1>4 DEF HeapInv, InitializerTabled
<1>9. ptr \in Pointers(heap[o].kind)
  BY <1>4, <1>6, <1>7 DEF Pointers, WithMethod
<1>10. /\ \A e \in FieldsOf(heap[o].kind) : ptr[e] \subseteq DOMAIN heap
       /\ ptr["init_method"] \subseteq ptr["methods"]
  BY <1>4, <1>6, <1>7, <1>8 DEF Pointers, WithMethod
<1>11. Refs(heap[o].kind, ptr) \subseteq DOMAIN heap
  BY <1>10 DEF Refs
<1>12. heap' = [heap EXCEPT ![o].ptr = ptr]
  BY <1>1
<1> HIDE DEF ptr
<1> QED
  BY <1>2, <1>4, <1>9, <1>10, <1>11, <1>12, AssignInv

(* The arguments of a request are reachable.                               *)
LEMMA RequestsTyped ==
  ASSUME HeapInv, NEW q \in Requests
  PROVE  /\ q \in RequestType /\ q.ptr \in Pointers(q.kind)
         /\ q.chars \in Chars <=> q.chars # NoChars
         /\ q.chars \in Chars <=> (q.kind = "STRING" \/ (q.kind = "FUNCTION" /\ q.chars # NoChars))
         /\ Refs(q.kind, q.ptr) \subseteq Reachable
         /\ q.kind = "CLASS" => q.ptr["init_method"] \subseteq q.ptr["methods"]
         /\ q.after = "return"
<1>1. Reachable \subseteq Obj
  BY DEF HeapInv, TypeOK, Reachable, Reach, graph
<1>2. CASE \E k \in Kinds \cap {"STRING", "FUNCTION"}, c \in Chars :
             q = [kind |-> k, ptr |-> NoPointers(k), chars |-> c, after |-> "return"]
  <2>1. PICK k \in Kinds \cap {"STRING", "FUNCTION"}, c \in Chars :
             q = [kind |-> k, ptr |-> NoPointers(k), chars |-> c, after |-> "return"]
    BY <1>2
  <2>2. k \in Kind
    BY KindsAssumption
  <2>3. NoPointers(k) \in Pointers(k)
    BY DEF NoPointers, Pointers
  <2>4. Refs(k, NoPointers(k)) = {}
    BY DEF Refs, NoPointers
  <2> QED
    BY <2>1, <2>2, <2>3, <2>4, KindsAssumption DEF RequestType
<1>3. CASE \E k \in Kinds \ {"STRING"} : \E ptr \in Arguments(k) :
             q = [kind |-> k, ptr |-> ptr, chars |-> NoChars, after |-> "return"]
  <2>1. PICK k \in Kinds \ {"STRING"} : \E ptr \in Arguments(k) :
             q = [kind |-> k, ptr |-> ptr, chars |-> NoChars, after |-> "return"]
    BY <1>3
  <2>2. PICK ptr \in Arguments(k) :
             q = [kind |-> k, ptr |-> ptr, chars |-> NoChars, after |-> "return"]
    BY <2>1
  <2>3. PICK a \in [Constructed(k) -> Reachable] :
             ptr = [f \in FieldsOf(k) |-> IF f \in Constructed(k) THEN {a[f]} ELSE {}]
    BY <2>2 DEF Arguments
  <2>4. k \in Kind
    BY KindsAssumption
  <2>5. \A f \in FieldsOf(k) : ptr[f] \subseteq Reachable
    BY <2>3
  <2>6. ptr \in Pointers(k)
    BY <1>1, <2>3, <2>5 DEF Pointers
  <2>7. Refs(k, ptr) \subseteq Reachable
    BY <2>5 DEF Refs
  <2>8. k = "CLASS" => ptr["init_method"] \subseteq ptr["methods"]
    BY <2>3 DEF FieldsOf, Constructed
  <2> QED
    BY <2>2, <2>4, <2>6, <2>7, <2>8, KindsAssumption DEF RequestType
<1> QED
  BY <1>2, <1>3 DEF Requests

(* The program asks for an object.                                         *)
LEMMA NewInv == HeapInv /\ New => HeapInv'
<1> SUFFICES ASSUME HeapInv, New PROVE HeapInv'
  OBVIOUS
<1> USE DEF HeapInv
<1>1. /\ pc = "idle" /\ pc' = "stress" /\ request' \in Requests
      /\ UNCHANGED <<roots, heap, objs, interned_strings, net_bytes, next_gc, gc_disabled,
                     is_marked, grey_objects, resume, i, temp_stash>>
  BY DEF New, collector
<1>2. Reachable' = Reachable
  BY <1>1 DEF Reachable, AllRoots, graph
<1> DEFINE q == request'
<1>3. /\ q \in RequestType /\ q.ptr \in Pointers(q.kind)
      /\ q.kind = "STRING" => q.chars # NoChars
      /\ q.chars # NoChars => q.kind \in {"STRING", "FUNCTION"}
      /\ Refs(q.kind, q.ptr) \subseteq Reachable
      /\ q.kind = "CLASS" => q.ptr["init_method"] \subseteq q.ptr["methods"]
  BY <1>1, RequestsTyped
<1>4. TypeOK'
  BY <1>1, <1>3 DEF TypeOK, Stage, Collecting, Pcs
<1>5. VectorExact' /\ NoStaleMarks' /\ InitializerTabled'
  BY <1>1, <1>3 DEF VectorExact, NoStaleMarks, InitializerTabled
<1>6. GraphClosed'
  BY <1>1 DEF GraphClosed, Survivors, AllRoots
<1>7. ArgumentsRooted'
  BY <1>2, <1>3 DEF ArgumentsRooted
<1>8. TriColour' /\ Sweeping' /\ PoolExact'
  BY <1>1 DEF TriColour, Sweeping, PoolExact, Survivors, Stage, Collecting
<1> QED
  BY <1>4, <1>5, <1>6, <1>7, <1>8

-----------------------------------------------------------------------------
(* An allocation *)

(* A step of an allocation that touches neither the heap nor the pool.     *)
LEMMA AllocationStepInv ==
  ASSUME HeapInv, pc \in {"stress", "intern", "create"},
         pc' \in {"stress", "intern", "create", "make", "mark"},
         UNCHANGED <<roots, heap, objs, interned_strings, next_gc, gc_disabled,
                     is_marked, grey_objects, i, temp_stash>>,
         net_bytes' \in Int, resume' \in {"none", "intern", "create", "make"},
         pc' = "mark" => resume' # "none",
         request' \in RequestType, request'.ptr \in Pointers(request'.kind),
         request'.chars # NoChars => request'.kind \in {"STRING", "FUNCTION"},
         Stage' = "intern" \/ request'.kind = "STRING" => request'.chars # NoChars,
         Refs(request'.kind, request'.ptr) \subseteq Reachable,
         request'.kind = "CLASS" =>
           request'.ptr["init_method"] \subseteq request'.ptr["methods"],
         request'.kind = "STRING" /\ Stage' \in {"create", "make"} =>
           request'.chars \notin DOMAIN interned_strings
  PROVE  HeapInv'
<1> USE DEF HeapInv
<1>1. Reachable' = Reachable
  BY DEF Reachable, AllRoots, graph
<1>2. TypeOK'
  BY DEF TypeOK, Pcs, Collecting
<1>3. VectorExact' /\ NoStaleMarks' /\ InitializerTabled'
  BY DEF VectorExact, NoStaleMarks, InitializerTabled
<1>4. GraphClosed'
  BY DEF GraphClosed, Survivors, AllRoots
<1>5. ArgumentsRooted'
  BY <1>1 DEF ArgumentsRooted
<1>6. TriColour' /\ Sweeping'
  BY DEF TriColour, Sweeping
<1>7. PoolExact'
  BY DEF PoolExact, Survivors
<1> QED
  BY <1>2, <1>3, <1>4, <1>5, <1>6, <1>7

(* What the invariant says of the request of an allocation in progress.    *)
LEMMA RequestFacts ==
  ASSUME HeapInv, pc # "idle"
  PROVE  /\ request \in RequestType /\ request.ptr \in Pointers(request.kind)
         /\ request.chars # NoChars => request.kind \in {"STRING", "FUNCTION"}
         /\ request.kind = "STRING" => request.chars # NoChars
         /\ Refs(request.kind, request.ptr) \subseteq Reachable
         /\ request.kind = "CLASS" =>
              request.ptr["init_method"] \subseteq request.ptr["methods"]
  BY DEF HeapInv, TypeOK, ArgumentsRooted, InitializerTabled

(* An allocation begins, with a collection in stress mode.                 *)
LEMMA StressInv == HeapInv /\ Stress => HeapInv'
<1> SUFFICES ASSUME HeapInv, Stress PROVE HeapInv'
  OBVIOUS
<1> DEFINE p == IF request.chars # NoChars THEN "intern" ELSE "create"
<1>1. /\ pc = "stress"
      /\ \/ pc' = "mark" /\ resume' = p
         \/ pc' = p /\ resume' = resume
      /\ UNCHANGED <<roots, heap, objs, interned_strings, net_bytes, next_gc, gc_disabled,
                     is_marked, grey_objects, i, temp_stash, request>>
  BY DEF Stress, CollectThen
<1>2. Stage' = p /\ resume' \in {"none", "intern", "create", "make"} /\ net_bytes' \in Int
  BY <1>1 DEF Stage, Collecting, HeapInv, TypeOK
<1>3. pc' \in {"stress", "intern", "create", "make", "mark"}
  BY <1>1
<1> QED
  BY <1>1, <1>2, <1>3, RequestFacts, AllocationStepInv

(* new_function() first interns the name.                                  *)
LEMMA InternNameInv == HeapInv /\ InternName => HeapInv'
<1> SUFFICES ASSUME HeapInv, InternName PROVE HeapInv'
  OBVIOUS
<1>1. /\ pc = "intern" /\ pc' = "stress"
      /\ request' = [request EXCEPT !.kind = "STRING", !.ptr = NoPointers("STRING"),
                                    !.after = "FUNCTION"]
      /\ UNCHANGED <<roots, heap, objs, interned_strings, net_bytes, next_gc, gc_disabled,
                     is_marked, grey_objects, resume, i, temp_stash>>
  BY DEF InternName, collector
<1>2. Stage' = "stress" /\ Stage = "intern"
  BY <1>1 DEF Stage, Collecting
<1>3. request.chars # NoChars /\ resume \in {"none", "intern", "create", "make"} /\ net_bytes \in Int
  BY <1>1, <1>2 DEF HeapInv, TypeOK
<1>4. NoPointers("STRING") \in Pointers("STRING") /\ Refs("STRING", NoPointers("STRING")) = {}
  BY DEF NoPointers, Pointers, Refs
<1>5. /\ request' \in RequestType /\ request'.kind = "STRING"
      /\ request'.ptr = NoPointers("STRING") /\ request'.chars = request.chars
  <2>1. request \in RequestType
    BY <1>1, RequestFacts
  <2>2. "STRING" \in Kind
    BY DEF Kind
  <2> QED
    BY <1>1, <1>4, <2>1, <2>2 DEF RequestType
<1> QED
  BY <1>1, <1>2, <1>3, <1>4, <1>5, AllocationStepInv

(* A string that is not in the pool is created.                            *)
LEMMA NotInternedInv == HeapInv /\ NotInterned => HeapInv'
<1> SUFFICES ASSUME HeapInv, NotInterned PROVE HeapInv'
  OBVIOUS
<1>1. /\ pc = "intern" /\ pc' = "create" /\ request.kind = "STRING"
      /\ request.chars \notin DOMAIN interned_strings
      /\ UNCHANGED <<roots, heap, objs, interned_strings, net_bytes, next_gc, gc_disabled,
                     is_marked, grey_objects, resume, i, temp_stash, request>>
  BY DEF NotInterned, collector
<1>2. Stage' = "create" /\ resume \in {"none", "intern", "create", "make"} /\ net_bytes \in Int
  BY <1>1 DEF Stage, Collecting, HeapInv, TypeOK
<1> QED
  BY <1>1, <1>2, RequestFacts, AllocationStepInv

(* create_object() counts the bytes, and may start a collection.           *)
LEMMA CreateObjectInv == HeapInv /\ CreateObject => HeapInv'
<1> SUFFICES ASSUME HeapInv, CreateObject PROVE HeapInv'
  OBVIOUS
<1>1. /\ pc = "create"
      /\ \/ pc' = "mark" /\ resume' = "make"
         \/ pc' = "make" /\ resume' = resume
      /\ net_bytes' = net_bytes + Size[request.kind]
      /\ UNCHANGED <<roots, heap, objs, interned_strings, next_gc, gc_disabled,
                     is_marked, grey_objects, i, temp_stash, request>>
  BY DEF CreateObject, CollectThen
<1>2. Stage' = "make" /\ Stage = "create" /\ resume' \in {"none", "intern", "create", "make"}
  BY <1>1 DEF Stage, Collecting, HeapInv, TypeOK
<1>3. net_bytes' \in Int
  <2>1. request.kind \in Kind /\ net_bytes \in Int
    BY <1>1, RequestFacts DEF RequestType, HeapInv, TypeOK
  <2> QED
    BY <1>1, <2>1, OptionsAssumption
<1>4. request.kind = "STRING" => request.chars \notin DOMAIN interned_strings
  BY <1>1, <1>2 DEF HeapInv, PoolExact
<1> QED
  BY <1>1, <1>2, <1>3, <1>4, RequestFacts, AllocationStepInv

(* The object an allocation made or found becomes a root, and is the name  *)
(* of the function that is made next if there is one.                      *)
LEMMA Delivered ==
  ASSUME HeapInv, pc # "idle", NEW o \in Obj, Deliver(o)
  PROVE  /\ pc' \in {"create", "idle"}
         /\ AllRoots' \subseteq AllRoots \cup {o}
         /\ roots' \subseteq Obj /\ temp_stash' \subseteq Obj
         /\ pc' = "idle" => request' = NoRequest
         /\ pc' = "create" =>
              /\ request' \in RequestType /\ request'.kind = "FUNCTION"
              /\ request'.ptr \in Pointers("FUNCTION") /\ request'.chars = NoChars
              /\ Refs("FUNCTION", request'.ptr) \subseteq {o}
              /\ o \in temp_stash'
<1>1. roots \subseteq Obj /\ temp_stash \subseteq Obj
  BY DEF HeapInv, TypeOK
<1>2. CASE request.after = "FUNCTION"
  <2> DEFINE ptr == [NoPointers("FUNCTION") EXCEPT !.name = {o}]
  <2>1. /\ temp_stash' = {o} /\ roots' = roots /\ pc' = "create"
        /\ request' = [kind |-> "FUNCTION", ptr |-> ptr, chars |-> NoChars, after |-> "return"]
    BY <1>2 DEF Deliver
  <2>2. FieldsOf("FUNCTION") = {"name", "constants"}
    BY DEF FieldsOf
  <2>3. ptr \in Pointers("FUNCTION") /\ ptr["name"] = {o} /\ ptr["constants"] = {}
    BY <2>2 DEF NoPointers, Pointers
  <2>4. Refs("FUNCTION", ptr) \subseteq {o}
    BY <2>2, <2>3 DEF Refs
  <2>5. "FUNCTION" \in Kind
    BY DEF Kind
  <2> HIDE DEF ptr
  <2>6. request' \in RequestType
    BY <2>1, <2>3, <2>5 DEF RequestType
  <2> QED
    BY <1>1, <2>1, <2>3, <2>4, <2>6 DEF AllRoots
<1>3. CASE request.after # "FUNCTION"
  BY <1>1, <1>3 DEF Deliver, AllRoots
<1> QED
  BY <1>2, <1>3

(* A string that is in the pool is returned; it exists, because the pool   *)
(* has only strings that survive.                                          *)
LEMMA InternedInv == HeapInv /\ Interned => HeapInv'
<1> SUFFICES ASSUME HeapInv, Interned PROVE HeapInv'
  OBVIOUS
<1> USE DEF HeapInv
<1> DEFINE o == interned_strings[request.chars]
<1>1. /\ pc = "intern" /\ request.chars \in DOMAIN interned_strings /\ Deliver(o)
      /\ UNCHANGED <<heap, objs, interned_strings, net_bytes, next_gc, gc_disabled,
                     is_marked, grey_objects, resume, i>>
  BY DEF Interned, collector
<1>2. Survivors = DOMAIN heap /\ o \in DOMAIN heap /\ o \in Obj
  BY <1>1 DEF PoolExact, Survivors, TypeOK
<1> HIDE DEF o
<1>3. /\ pc' \in {"create", "idle"}
      /\ AllRoots' \subseteq AllRoots \cup {o}
      /\ roots' \subseteq Obj /\ temp_stash' \subseteq Obj
      /\ pc' = "idle" => request' = NoRequest
      /\ pc' = "create" =>
           /\ request' \in RequestType /\ request'.kind = "FUNCTION"
           /\ request'.ptr \in Pointers("FUNCTION") /\ request'.chars = NoChars
           /\ Refs("FUNCTION", request'.ptr) \subseteq {o}
           /\ o \in temp_stash'
  BY <1>1, <1>2, Delivered
<1>4. TypeOK'
  BY <1>1, <1>3 DEF TypeOK, Pcs, Stage, Collecting
<1>5. VectorExact' /\ NoStaleMarks' /\ InitializerTabled'
  BY <1>1, <1>3 DEF VectorExact, NoStaleMarks, InitializerTabled
<1>6. GraphClosed'
  BY <1>1, <1>2, <1>3 DEF GraphClosed, Survivors
<1>7. ArgumentsRooted'
  <2>1. pc' = "create" => o \in Reach(AllRoots', graph')
    BY <1>1, <1>2, <1>3, ReachRoots DEF AllRoots, graph
  <2> QED
    BY <1>3, <2>1 DEF ArgumentsRooted, Reachable
<1>8. TriColour' /\ Sweeping'
  BY <1>3 DEF TriColour, Sweeping
<1>9. PoolExact'
  BY <1>1, <1>2, <1>3 DEF PoolExact, Survivors
<1> QED
  BY <1>4, <1>5, <1>6, <1>7, <1>8, <1>9

(* The object comes to exist, and, if it is a string, enters the pool.     *)
LEMMA MakeInv == HeapInv /\ Make => HeapInv'
<1> SUFFICES ASSUME HeapInv, Make PROVE HeapInv'
  OBVIOUS
<1> USE DEF HeapInv
<1>1. PICK o \in Obj \ DOMAIN heap :
       /\ heap' = [x \in DOMAIN heap \cup {o} |->
                     IF x = o THEN Object(request.kind, request.ptr, request.chars)
                              ELSE heap[x]]
       /\ objs' = Append(objs, o)
       /\ interned_strings' =
            IF request.kind = "STRING"
              THEN [c \in DOMAIN interned_strings \cup {request.chars} |->
                      IF c = request.chars THEN o ELSE interned_strings[c]]
              ELSE interned_strings
       /\ Deliver(o)
  BY DEF Make
<1>2. /\ pc = "make"
      /\ UNCHANGED <<net_bytes, next_gc, gc_disabled, is_marked, grey_objects, resume, i>>
  BY DEF Make, collector
<1>3. /\ pc' \in {"create", "idle"}
      /\ AllRoots' \subseteq AllRoots \cup {o}
      /\ roots' \subseteq Obj /\ temp_stash' \subseteq Obj
      /\ pc' = "idle" => request' = NoRequest
      /\ pc' = "create" =>
           /\ request' \in RequestType /\ request'.kind = "FUNCTION"
           /\ request'.ptr \in Pointers("FUNCTION") /\ request'.chars = NoChars
           /\ Refs("FUNCTION", request'.ptr) \subseteq {o}
           /\ o \in temp_stash'
  BY <1>1, <1>2, Delivered
<1>4. /\ request \in RequestType /\ request.ptr \in Pointers(request.kind)
      /\ request.kind = "STRING" => request.chars # NoChars
      /\ Refs(request.kind, request.ptr) \subseteq Reachable
      /\ request.kind = "CLASS" =>
           request.ptr["init_method"] \subseteq request.ptr["methods"]
  BY <1>2, RequestFacts
<1>5. /\ DOMAIN heap' = DOMAIN heap \cup {o}
      /\ \A x \in DOMAIN heap : heap'[x] = heap[x]
      /\ heap'[o] \in ObjectType /\ heap'[o].kind = request.kind
      /\ heap'[o].ptr = request.ptr /\ heap'[o].chars = request.chars
  BY <1>1, <1>4 DEF Object, ObjectType, RequestType
<1>6. Survivors = DOMAIN heap /\ Survivors' = DOMAIN heap'
  BY <1>2, <1>3 DEF Survivors
<1>7. TypeOK'
  <2>1. objs' \in Seq(Obj)
    BY <1>1 DEF TypeOK
  <2> QED
    BY <1>2, <1>3, <1>4, <1>5, <2>1 DEF TypeOK, Pcs, Stage, Collecting
<1>8. VectorExact'
  <2>1. /\ objs \in Seq(Obj) /\ Len(objs') = Len(objs) + 1 /\ Len(objs) \in Nat
        /\ \A j \in 1..Len(objs) : objs'[j] = objs[j]
        /\ objs'[Len(objs) + 1] = o
    BY <1>1 DEF TypeOK
  <2>2. \A j \in 1..Len(objs) : objs[j] # o
    BY <1>1 DEF VectorExact
  <2>3. \A j, k \in 1..Len(objs') : objs'[j] = objs'[k] => j = k
    BY <2>1, <2>2 DEF VectorExact
  <2>4. {objs'[j] : j \in 1..Len(objs')} = {objs[j] : j \in 1..Len(objs)} \cup {o}
    BY <2>1
  <2> QED
    BY <1>5, <2>3, <2>4 DEF VectorExact
<1>9. NoStaleMarks' /\ TriColour' /\ Sweeping'
  BY <1>2, <1>3 DEF NoStaleMarks, TriColour, Sweeping
<1>10. InitializerTabled'
  BY <1>3, <1>4, <1>5 DEF InitializerTabled
<1>11. GraphClosed'
  <2>1. Refs(request.kind, request.ptr) \subseteq DOMAIN heap
    BY <1>4 DEF Reachable, Reach, graph
  <2>2. \A x \in DOMAIN heap' : RefsOf(heap'[x]) \subseteq DOMAIN heap'
    BY <1>5, <1>6, <2>1 DEF GraphClosed, RefsOf
  <2> QED
    BY <1>3, <1>5, <1>6, <2>2 DEF GraphClosed
<1>12. ArgumentsRooted'
  <2>1. pc' = "create" => o \in Reach(AllRoots', graph')
    BY <1>3, <1>5, ReachRoots DEF AllRoots, graph
  <2> QED
    BY <1>3, <2>1 DEF ArgumentsRooted, Reachable
<1>13. PoolExact'
  <2>1. CASE request.kind = "STRING"
    <3>1. request.chars \notin DOMAIN interned_strings
      BY <1>2, <2>1 DEF PoolExact, Stage, Collecting
    <3>2. /\ DOMAIN interned_strings' = DOMAIN interned_strings \cup {request.chars}
          /\ interned_strings'[request.chars] = o
          /\ \A c \in DOMAIN interned_strings : interned_strings'[c] = interned_strings[c]
      BY <1>1, <2>1, <3>1
    <3> QED
      BY <1>3, <1>5, <1>6, <2>1, <3>2 DEF PoolExact
  <2>2. CASE request.kind # "STRING"
    BY <1>1, <1>3, <1>5, <1>6, <2>2 DEF PoolExact
  <2> QED
    BY <2>1, <2>2
<1> QED
  BY <1>7, <1>8, <1>9, <1>10, <1>11, <1>12, <1>13

-----------------------------------------------------------------------------
(* A collection *)

(* What is reachable exists.                                               *)
LEMMA ReachableExists == Reachable \subseteq DOMAIN heap
  BY DEF Reachable, Reach, graph

(* The collector follows all pointers of every object.                     *)
LEMMA BlackenOfAll ==
  ASSUME HeapInv, NEW o \in DOMAIN heap
  PROVE  BlackenOf(heap[o]) = RefsOf(heap[o])
<1>1. heap[o].kind \in Kind /\ heap[o].ptr \in Pointers(heap[o].kind)
  BY DEF HeapInv, TypeOK, ObjectType
<1>2. heap[o].kind = "CLASS" => heap[o].ptr["init_method"] \subseteq heap[o].ptr["methods"]
  BY DEF HeapInv, InitializerTabled
<1> QED
  BY <1>1, <1>2, BlackenAll DEF BlackenOf, RefsOf

(* The roots become grey.                                                  *)
LEMMA MarkRootsInv == HeapInv /\ MarkRoots => HeapInv'
<1> SUFFICES ASSUME HeapInv, MarkRoots PROVE HeapInv'
  OBVIOUS
<1> USE DEF HeapInv
<1>1. /\ pc = "mark" /\ pc' = "trace"
      /\ is_marked' = is_marked \cup AllRoots /\ grey_objects' = AllRoots \ is_marked
      /\ UNCHANGED <<roots, heap, objs, interned_strings, net_bytes, next_gc, gc_disabled,
                     resume, i, request, temp_stash>>
  BY DEF MarkRoots
<1>2. is_marked' = AllRoots /\ grey_objects' = AllRoots
  BY <1>1 DEF NoStaleMarks
<1>3. Reachable' = Reachable /\ AllRoots' = AllRoots /\ Stage' = Stage
      /\ Survivors' = DOMAIN heap /\ Survivors = DOMAIN heap
  BY <1>1 DEF Reachable, AllRoots, graph, Stage, Collecting, Survivors
<1>4. AllRoots \subseteq Obj
  BY DEF TypeOK, AllRoots
<1>5. TypeOK'
  BY <1>1, <1>2, <1>3, <1>4 DEF TypeOK, Pcs, Collecting
<1>6. VectorExact' /\ NoStaleMarks' /\ InitializerTabled'
  BY <1>1 DEF VectorExact, NoStaleMarks, InitializerTabled
<1>7. GraphClosed' /\ ArgumentsRooted' /\ PoolExact'
  BY <1>1, <1>3 DEF GraphClosed, ArgumentsRooted, PoolExact
<1>8. TriColour'
  <2>1. AllRoots \subseteq Reachable
    BY <1>3, ReachRoots DEF GraphClosed, Reachable, graph
  <2> QED
    BY <1>2, <1>3, <2>1 DEF TriColour
<1>9. Sweeping'
  BY <1>1 DEF Sweeping
<1> QED
  BY <1>5, <1>6, <1>7, <1>8, <1>9

(* A grey object becomes black, and what it points to grey.                *)
LEMMA TraceInv == HeapInv /\ Trace => HeapInv'
<1> SUFFICES ASSUME HeapInv, Trace PROVE HeapInv'
  OBVIOUS
<1> USE DEF HeapInv
<1>1. PICK o \in grey_objects :
        /\ is_marked' = is_marked \cup (BlackenOf(heap[o]) \ is_marked)
        /\ grey_objects' = (grey_objects \ {o}) \cup (BlackenOf(heap[o]) \ is_marked)
  BY DEF Trace, Found
<1>2. /\ pc = "trace" /\ pc' = "trace"
      /\ UNCHANGED <<roots, heap, objs, interned_strings, net_bytes, next_gc, gc_disabled,
                     resume, i, request, temp_stash>>
  BY DEF Trace, allocation
<1>3. Reachable' = Reachable /\ AllRoots' = AllRoots /\ Stage' = Stage
      /\ Survivors' = DOMAIN heap /\ Survivors = DOMAIN heap
  BY <1>2 DEF Reachable, AllRoots, graph, Stage, Collecting, Survivors
<1>4. o \in Reachable /\ o \in DOMAIN heap
  BY <1>1, <1>2, ReachableExists DEF TriColour, TypeOK
<1>5. BlackenOf(heap[o]) = RefsOf(heap[o]) /\ RefsOf(heap[o]) \subseteq DOMAIN heap
  BY <1>3, <1>4, BlackenOfAll DEF GraphClosed
<1>6. BlackenOf(heap[o]) \subseteq Reachable
  <2>1. graph[o] = RefsOf(heap[o]) /\ DOMAIN graph = DOMAIN heap
    BY <1>4 DEF graph
  <2> QED
    BY <1>4, <1>5, <2>1, ReachStep DEF Reachable
<1>7. BlackenOf(heap[o]) \subseteq Obj
  BY <1>5 DEF TypeOK
<1>8. TypeOK'
  BY <1>1, <1>2, <1>3, <1>7 DEF TypeOK, Pcs, Collecting
<1>9. VectorExact' /\ NoStaleMarks' /\ InitializerTabled'
  BY <1>2 DEF VectorExact, NoStaleMarks, InitializerTabled
<1>10. GraphClosed' /\ ArgumentsRooted' /\ PoolExact'
  BY <1>2, <1>3 DEF GraphClosed, ArgumentsRooted, PoolExact
<1>11. TriColour'
  BY <1>1, <1>2, <1>3, <1>6 DEF TriColour
<1>12. Sweeping'
  BY <1>2 DEF Sweeping
<1> QED
  BY <1>8, <1>9, <1>10, <1>11, <1>12

(* A process that is killed while it marks leaves the heap as it is.       *)
LEMMA OverflowInv == HeapInv /\ Overflow => HeapInv'
<1> SUFFICES ASSUME HeapInv, Overflow PROVE HeapInv'
  OBVIOUS
<1> USE DEF HeapInv
<1>1. /\ pc \in {"mark", "trace"} /\ pc' = "crashed"
      /\ UNCHANGED <<roots, heap, objs, interned_strings, net_bytes, next_gc, gc_disabled,
                     is_marked, grey_objects, resume, i, request, temp_stash>>
  BY DEF Overflow, collector
<1>2. Reachable' = Reachable /\ AllRoots' = AllRoots /\ Stage' = Stage
      /\ Survivors' = DOMAIN heap /\ Survivors = DOMAIN heap
  BY <1>1 DEF Reachable, AllRoots, graph, Stage, Collecting, Survivors
<1>3. TypeOK'
  BY <1>1, <1>2 DEF TypeOK, Pcs, Collecting
<1>4. VectorExact' /\ NoStaleMarks' /\ InitializerTabled'
  BY <1>1 DEF VectorExact, NoStaleMarks, InitializerTabled
<1>5. GraphClosed' /\ ArgumentsRooted' /\ PoolExact'
  BY <1>1, <1>2 DEF GraphClosed, ArgumentsRooted, PoolExact
<1>6. TriColour' /\ Sweeping'
  BY <1>1, <1>2 DEF TriColour, Sweeping
<1> QED
  BY <1>3, <1>4, <1>5, <1>6

(* Without grey objects, exactly the reachable ones are marked.            *)
LEMMA TraceEndInv == HeapInv /\ TraceEnd => HeapInv'
<1> SUFFICES ASSUME HeapInv, TraceEnd PROVE HeapInv'
  OBVIOUS
<1> USE DEF HeapInv
<1>1. /\ pc = "trace" /\ pc' = "strings" /\ grey_objects = {}
      /\ UNCHANGED <<roots, heap, objs, interned_strings, net_bytes, next_gc, gc_disabled,
                     is_marked, grey_objects, resume, i, request, temp_stash>>
  BY DEF TraceEnd, collector
<1>2. Reachable' = Reachable /\ AllRoots' = AllRoots /\ Stage' = Stage
      /\ Survivors' = DOMAIN heap /\ Survivors = DOMAIN heap
  BY <1>1 DEF Reachable, AllRoots, graph, Stage, Collecting, Survivors
<1>3. TypeOK'
  BY <1>1, <1>2 DEF TypeOK, Pcs, Collecting
<1>4. VectorExact' /\ NoStaleMarks' /\ InitializerTabled'
  BY <1>1 DEF VectorExact, NoStaleMarks, InitializerTabled
<1>5. GraphClosed' /\ ArgumentsRooted' /\ PoolExact'
  BY <1>1, <1>2 DEF GraphClosed, ArgumentsRooted, PoolExact
<1>6. TriColour' /\ Sweeping'
  BY <1>1, <1>2 DEF TriColour, Sweeping
<1> QED
  BY <1>3, <1>4, <1>5, <1>6

(* The pool loses the strings that the sweep is going to free.             *)
LEMMA RemoveUnusedStringsInv == HeapInv /\ RemoveUnusedStrings => HeapInv'
<1> SUFFICES ASSUME HeapInv, RemoveUnusedStrings PROVE HeapInv'
  OBVIOUS
<1> USE DEF HeapInv
<1>1. /\ pc = "strings" /\ pc' = "sweep" /\ i' = 1
      /\ interned_strings' = [c \in MarkedStrings |-> interned_strings[c]]
      /\ UNCHANGED <<roots, heap, objs, net_bytes, next_gc, gc_disabled,
                     is_marked, grey_objects, resume, request, temp_stash>>
  BY DEF RemoveUnusedStrings
<1>2. Reachable' = Reachable /\ AllRoots' = AllRoots /\ Stage' = Stage
      /\ Survivors = DOMAIN heap
  BY <1>1 DEF Reachable, AllRoots, graph, Stage, Collecting, Survivors
<1>3. Survivors' = is_marked
  BY <1>1 DEF Survivors, Swept
<1>4. is_marked \subseteq DOMAIN heap /\ grey_objects = {}
  BY <1>1, ReachableExists DEF TriColour, Sweeping
<1>5. \A o \in is_marked : RefsOf(heap[o]) \subseteq is_marked
  BY <1>1, <1>4, BlackenOfAll DEF TriColour
<1>6. TypeOK'
  BY <1>1, <1>2 DEF TypeOK, Pcs, Collecting
<1>7. VectorExact' /\ NoStaleMarks' /\ InitializerTabled'
  BY <1>1 DEF VectorExact, NoStaleMarks, InitializerTabled
<1>8. GraphClosed'
  BY <1>1, <1>2, <1>3, <1>4, <1>5 DEF GraphClosed, TriColour
<1>9. ArgumentsRooted' /\ TriColour'
  BY <1>1, <1>2 DEF ArgumentsRooted, TriColour
<1>10. Sweeping'
  <2>1. Len(objs) \in Nat
    BY DEF TypeOK
  <2>2. is_marked \subseteq {objs[j] : j \in 1..Len(objs)}
    BY <1>4 DEF VectorExact
  <2> QED
    BY <1>1, <1>2, <1>3, <1>4, <2>1, <2>2 DEF Sweeping, TriColour
<1>11. PoolExact'
  <2>1. \A o \in is_marked : heap[o].kind = "STRING" => heap[o].chars \in MarkedStrings
    BY <1>2, <1>4 DEF PoolExact, MarkedStrings
  <2>2. DOMAIN interned_strings' = MarkedStrings /\ MarkedStrings \subseteq DOMAIN interned_strings
        /\ \A c \in MarkedStrings : interned_strings'[c] = interned_strings[c]
    BY <1>1 DEF MarkedStrings
  <2>3. \A c \in MarkedStrings : interned_strings[c] \in is_marked
    BY DEF MarkedStrings
  <2> QED
    BY <1>1, <1>2, <1>3, <1>4, <2>1, <2>2, <2>3 DEF PoolExact
<1> QED
  BY <1>6, <1>7, <1>8, <1>9, <1>10, <1>11

(* Swap-erase removes position j and changes no position below it.         *)
LEMMA SwapEraseFacts ==
  ASSUME NEW S, NEW s \in Seq(S), NEW j \in 1..Len(s)
  PROVE  /\ SwapErase(s, j) \in Seq(S)
         /\ Len(SwapErase(s, j)) = Len(s) - 1
         /\ \A k \in 1..(Len(s) - 1) :
              SwapErase(s, j)[k] = IF k = j THEN s[Len(s)] ELSE s[k]
<1> DEFINE t == [s EXCEPT ![j] = s[Len(s)]]
<1>1. Len(s) \in Nat /\ Len(s) >= 1 /\ s[Len(s)] \in S
  OBVIOUS
<1>2. t \in Seq(S) /\ Len(t) = Len(s)
  BY <1>1
<1>3. \A k \in 1..Len(s) : t[k] = IF k = j THEN s[Len(s)] ELSE s[k]
  BY <1>1
<1> HIDE DEF t
<1>4. /\ SubSeq(t, 1, Len(s) - 1) \in Seq(S)
      /\ Len(SubSeq(t, 1, Len(s) - 1)) = Len(s) - 1
      /\ \A k \in 1..(Len(s) - 1) : SubSeq(t, 1, Len(s) - 1)[k] = t[k]
  BY <1>1, <1>2
<1> QED
  BY <1>1, <1>3, <1>4 DEF SwapErase, t

(* An object without a mark is freed, and the last one takes its place in  *)
(* the vector.                                                             *)
LEMMA SweepFreeInv == HeapInv /\ SweepFree => HeapInv'
<1> SUFFICES ASSUME HeapInv, SweepFree PROVE HeapInv'
  OBVIOUS
<1> USE DEF HeapInv
<1> DEFINE o == objs[i]
<1>1. /\ pc = "sweep" /\ pc' = "sweep" /\ i <= Len(objs) /\ o \notin is_marked
      /\ objs' = SwapErase(objs, i)
      /\ heap' = [x \in DOMAIN heap \ {o} |-> heap[x]]
      /\ net_bytes' = net_bytes - Size[heap[o].kind] /\ i' = i
      /\ UNCHANGED <<roots, interned_strings, next_gc, gc_disabled,
                     is_marked, grey_objects, resume, request, temp_stash>>
  BY DEF SweepFree, AfterFree, allocation
<1>2. /\ objs \in Seq(Obj) /\ Len(objs) \in Nat /\ i \in 1..Len(objs)
  BY <1>1 DEF TypeOK, Sweeping
<1>3. /\ objs' \in Seq(Obj) /\ Len(objs') = Len(objs) - 1
      /\ \A k \in 1..(Len(objs) - 1) : objs'[k] = IF k = i THEN objs[Len(objs)] ELSE objs[k]
  BY <1>1, <1>2, SwapEraseFacts
<1>4. /\ DOMAIN heap' = DOMAIN heap \ {o}
      /\ \A x \in DOMAIN heap' : heap'[x] = heap[x]
  BY <1>1
<1>5. o \in DOMAIN heap
  BY <1>2 DEF VectorExact
<1>6. Swept' = Swept
  <2>1. \A j \in 1..(i - 1) : j \in 1..(Len(objs) - 1) /\ j # i
    BY <1>2
  <2>2. \A j \in 1..(i - 1) : objs'[j] = objs[j]
    BY <1>3, <2>1
  <2> QED
    BY <1>1, <2>2 DEF Swept
<1>7. Survivors' = Survivors /\ o \notin Survivors
  <2>1. o \notin Swept
    BY <1>2 DEF Swept, VectorExact
  <2> QED
    BY <1>1, <1>6, <2>1 DEF Survivors
<1>8. Survivors \subseteq DOMAIN heap'
  BY <1>4, <1>7 DEF GraphClosed
<1>9. Reachable' = Reachable /\ AllRoots' = AllRoots /\ Stage' = Stage
  <2>1. AllRoots' = AllRoots /\ Stage' = Stage
    BY <1>1 DEF AllRoots, Stage, Collecting
  <2>2. DOMAIN graph = DOMAIN heap /\ DOMAIN graph' = DOMAIN heap'
    BY DEF graph
  <2>3. \A x \in Survivors : graph[x] \subseteq Survivors /\ graph'[x] = graph[x]
    BY <1>4, <1>8 DEF graph, GraphClosed
  <2>4. AllRoots \subseteq Survivors /\ Survivors \subseteq DOMAIN graph
    BY <2>2 DEF GraphClosed
  <2>5. Reach(AllRoots, graph) = Reach(AllRoots, graph')
    BY <1>8, <2>2, <2>3, <2>4, ReachLocal
  <2> QED
    BY <2>1, <2>5 DEF Reachable
<1>10. TypeOK'
  <2>1. net_bytes' \in Int
    <3>1. heap[o].kind \in Kind /\ net_bytes \in Int
      BY <1>5 DEF TypeOK, ObjectType
    <3> QED
      BY <1>1, <3>1, OptionsAssumption
  <2> QED
    BY <1>1, <1>3, <1>4, <1>9, <2>1 DEF TypeOK, Pcs, Collecting
<1>11. VectorExact'
  <2>1. \A j, k \in 1..Len(objs') : objs'[j] = objs'[k] => j = k
    BY <1>2, <1>3 DEF VectorExact
  <2>2. \A j \in 1..Len(objs') : objs'[j] \in DOMAIN heap'
    BY <1>2, <1>3, <1>4 DEF VectorExact
  <2>3. ASSUME NEW y \in DOMAIN heap'
        PROVE  \E j \in 1..Len(objs') : objs'[j] = y
    <3>1. PICK j \in 1..Len(objs) : objs[j] = y
      BY <1>4 DEF VectorExact
    <3>2. j # i
      BY <1>4, <3>1
    <3>3. CASE j = Len(objs)
      BY <1>2, <1>3, <3>1, <3>2, <3>3
    <3>4. CASE j # Len(objs)
      BY <1>2, <1>3, <3>1, <3>2, <3>4
    <3> QED
      BY <3>3, <3>4
  <2>4. {objs'[j] : j \in 1..Len(objs')} = DOMAIN heap'
    BY <2>2, <2>3
  <2> QED
    BY <2>1, <2>4 DEF VectorExact
<1>12. NoStaleMarks' /\ TriColour'
  BY <1>1 DEF NoStaleMarks, TriColour
<1>13. InitializerTabled'
  BY <1>1, <1>4 DEF InitializerTabled
<1>14. GraphClosed'
  BY <1>4, <1>7, <1>8, <1>9 DEF GraphClosed
<1>15. ArgumentsRooted'
  BY <1>1, <1>9 DEF ArgumentsRooted
<1>16. Sweeping'
  <2>1. i' \in 1..(Len(objs') + 1)
    BY <1>1, <1>2, <1>3
  <2>2. ASSUME NEW y \in is_marked
        PROVE  \E j \in i..Len(objs') : objs'[j] = y
    <3>1. PICK j \in i..Len(objs) : objs[j] = y
      BY <1>1 DEF Sweeping
    <3>2. j # i
      BY <1>1, <3>1
    <3>3. CASE j = Len(objs)
      BY <1>2, <1>3, <3>1, <3>2, <3>3
    <3>4. CASE j # Len(objs)
      BY <1>2, <1>3, <3>1, <3>2, <3>4
    <3> QED
      BY <3>3, <3>4
  <2> QED
    BY <1>1, <1>7, <1>9, <2>1, <2>2 DEF Sweeping
<1>17. PoolExact'
  BY <1>1, <1>4, <1>7, <1>8, <1>9 DEF PoolExact
<1> QED
  BY <1>10, <1>11, <1>12, <1>13, <1>14, <1>15, <1>16, <1>17

(* An object with a mark loses the mark and stays.                         *)
LEMMA SweepKeepInv == HeapInv /\ SweepKeep => HeapInv'
<1> SUFFICES ASSUME HeapInv, SweepKeep PROVE HeapInv'
  OBVIOUS
<1> USE DEF HeapInv
<1> DEFINE o == objs[i]
<1>1. /\ pc = "sweep" /\ pc' = "sweep" /\ i <= Len(objs) /\ o \in is_marked
      /\ is_marked' = is_marked \ {o} /\ i' = i + 1
      /\ UNCHANGED <<roots, heap, objs, interned_strings, net_bytes, next_gc, gc_disabled,
                     grey_objects, resume, request, temp_stash>>
  BY DEF SweepKeep, Whiten, allocation
<1>2. Len(objs) \in Nat /\ i \in 1..Len(objs) /\ grey_objects = {}
  BY <1>1 DEF TypeOK, Sweeping
<1>3. Swept' = Swept \cup {o}
  BY <1>1, <1>2 DEF Swept
<1>4. Survivors' = Survivors
  BY <1>1, <1>3 DEF Survivors
<1>5. Reachable' = Reachable /\ AllRoots' = AllRoots /\ Stage' = Stage
  BY <1>1 DEF Reachable, AllRoots, graph, Stage, Collecting
<1>6. TypeOK'
  BY <1>1, <1>2, <1>5 DEF TypeOK, Pcs, Collecting
<1>7. VectorExact' /\ NoStaleMarks' /\ InitializerTabled' /\ TriColour'
  BY <1>1 DEF VectorExact, NoStaleMarks, InitializerTabled, TriColour
<1>8. GraphClosed' /\ ArgumentsRooted' /\ PoolExact'
  BY <1>1, <1>4, <1>5 DEF GraphClosed, ArgumentsRooted, PoolExact
<1>9. Sweeping'
  <2>1. i' \in 1..(Len(objs') + 1)
    BY <1>1, <1>2
  <2>2. ASSUME NEW y \in is_marked'
        PROVE  \E j \in i'..Len(objs') : objs'[j] = y
    <3>1. PICK j \in i..Len(objs) : objs[j] = y
      BY <1>1 DEF Sweeping
    <3>2. j # i
      BY <1>1, <3>1
    <3> QED
      BY <1>1, <1>2, <3>1, <3>2
  <2> QED
    BY <1>1, <1>2, <1>4, <1>5, <2>1, <2>2 DEF Sweeping
<1> QED
  BY <1>6, <1>7, <1>8, <1>9

(* At the end of a sweep exactly the reachable objects are left.           *)
LEMMA SweepLeavesReachable ==
  ASSUME HeapInv, pc = "sweep", i > Len(objs)
  PROVE  is_marked = {} /\ Survivors = DOMAIN heap /\ DOMAIN heap = Reachable
<1>1. Len(objs) \in Nat /\ i = Len(objs) + 1
  BY DEF HeapInv, TypeOK, Sweeping
<1>2. is_marked = {}
  BY <1>1 DEF HeapInv, Sweeping
<1>3. Swept = DOMAIN heap
  BY <1>1 DEF HeapInv, VectorExact, Swept
<1>4. Survivors = DOMAIN heap
  BY <1>2, <1>3 DEF Survivors
<1> QED
  BY <1>2, <1>4, ReachableExists DEF HeapInv, Sweeping

(* The sweep ends; what is left is what was reachable.                     *)
LEMMA SweepEndInv == HeapInv /\ SweepEnd => HeapInv'
<1> SUFFICES ASSUME HeapInv, SweepEnd PROVE HeapInv'
  OBVIOUS
<1> USE DEF HeapInv
<1>1. /\ pc = "sweep" /\ i > Len(objs)
      /\ next_gc' = IF gc_heap_grow_factor * net_bytes > gc_next_collection
                      THEN gc_heap_grow_factor * net_bytes ELSE gc_next_collection
      /\ pc' = resume /\ resume' = "none" /\ i' = 0
      /\ UNCHANGED <<roots, heap, objs, interned_strings, net_bytes, gc_disabled,
                     is_marked, grey_objects, request, temp_stash>>
  BY DEF SweepEnd
<1>2. is_marked = {} /\ grey_objects = {} /\ Survivors = DOMAIN heap
  BY <1>1, SweepLeavesReachable DEF Sweeping
<1>3. pc' \in {"intern", "create", "make"}
  BY <1>1 DEF TypeOK, Collecting
<1>4. Reachable' = Reachable /\ AllRoots' = AllRoots /\ Stage' = Stage
      /\ Survivors' = DOMAIN heap
  BY <1>1, <1>3 DEF Reachable, AllRoots, graph, Stage, Collecting, Survivors
<1>5. next_gc' \in Int
  BY <1>1, OptionsAssumption DEF TypeOK
<1>6. TypeOK'
  BY <1>1, <1>3, <1>4, <1>5 DEF TypeOK, Pcs, Collecting
<1>7. VectorExact' /\ NoStaleMarks' /\ InitializerTabled'
  BY <1>1, <1>2 DEF VectorExact, NoStaleMarks, InitializerTabled
<1>8. GraphClosed' /\ ArgumentsRooted' /\ PoolExact'
  BY <1>1, <1>2, <1>4 DEF GraphClosed, ArgumentsRooted, PoolExact
<1>9. TriColour' /\ Sweeping'
  BY <1>3 DEF TriColour, Sweeping
<1> QED
  BY <1>6, <1>7, <1>8, <1>9

-----------------------------------------------------------------------------
(* The inductive invariant holds in every reachable state: the marking is  *)
(* tri-coloured, the sweep leaves exactly the marked objects, the pool     *)
(* holds exactly the strings that survive, and what an allocation will     *)
(* store in the new object stays reachable while a collection runs.        *)
THEOREM HeapInvariant == Spec => []HeapInv
<1>1. Init => HeapInv
  <2> SUFFICES ASSUME Init PROVE HeapInv
    OBVIOUS
  <2>1. DOMAIN heap = {} /\ DOMAIN interned_strings = {} /\ objs \in Seq(Obj) /\ Len(objs) = 0
    BY DEF Init
  <2>2. Survivors = {} /\ AllRoots = {}
    BY <2>1 DEF Init, Survivors, AllRoots
  <2>3. TypeOK
    <3>0. gc_disabled \in BOOLEAN
      BY Zenon DEF Init
    <3>1. net_bytes \in Int /\ next_gc \in Int /\ i \in Nat
      <4>1. gc_next_collection \in Int
        BY OptionsAssumption
      <4> QED
        BY <4>1 DEF Init
    <3>2. pc = "idle" /\ ~Collecting /\ resume = "none" /\ request = NoRequest
      BY DEF Init, Collecting
    <3>3. roots = {} /\ temp_stash = {} /\ is_marked = {} /\ grey_objects = {}
      BY DEF Init
    <3> QED
      BY <2>1, <3>0, <3>1, <3>2, <3>3 DEF TypeOK, Pcs
  <2>4. VectorExact /\ NoStaleMarks /\ InitializerTabled
    BY <2>1 DEF Init, VectorExact, NoStaleMarks, InitializerTabled
  <2>5. GraphClosed /\ ArgumentsRooted /\ TriColour /\ Sweeping /\ PoolExact
    BY <2>1, <2>2 DEF Init, GraphClosed, ArgumentsRooted, TriColour, Sweeping, PoolExact
  <2> QED
    BY <2>3, <2>4, <2>5 DEF HeapInv
<1>2. HeapInv /\ [Next]_vars => HeapInv'
  <2> SUFFICES ASSUME HeapInv, [Next]_vars PROVE HeapInv'
    OBVIOUS
  <2>1. CASE Program
    BY <2>1, LoadInv, DropInv, StoreInv, StoreMethodInv, SwitchGCInv, NewInv DEF Program
  <2>2. CASE Allocate
    BY <2>2, StressInv, InternNameInv, InternedInv, NotInternedInv, CreateObjectInv, MakeInv
       DEF Allocate
  <2>3. CASE Collect
    BY <2>3, MarkRootsInv, TraceInv, TraceEndInv, OverflowInv, RemoveUnusedStringsInv,
       SweepFreeInv, SweepKeepInv, SweepEndInv DEF Collect
  <2>4. CASE UNCHANGED vars
    <3>1. UNCHANGED <<roots, heap, objs, interned_strings, net_bytes, next_gc, gc_disabled,
                      is_marked, grey_objects, resume, i, pc, request, temp_stash>>
      BY <2>4 DEF vars, collector, allocation
    <3>2. /\ Survivors' = Survivors /\ AllRoots' = AllRoots /\ Reachable' = Reachable
          /\ Stage' = Stage /\ Collecting' = Collecting
      BY <3>1 DEF Survivors, Swept, AllRoots, Reachable, graph, Stage, Collecting
    <3>3. TypeOK' /\ VectorExact' /\ NoStaleMarks'
      BY <3>1, <3>2 DEF HeapInv, TypeOK, VectorExact, NoStaleMarks
    <3>4. GraphClosed' /\ ArgumentsRooted' /\ InitializerTabled'
      BY <3>1, <3>2 DEF HeapInv, GraphClosed, ArgumentsRooted, InitializerTabled
    <3>5. TriColour' /\ Sweeping' /\ PoolExact'
      BY <3>1, <3>2 DEF HeapInv, TriColour, Sweeping, PoolExact
    <3> QED
      BY <3>3, <3>4, <3>5 DEF HeapInv
  <2> QED
    BY <2>1, <2>2, <2>3, <2>4 DEF Next, Crashed
<1> QED
  BY <1>1, <1>2, PTL DEF Spec

(* The state of the allocator and of the collector is well typed.          *)
THEOREM HeapTypeCorrect == Spec => []TypeOK
  BY HeapInvariant, PTL DEF HeapInv

(* All reachable objects survive a sweep.                                  *)
LEMMA ReachableSurvive ==
  ASSUME HeapInv
  PROVE  Reachable \subseteq Survivors
<1>1. Survivors \in SUBSET DOMAIN graph /\ AllRoots \subseteq Survivors
  BY DEF HeapInv, GraphClosed, graph
<1>2. ClosedIn(Survivors, graph)
  BY <1>1 DEF HeapInv, GraphClosed, ClosedIn, graph
<1> QED
  BY <1>1, <1>2, ReachBound DEF Reachable

(* No root, reachable object or allocation in progress points to an object *)
(* that has been freed.                                                    *)
THEOREM NothingDangles == Spec => []NoDangling
<1>1. HeapInv => NoDangling
  <2> SUFFICES ASSUME HeapInv PROVE NoDangling
    OBVIOUS
  <2>1. AllRoots \subseteq DOMAIN heap
    BY DEF HeapInv, GraphClosed
  <2>2. \A o \in Reachable : RefsOf(heap[o]) \subseteq DOMAIN heap
    BY ReachableSurvive DEF HeapInv, GraphClosed
  <2>3. request.kind \in Kind => Refs(request.kind, request.ptr) \subseteq DOMAIN heap
    <3>1. NoRequest.kind \notin Kind
      BY DEF NoRequest, Kind
    <3> QED
      BY <3>1, ReachableExists DEF HeapInv, TypeOK, ArgumentsRooted
  <2> QED
    BY <2>1, <2>2, <2>3 DEF NoDangling
<1> QED
  BY <1>1, HeapInvariant, PTL

(* A string that can be reached is the one the pool has for its contents,  *)
(* also while a collection removes and frees other strings.                *)
THEOREM StringsAreUnique == Spec => []StringsUnique
<1>1. HeapInv => StringsUnique
  BY ReachableSurvive DEF HeapInv, StringsUnique, PoolExact, GraphClosed
<1> QED
  BY <1>1, HeapInvariant, PTL

(* The vector of objects has every object once, whatever swap-erase does   *)
(* to it.                                                                  *)
THEOREM VectorListsAll == Spec => []VectorExact
  BY HeapInvariant, PTL DEF HeapInv

(* Marks do not outlive the collection that made them: the next one finds  *)
(* none, and follows and frees as it should.                               *)
THEOREM MarksCleared == Spec => []NoStaleMarks
  BY HeapInvariant, PTL DEF HeapInv

(* A collection leaves no garbage.                                         *)
THEOREM NoGarbageLeft == Spec => CollectsEverything
<1>1. HeapInv /\ [Next]_vars =>
        [pc = "sweep" /\ pc' # "sweep" => DOMAIN heap = Reachable]_vars
  <2> SUFFICES ASSUME HeapInv, Next, pc = "sweep", pc' # "sweep"
               PROVE  DOMAIN heap = Reachable
    OBVIOUS
  <2>1. ~Program
    BY DEF Program, Load, Drop, Store, StoreMethod, SwitchGC, New
  <2>2. ~Allocate
    BY DEF Allocate, Stress, InternName, Interned, NotInterned, CreateObject, Make
  <2>3. i > Len(objs)
    BY <2>1, <2>2 DEF Next, Collect, MarkRoots, Trace, TraceEnd, Overflow,
       RemoveUnusedStrings, SweepFree, SweepKeep, SweepEnd, Crashed, allocation
  <2> QED
    BY <2>3, SweepLeavesReachable
<1> QED
  BY <1>1, HeapInvariant, PTL DEF Spec, CollectsEverything

-----------------------------------------------------------------------------
(* The allocator and the collector implement a garbage-collected memory.   *)

(* The abstract memory and the heap mean the same by reachable.            *)
LEMMA MemoryLive == Memory!Live = Reachable
  BY DEF Memory!Live, Memory!Reach, Memory!ClosedIn, Reachable, Reach, ClosedIn

(* A step of the abstract memory that frees nothing and obtains nothing.   *)
LEMMA MutatorStep ==
  ASSUME HeapInv, DOMAIN heap' = DOMAIN heap, AllRoots' \subseteq Reachable,
         \A o \in DOMAIN heap : graph'[o] \subseteq (Reachable \cup graph[o]),
         \A o \in DOMAIN heap \ Reachable : graph'[o] = graph[o]
  PROVE  Memory!Next
<1>1. DOMAIN graph = DOMAIN heap /\ DOMAIN graph' = DOMAIN heap
  BY DEF graph
<1>2. Memory!Step(Reachable, DOMAIN graph', {})
  BY <1>1, ReachableExists DEF Memory!Step
<1> QED
  BY <1>2, MemoryLive DEF Memory!Next

(* The program's own steps are steps of the abstract memory.               *)
LEMMA ProgramStep ==
  ASSUME HeapInv, Program
  PROVE  Memory!Next \/ UNCHANGED <<AllRoots, graph>>
<1>1. pc = "idle" /\ Survivors = DOMAIN heap /\ AllRoots \subseteq DOMAIN heap
  <2>1. pc = "idle"
    BY DEF Program, Load, Drop, Store, StoreMethod, SwitchGC, New
  <2> QED
    BY <2>1 DEF HeapInv, GraphClosed, Survivors
<1>2. AllRoots \subseteq Reachable /\ roots \subseteq AllRoots
  BY <1>1, ReachRoots DEF Reachable, graph, AllRoots
<1>3. CASE Load
  <2>1. PICK o \in roots : \E x \in RefsOf(heap[o]) : roots' = roots \cup {x}
    BY <1>3 DEF Load
  <2>2. PICK x \in RefsOf(heap[o]) : roots' = roots \cup {x}
    BY <2>1
  <2>3. UNCHANGED <<heap, temp_stash>>
    BY <1>3 DEF Load, allocation
  <2>4. x \in Reachable
    <3>1. o \in DOMAIN heap /\ graph[o] = RefsOf(heap[o]) /\ DOMAIN graph = DOMAIN heap
      BY <1>1, <1>2, <2>1 DEF graph
    <3>2. x \in DOMAIN heap
      BY <1>1, <3>1, <2>2 DEF HeapInv, GraphClosed
    <3>3. o \in Reach(AllRoots, graph) /\ x \in graph[o] /\ x \in DOMAIN graph
      BY <1>2, <2>1, <2>2, <3>1, <3>2 DEF Reachable
    <3> QED
      BY <3>3, ReachStep DEF Reachable
  <2>5. AllRoots' \subseteq Reachable
    BY <1>2, <2>2, <2>3, <2>4 DEF AllRoots
  <2>6. graph' = graph
    BY <2>3 DEF graph
  <2> QED
    BY <2>3, <2>5, <2>6, MutatorStep
<1>4. CASE Drop
  <2>1. roots' \subseteq roots /\ UNCHANGED <<heap, temp_stash>>
    BY <1>4 DEF Drop, allocation
  <2>2. AllRoots' \subseteq Reachable
    BY <1>2, <2>1 DEF AllRoots
  <2>3. graph' = graph
    BY <2>1 DEF graph
  <2> QED
    BY <2>1, <2>2, <2>3, MutatorStep
<1>5. ASSUME NEW o \in roots, NEW ptr, heap' = [heap EXCEPT ![o].ptr = ptr],
             UNCHANGED <<roots, temp_stash>>,
             Refs(heap[o].kind, ptr) \subseteq (Reachable \cup RefsOf(heap[o]))
      PROVE  Memory!Next
  <2>1. AllRoots' = AllRoots
    BY <1>5 DEF AllRoots
  <2>2. o \in DOMAIN heap /\ o \in Reachable /\ heap[o] \in ObjectType
    BY <1>1, <1>2 DEF HeapInv, TypeOK
  <2>3. /\ DOMAIN heap' = DOMAIN heap
        /\ \A y \in DOMAIN heap : y # o => heap'[y] = heap[y]
        /\ heap'[o].kind = heap[o].kind /\ heap'[o].ptr = ptr
    BY <1>5, <2>2 DEF ObjectType
  <2>4. \A y \in DOMAIN heap : y # o => graph'[y] = graph[y]
    BY <2>3 DEF graph
  <2>5. graph'[o] \subseteq (Reachable \cup graph[o])
    BY <1>5, <2>2, <2>3 DEF graph, RefsOf
  <2> QED
    BY <1>2, <2>1, <2>2, <2>3, <2>4, <2>5, MutatorStep
<1>6. CASE Store
  <2>1. PICK o \in roots : \E f \in FieldsOf(heap[o].kind) \cap Mutable :
          \E S \in {{}} \cup {heap[o].ptr[f] \cup {x} : x \in OfKind(f) \cap roots} :
            heap' = [heap EXCEPT ![o].ptr[f] = S]
    BY <1>6 DEF Store
  <2>2. PICK f \in FieldsOf(heap[o].kind) \cap Mutable :
          \E S \in {{}} \cup {heap[o].ptr[f] \cup {x} : x \in OfKind(f) \cap roots} :
            heap' = [heap EXCEPT ![o].ptr[f] = S]
    BY <2>1
  <2>3. PICK S \in {{}} \cup {heap[o].ptr[f] \cup {x} : x \in OfKind(f) \cap roots} :
          heap' = [heap EXCEPT ![o].ptr[f] = S]
    BY <2>2
  <2> DEFINE ptr == [heap[o].ptr EXCEPT ![f] = S]
  <2>4. heap[o] \in ObjectType /\ heap[o].ptr \in Pointers(heap[o].kind)
    BY <1>1, <1>2 DEF HeapInv, TypeOK
  <2>5. heap' = [heap EXCEPT ![o].ptr = ptr]
    BY <2>3, <2>4 DEF ObjectType
  <2>6. UNCHANGED <<roots, temp_stash>>
    BY <1>6 DEF Store, allocation
  <2>7. heap[o].ptr[f] \subseteq RefsOf(heap[o])
    BY <2>2 DEF RefsOf, Refs
  <2>8. S \subseteq (Reachable \cup RefsOf(heap[o]))
    BY <1>2, <2>3, <2>7
  <2>9. \A e \in FieldsOf(heap[o].kind) : ptr[e] \subseteq (Reachable \cup RefsOf(heap[o]))
    BY <2>4, <2>8 DEF Pointers, RefsOf, Refs
  <2> HIDE DEF ptr
  <2>10. Refs(heap[o].kind, ptr) \subseteq (Reachable \cup RefsOf(heap[o]))
    BY <2>9 DEF Refs
  <2> QED
    BY <1>5, <2>5, <2>6, <2>10
<1>7. CASE StoreMethod
  <2>1. PICK o \in roots, x \in roots, is_init \in BOOLEAN :
          /\ heap[o].kind = "CLASS" /\ heap[x].kind = "CLOSURE"
          /\ heap' = [heap EXCEPT ![o].ptr = WithMethod(@, x, is_init)]
    BY <1>7 DEF StoreMethod
  <2> DEFINE old == heap[o].ptr
             ptr == WithMethod(old, x, is_init)
  <2>2. UNCHANGED <<roots, temp_stash>>
    BY <1>7 DEF StoreMethod, allocation
  <2>3. old \in Pointers(heap[o].kind)
    BY <1>1, <1>2 DEF HeapInv, TypeOK
  <2>4. FieldsOf(heap[o].kind) = {"name", "method_names", "methods", "init_method"}
    BY <2>1 DEF FieldsOf
  <2>5. \A e \in FieldsOf(heap[o].kind) : ptr[e] \subseteq (old[e] \cup {x})
    BY <2>3, <2>4 DEF Pointers, WithMethod
  <2>6. \A e \in FieldsOf(heap[o].kind) : old[e] \subseteq RefsOf(heap[o])
    BY DEF RefsOf, Refs
  <2>7. heap' = [heap EXCEPT ![o].ptr = ptr]
    BY <2>1
  <2> HIDE DEF ptr
  <2>8. Refs(heap[o].kind, ptr) \subseteq (Reachable \cup RefsOf(heap[o]))
    BY <1>2, <2>5, <2>6 DEF Refs
  <2> QED
    BY <1>5, <2>2, <2>7, <2>8
<1>8. CASE SwitchGC \/ New
  BY <1>8 DEF SwitchGC, New, allocation, AllRoots, graph
<1> QED
  BY <1>3, <1>4, <1>6, <1>7, <1>8 DEF Program

(* The steps of an allocation are steps of the abstract memory or are not  *)
(* seen by it.                                                             *)
LEMMA AllocateStep ==
  ASSUME HeapInv, Allocate
  PROVE  Memory!Next \/ UNCHANGED <<AllRoots, graph>>
<1>1. pc \in {"stress", "intern", "create", "make"}
  BY DEF Allocate, Stress, InternName, Interned, NotInterned, CreateObject, Make
<1>2. Survivors = DOMAIN heap /\ AllRoots \subseteq DOMAIN heap /\ DOMAIN graph = DOMAIN heap
  BY <1>1 DEF HeapInv, GraphClosed, Survivors, graph
<1>3. AllRoots \subseteq Reachable
  BY <1>2, ReachRoots DEF Reachable
<1>4. CASE Stress \/ InternName \/ NotInterned \/ CreateObject
  BY <1>4 DEF Stress, InternName, NotInterned, CreateObject, AllRoots, graph
<1>5. CASE Interned
  <2> DEFINE o == interned_strings[request.chars]
  <2>1. request.chars \in DOMAIN interned_strings /\ Deliver(o) /\ heap' = heap
    BY <1>5 DEF Interned
  <2>2. o \in DOMAIN heap /\ heap[o].kind = "STRING" /\ o \in Obj
    BY <1>2, <2>1 DEF HeapInv, PoolExact, TypeOK
  <2>3. graph[o] = {} /\ graph' = graph
    BY <2>1, <2>2 DEF graph, RefsOf, Refs, FieldsOf
  <2> HIDE DEF o
  <2>4. AllRoots' \subseteq AllRoots \cup {o}
    BY <1>1, <2>1, <2>2, Delivered
  <2>5. Memory!Step(Reachable, DOMAIN graph', {o})
    BY <1>2, <1>3, <2>2, <2>3, <2>4, ReachableExists DEF Memory!Step
  <2> QED
    BY <2>2, <2>5, MemoryLive DEF Memory!Next
<1>6. CASE Make
  <2>1. PICK o \in Obj \ DOMAIN heap :
         /\ heap' = [x \in DOMAIN heap \cup {o} |->
                       IF x = o THEN Object(request.kind, request.ptr, request.chars)
                                ELSE heap[x]]
         /\ Deliver(o)
    BY <1>6 DEF Make
  <2>2. AllRoots' \subseteq AllRoots \cup {o}
    BY <1>1, <2>1, Delivered
  <2>3. Refs(request.kind, request.ptr) \subseteq Reachable
    BY <1>1, RequestFacts
  <2>4. /\ DOMAIN graph' = DOMAIN heap \cup {o}
        /\ \A x \in DOMAIN heap : graph'[x] = graph[x]
        /\ graph'[o] = Refs(request.kind, request.ptr)
    BY <2>1 DEF graph, Object, RefsOf
  <2>5. DOMAIN graph' \ {o} = DOMAIN graph
    BY <1>2, <2>1, <2>4
  <2>6. Memory!Step(Reachable, DOMAIN graph' \ {o}, {o})
    BY <1>2, <1>3, <2>1, <2>2, <2>3, <2>4, <2>5, ReachableExists DEF Memory!Step
  <2> QED
    BY <2>6, MemoryLive DEF Memory!Next
<1> QED
  BY <1>4, <1>5, <1>6 DEF Allocate

(* The steps of a collection are steps of the abstract memory, which frees *)
(* garbage, or are not seen by it.                                         *)
LEMMA CollectStep ==
  ASSUME HeapInv, Collect
  PROVE  Memory!Next \/ UNCHANGED <<AllRoots, graph>>
<1>1. CASE SweepFree
  <2> DEFINE o == objs[i]
  <2>1. /\ pc = "sweep" /\ i <= Len(objs) /\ o \notin is_marked
        /\ heap' = [x \in DOMAIN heap \ {o} |-> heap[x]]
        /\ UNCHANGED <<roots, temp_stash>>
    BY <1>1 DEF SweepFree, allocation
  <2>2. Len(objs) \in Nat /\ i \in 1..Len(objs)
    BY <2>1 DEF HeapInv, TypeOK, Sweeping
  <2>3. o \notin Swept
    BY <2>2 DEF HeapInv, Swept, VectorExact
  <2>4. o \notin Reachable
    BY <2>1, <2>3, ReachableSurvive DEF Survivors
  <2>5. AllRoots' = AllRoots /\ AllRoots \subseteq Reachable
    BY <2>1, ReachRoots DEF AllRoots, HeapInv, GraphClosed, Reachable, graph
  <2>6. /\ DOMAIN graph' = DOMAIN graph \ {o} /\ DOMAIN graph = DOMAIN heap
        /\ \A x \in DOMAIN graph' : graph'[x] = graph[x]
    BY <2>1 DEF graph
  <2> HIDE DEF o
  <2>7. Memory!Step(Reachable, DOMAIN graph', {})
    BY <2>4, <2>5, <2>6, ReachableExists DEF Memory!Step
  <2> QED
    BY <2>7, MemoryLive DEF Memory!Next
<1>2. CASE \/ MarkRoots \/ Trace \/ TraceEnd \/ Overflow \/ RemoveUnusedStrings
           \/ SweepKeep \/ SweepEnd
  BY <1>2 DEF MarkRoots, Trace, TraceEnd, Overflow, RemoveUnusedStrings, SweepKeep, SweepEnd,
     allocation, AllRoots, graph
<1> QED
  BY <1>1, <1>2 DEF Collect

(* The allocator with its collector is a garbage-collected memory: every   *)
(* step frees only what cannot be reached, changes nothing the program can *)
(* reach behind its back, and gives new objects fresh addresses.           *)
THEOREM Refinement == Spec => ImplementsMemory
<1>1. Init => Memory!Init
  BY DEF Init, Memory!Init, AllRoots, graph
<1>2. HeapInv /\ [Next]_vars => [Memory!Next]_(Memory!vars)
  <2> SUFFICES ASSUME HeapInv, [Next]_vars
               PROVE  Memory!Next \/ UNCHANGED <<AllRoots, graph>>
    BY DEF Memory!vars
  <2>1. CASE UNCHANGED vars
    BY <2>1 DEF vars, allocation, AllRoots, graph
  <2> QED
    BY <2>1, ProgramStep, AllocateStep, CollectStep DEF Next, Crashed
<1> QED
  BY <1>1, <1>2, HeapInvariant, PTL DEF Spec, ImplementsMemory, Memory!Spec

-----------------------------------------------------------------------------
(* Sums over finite sets.  Induction is over sets of numbers: a set with 0 *)
(* and with n + 1 for each of its n has all natural numbers.               *)

(* The sum of the values v over S, and the element taken out first.        *)
SumOver(v, S) == MapThenSumSet(LAMBDA x : v[x], S)
Chosen(s) == CHOOSE x \in s : TRUE

(* f sums the values of each subset of S.                                  *)
IsSumFunction(f, v, S) ==
  f = [s \in SUBSET S |->
         IF s = {} THEN 0 ELSE v[Chosen(s)] + f[s \ {Chosen(s)}]]

(* The same, for the subsets with no more than n elements.                 *)
SubsetsUpTo(S, n) == {s \in SUBSET S : Cardinality(s) <= n}
IsSumUpTo(f, v, S, n) ==
  /\ f \in [SubsetsUpTo(S, n) -> Int]
  /\ \A s \in SubsetsUpTo(S, n) :
       f[s] = IF s = {} THEN 0 ELSE v[Chosen(s)] + f[s \ {Chosen(s)}]

(* A set of natural numbers has a least one.                               *)
LEMMA LeastNumber ==
  ASSUME NEW T, T \subseteq Nat, T # {}
  PROVE  \E x \in T : \A y \in T : x <= y
<1> DEFINE R == {ss \in Nat \X Nat : ss[1] < ss[2]}
<1>1. OpToRel(<, Nat) = R
  BY Zenon DEF OpToRel
<1>2. IsWellFoundedOn(R, Nat)
  BY <1>1, NatLessThanWellFounded, Zenon
<1>3. PICK x \in T : \A y \in T : ~ (<<y, x>> \in R)
  BY <1>2, WFMin, Zenon
<1>4. \A y \in Nat : y < x => <<y, x>> \in R
  BY <1>3
<1>5. \A y \in T : ~(y < x)
  BY <1>3, <1>4
<1>6. \A y \in T : x <= y
  BY <1>5
<1> QED
  BY <1>6

(* Induction over the natural numbers.                                     *)
LEMMA Induction ==
  ASSUME NEW G, 0 \in G, \A n \in Nat : n \in G => n + 1 \in G
  PROVE  Nat \subseteq G
<1> SUFFICES ASSUME Nat \ G # {} PROVE FALSE
  OBVIOUS
<1>1. PICK x \in Nat \ G : \A y \in Nat \ G : x <= y
  BY LeastNumber, Zenon
<1>2. x # 0 /\ x - 1 \in Nat /\ ~(x <= x - 1)
  BY <1>1
<1>3. x - 1 \in G
  BY <1>1, <1>2
<1>4. x - 1 + 1 = x
  BY <1>1
<1> QED
  BY <1>1, <1>2, <1>3, <1>4

(* An element of the set is chosen.                                        *)
LEMMA ChosenIn ==
  ASSUME NEW s, s # {}
  PROVE  Chosen(s) \in s
  BY Zenon DEF Chosen

(* A subset gets smaller when an element is taken out.                     *)
LEMMA SubsetWithoutChosen ==
  ASSUME NEW S, IsFiniteSet(S), NEW n \in Nat, NEW s \in SubsetsUpTo(S, n), s # {}
  PROVE  n # 0 /\ s \ {Chosen(s)} \in SubsetsUpTo(S, n - 1)
<1>1. s \in SUBSET S /\ Cardinality(s) <= n
  BY DEF SubsetsUpTo
<1>2. IsFiniteSet(s)
  BY <1>1, FS_Subset
<1>3. Cardinality(s) \in Nat /\ Cardinality(s) # 0
  BY <1>2, FS_CardinalityType, FS_EmptySet
<1>4. Cardinality(s \ {Chosen(s)}) = Cardinality(s) - 1
  BY <1>2, ChosenIn, FS_RemoveElement
<1>5. s \ {Chosen(s)} \in SUBSET S
  BY <1>1
<1> QED
  BY <1>1, <1>3, <1>4, <1>5 DEF SubsetsUpTo

(* Only the empty set has no elements.                                     *)
LEMMA SubsetsUpToZero ==
  ASSUME NEW S, IsFiniteSet(S), NEW s \in SubsetsUpTo(S, 0)
  PROVE  s = {}
  BY SubsetWithoutChosen

(* What has n elements at most has n + 1 at most.                          *)
LEMMA SubsetsUpToMore ==
  ASSUME NEW S, IsFiniteSet(S), NEW n \in Nat, NEW s \in SubsetsUpTo(S, n)
  PROVE  s \in SubsetsUpTo(S, n + 1)
<1>1. s \in SUBSET S /\ Cardinality(s) <= n
  BY DEF SubsetsUpTo
<1>2. Cardinality(s) \in Nat
  BY <1>1, FS_Subset, FS_CardinalityType
<1> QED
  BY <1>1, <1>2 DEF SubsetsUpTo

(* The recursion has a solution on the small subsets, by induction on size.*)
LEMMA SumsUpToExist ==
  ASSUME NEW S, IsFiniteSet(S), NEW v, \A x \in S : v[x] \in Int
  PROVE  \A n \in Nat : \E f : IsSumUpTo(f, v, S, n)
<1> DEFINE G == {n \in Nat : \E f : IsSumUpTo(f, v, S, n)}
<1>1. 0 \in G
  <2> DEFINE f == [s \in SubsetsUpTo(S, 0) |-> 0]
  <2>1. IsSumUpTo(f, v, S, 0)
    BY SubsetsUpToZero DEF IsSumUpTo
  <2> QED
    BY <2>1
<1>2. ASSUME NEW n \in Nat, n \in G PROVE n + 1 \in G
  <2>1. PICK f : IsSumUpTo(f, v, S, n)
    BY <1>2
  <2> DEFINE g == [s \in SubsetsUpTo(S, n + 1) |->
                     IF s = {} THEN 0 ELSE v[Chosen(s)] + f[s \ {Chosen(s)}]]
  <2>2. \A s \in SubsetsUpTo(S, n + 1) :
          s # {} => s \ {Chosen(s)} \in SubsetsUpTo(S, n) /\ Chosen(s) \in S
    <3> SUFFICES ASSUME NEW s \in SubsetsUpTo(S, n + 1), s # {}
                 PROVE  s \ {Chosen(s)} \in SubsetsUpTo(S, n) /\ Chosen(s) \in S
      OBVIOUS
    <3>1. n + 1 \in Nat /\ (n + 1) - 1 = n
      OBVIOUS
    <3>2. s \ {Chosen(s)} \in SubsetsUpTo(S, (n + 1) - 1)
      BY <3>1, SubsetWithoutChosen, Zenon
    <3>3. Chosen(s) \in S
      BY ChosenIn DEF SubsetsUpTo
    <3> QED
      BY <3>1, <3>2, <3>3
  <2>3. g \in [SubsetsUpTo(S, n + 1) -> Int]
    BY <2>1, <2>2 DEF IsSumUpTo
  <2>4. \A s \in SubsetsUpTo(S, n) : s \in SubsetsUpTo(S, n + 1) /\ g[s] = f[s]
    <3> SUFFICES ASSUME NEW s \in SubsetsUpTo(S, n)
                 PROVE  s \in SubsetsUpTo(S, n + 1) /\ g[s] = f[s]
      OBVIOUS
    <3>1. s \in SubsetsUpTo(S, n + 1)
      BY SubsetsUpToMore
    <3> QED
      BY <2>1, <3>1 DEF IsSumUpTo
  <2>5. \A s \in SubsetsUpTo(S, n + 1) :
          g[s] = IF s = {} THEN 0 ELSE v[Chosen(s)] + g[s \ {Chosen(s)}]
    BY <2>2, <2>4
  <2> HIDE DEF g
  <2>6. IsSumUpTo(g, v, S, n + 1)
    BY <2>3, <2>5 DEF IsSumUpTo
  <2> QED
    BY <2>6
<1> HIDE DEF G
<1>3. Nat \subseteq G
  BY <1>1, <1>2, Induction
<1> QED
  BY <1>3 DEF G

(* So it has one on all subsets of a finite set.                           *)
LEMMA SumExists ==
  ASSUME NEW S, IsFiniteSet(S), NEW v, \A x \in S : v[x] \in Int
  PROVE  \E f : IsSumFunction(f, v, S) /\ f \in [SUBSET S -> Int]
<1> DEFINE n == Cardinality(S)
<1>1. n \in Nat
  BY FS_CardinalityType
<1>2. PICK f : IsSumUpTo(f, v, S, n)
  BY <1>1, SumsUpToExist
<1>3. SubsetsUpTo(S, n) = SUBSET S
  BY FS_Subset DEF SubsetsUpTo
<1> HIDE DEF n
<1>4. IsSumFunction(f, v, S)
  BY <1>2, <1>3 DEF IsSumFunction, IsSumUpTo
<1> QED
  BY <1>2, <1>3, <1>4 DEF IsSumUpTo

(* The sum over S is the value of such a solution.                         *)
LEMMA SumIs ==
  ASSUME NEW S, IsFiniteSet(S), NEW v, \A x \in S : v[x] \in Int
  PROVE  \E f : IsSumFunction(f, v, S) /\ SumOver(v, S) = f[S]
<1> DEFINE h == CHOOSE f : IsSumFunction(f, v, S)
<1>1. IsSumFunction(h, v, S)
  BY SumExists
<1>2. SumOver(v, S) = h[S]
  BY DEF SumOver, MapThenSumSet, MapThenFoldSet, IsSumFunction, Chosen
<1> QED
  BY <1>1, <1>2

(* The solutions for S and for a subset T agree on the subsets of T.       *)
LEMMA SumUnique ==
  ASSUME NEW S, IsFiniteSet(S), NEW v, NEW f, IsSumFunction(f, v, S),
         NEW T, T \subseteq S, NEW g, IsSumFunction(g, v, T)
  PROVE  \A s \in SUBSET T : f[s] = g[s]
<1> DEFINE G == {n \in Nat : \A s \in SubsetsUpTo(T, n) : f[s] = g[s]}
<1>0. IsFiniteSet(T)
  BY FS_Subset
<1>6. \A s \in SUBSET T : f[s] = IF s = {} THEN 0 ELSE v[Chosen(s)] + f[s \ {Chosen(s)}]
  BY DEF IsSumFunction
<1>7. \A s \in SUBSET T : g[s] = IF s = {} THEN 0 ELSE v[Chosen(s)] + g[s \ {Chosen(s)}]
  BY DEF IsSumFunction
<1>1. 0 \in G
  <2>1. \A s \in SubsetsUpTo(T, 0) : s = {} /\ s \in SUBSET T
    BY <1>0, SubsetsUpToZero DEF SubsetsUpTo
  <2> QED
    BY <2>1, <1>6, <1>7
<1>2. ASSUME NEW n \in Nat, n \in G PROVE n + 1 \in G
  <2> SUFFICES ASSUME NEW s \in SubsetsUpTo(T, n + 1) PROVE f[s] = g[s]
    OBVIOUS
  <2>1. s \in SUBSET T
    BY DEF SubsetsUpTo
  <2>2. CASE s = {}
    BY <2>1, <2>2, <1>6, <1>7
  <2>3. CASE s # {}
    <3>1. n + 1 \in Nat /\ (n + 1) - 1 = n
      OBVIOUS
    <3>2. s \ {Chosen(s)} \in SubsetsUpTo(T, (n + 1) - 1)
      BY <1>0, <2>3, <3>1, SubsetWithoutChosen, Zenon
    <3>3. f[s \ {Chosen(s)}] = g[s \ {Chosen(s)}]
      BY <1>2, <3>1, <3>2
    <3> QED
      BY <2>1, <2>3, <3>3, <1>6, <1>7
  <2> QED
    BY <2>2, <2>3
<1> HIDE DEF G
<1>3. Nat \subseteq G
  BY <1>1, <1>2, Induction
<1>4. Cardinality(T) \in G
  BY <1>0, <1>3, FS_CardinalityType
<1>5. \A s \in SUBSET T : s \in SubsetsUpTo(T, Cardinality(T))
  BY <1>0, FS_Subset DEF SubsetsUpTo
<1> QED
  BY <1>4, <1>5 DEF G

(* A sum of integers is an integer.                                        *)
LEMMA SumType ==
  ASSUME NEW S, IsFiniteSet(S), NEW v, \A x \in S : v[x] \in Int
  PROVE  SumOver(v, S) \in Int
<1>1. PICK f : IsSumFunction(f, v, S) /\ f \in [SUBSET S -> Int]
  BY SumExists
<1>2. PICK g : IsSumFunction(g, v, S) /\ SumOver(v, S) = g[S]
  BY SumIs
<1>3. f[S] = g[S]
  BY <1>1, <1>2, SumUnique
<1> QED
  BY <1>1, <1>2, <1>3

(* The sum over the empty set.                                             *)
LEMMA SumEmpty ==
  ASSUME NEW v
  PROVE  SumOver(v, {}) = 0
<1>1. PICK f : IsSumFunction(f, v, {}) /\ SumOver(v, {}) = f[{}]
  BY SumIs, FS_EmptySet
<1> QED
  BY <1>1 DEF IsSumFunction

(* The sum is that of the element taken out first and the rest.            *)
LEMMA SumStep ==
  ASSUME NEW S, IsFiniteSet(S), NEW v, \A x \in S : v[x] \in Int, S # {}
  PROVE  SumOver(v, S) = v[Chosen(S)] + SumOver(v, S \ {Chosen(S)})
<1> DEFINE T == S \ {Chosen(S)}
<1>1. PICK f : IsSumFunction(f, v, S) /\ SumOver(v, S) = f[S]
  BY SumIs
<1>2. IsFiniteSet(T) /\ T \subseteq S
  BY FS_Subset
<1>3. PICK g : IsSumFunction(g, v, T) /\ SumOver(v, T) = g[T]
  BY <1>2, SumIs
<1> HIDE DEF T
<1>4. f[T] = g[T]
  BY <1>1, <1>2, <1>3, SumUnique
<1>5. f[S] = v[Chosen(S)] + f[T]
  BY <1>1 DEF IsSumFunction, T
<1>6. SumOver(v, S) = v[Chosen(S)] + SumOver(v, T)
  BY <1>1, <1>3, <1>4, <1>5
<1> QED
  BY <1>6 DEF T

(* Equal values have equal sums.                                           *)
LEMMA SumSame ==
  ASSUME NEW S, IsFiniteSet(S), NEW v, NEW w, \A x \in S : v[x] \in Int /\ w[x] = v[x]
  PROVE  SumOver(w, S) = SumOver(v, S)
<1> DEFINE G == {n \in Nat : \A s \in SubsetsUpTo(S, n) : SumOver(w, s) = SumOver(v, s)}
<1>1. 0 \in G
  <2>1. \A s \in SubsetsUpTo(S, 0) : s = {}
    BY SubsetsUpToZero
  <2> QED
    BY <2>1, SumEmpty
<1>2. ASSUME NEW n \in Nat, n \in G PROVE n + 1 \in G
  <2> SUFFICES ASSUME NEW s \in SubsetsUpTo(S, n + 1) PROVE SumOver(w, s) = SumOver(v, s)
    OBVIOUS
  <2>1. s \in SUBSET S /\ IsFiniteSet(s)
    BY FS_Subset DEF SubsetsUpTo
  <2>2. CASE s = {}
    BY <2>2, SumEmpty
  <2>3. CASE s # {}
    <3>1. n + 1 \in Nat /\ (n + 1) - 1 = n
      OBVIOUS
    <3>2. s \ {Chosen(s)} \in SubsetsUpTo(S, (n + 1) - 1)
      BY <2>3, <3>1, SubsetWithoutChosen, Zenon
    <3>3. SumOver(w, s \ {Chosen(s)}) = SumOver(v, s \ {Chosen(s)})
      BY <1>2, <3>1, <3>2
    <3>4. Chosen(s) \in S
      BY <2>1, <2>3, ChosenIn
    <3>5. SumOver(v, s) = v[Chosen(s)] + SumOver(v, s \ {Chosen(s)})
      BY <2>1, <2>3, SumStep
    <3>6. SumOver(w, s) = w[Chosen(s)] + SumOver(w, s \ {Chosen(s)})
      BY <2>1, <2>3, SumStep
    <3> QED
      BY <3>3, <3>4, <3>5, <3>6
  <2> QED
    BY <2>2, <2>3
<1> HIDE DEF G
<1>3. Nat \subseteq G
  BY <1>1, <1>2, Induction
<1>4. Cardinality(S) \in G
  BY <1>3, FS_CardinalityType
<1>5. S \in SubsetsUpTo(S, Cardinality(S))
  BY FS_CardinalityType DEF SubsetsUpTo
<1> QED
  BY <1>4, <1>5 DEF G

(* Any element may be taken out first, for addition is commutative.        *)
LEMMA SumRemove ==
  ASSUME NEW S, IsFiniteSet(S), NEW v, \A x \in S : v[x] \in Int
  PROVE  \A x \in S : SumOver(v, S) = v[x] + SumOver(v, S \ {x})
<1> DEFINE G == {n \in Nat : \A s \in SubsetsUpTo(S, n) : \A x \in s :
                               SumOver(v, s) = v[x] + SumOver(v, s \ {x})}
<1>1. 0 \in G
  <2>1. \A s \in SubsetsUpTo(S, 0) : s = {}
    BY SubsetsUpToZero
  <2> QED
    BY <2>1
<1>2. ASSUME NEW n \in Nat, n \in G PROVE n + 1 \in G
  <2> SUFFICES ASSUME NEW s \in SubsetsUpTo(S, n + 1), NEW x \in s
               PROVE SumOver(v, s) = v[x] + SumOver(v, s \ {x})
    OBVIOUS
  <2> DEFINE c == Chosen(s)
  <2>1. s \in SUBSET S /\ IsFiniteSet(s)
    BY FS_Subset DEF SubsetsUpTo
  <2>2. c \in s
    BY ChosenIn
  <2>3. SumOver(v, s) = v[c] + SumOver(v, s \ {c})
    BY <2>1, SumStep
  <2>4. CASE c = x
    BY <2>3, <2>4
  <2>5. CASE c # x
    <3>1. n + 1 \in Nat /\ (n + 1) - 1 = n
      OBVIOUS
    <3>2. s \ {c} \in SubsetsUpTo(S, (n + 1) - 1)
      BY <2>2, <3>1, SubsetWithoutChosen
    <3>3. s \ {x} \in SubsetsUpTo(S, n)
      <4>1. Cardinality(s) \in Nat /\ Cardinality(s) <= n + 1
        BY <2>1, FS_CardinalityType DEF SubsetsUpTo
      <4>2. Cardinality(s \ {x}) = Cardinality(s) - 1
        BY <2>1, FS_RemoveElement
      <4> QED
        BY <2>1, <4>1, <4>2 DEF SubsetsUpTo
    <3> HIDE DEF c
    <3>4. x \in s \ {c} /\ c \in s \ {x} /\ s \ {c} \in SubsetsUpTo(S, n)
      BY <2>2, <2>5, <3>1, <3>2
    <3>5. SumOver(v, s \ {c}) = v[x] + SumOver(v, (s \ {c}) \ {x})
      BY <1>2, <3>4
    <3>6. SumOver(v, s \ {x}) = v[c] + SumOver(v, (s \ {x}) \ {c})
      BY <1>2, <3>3, <3>4
    <3> DEFINE r == (s \ {c}) \ {x}
    <3>7. (s \ {x}) \ {c} = r
      OBVIOUS
    <3>8. IsFiniteSet(r) /\ r \subseteq S
      BY <2>1, FS_Subset
    <3> HIDE DEF r
    <3>9. SumOver(v, r) \in Int
      BY <3>8, SumType
    <3>10. SumOver(v, s) = v[c] + (v[x] + SumOver(v, r))
      BY <2>3, <3>5 DEF r
    <3>11. v[x] + SumOver(v, s \ {x}) = v[x] + (v[c] + SumOver(v, r))
      BY <3>6, <3>7
    <3>12. v[c] \in Int /\ v[x] \in Int
      BY <2>1, <2>2
    <3> QED
      BY <3>9, <3>10, <3>11, <3>12
  <2> QED
    BY <2>4, <2>5
<1> HIDE DEF G
<1>3. Nat \subseteq G
  BY <1>1, <1>2, Induction
<1>4. Cardinality(S) \in G
  BY <1>3, FS_CardinalityType
<1>5. S \in SubsetsUpTo(S, Cardinality(S))
  BY FS_CardinalityType DEF SubsetsUpTo
<1> QED
  BY <1>4, <1>5 DEF G

-----------------------------------------------------------------------------
(* The bytes that are counted *)

TotalBytes == SumOver(Bytes, DOMAIN heap)
Uncreated == IF Counted THEN Size[request.kind] ELSE 0

(* There are finitely many objects, and each counts a number of bytes.     *)
LEMMA HeapFinite ==
  ASSUME HeapInv
  PROVE  /\ IsFiniteSet(DOMAIN heap)
         /\ \A o \in DOMAIN heap : Bytes[o] = Size[heap[o].kind] /\ Bytes[o] \in Int
<1>1. objs \in Seq(Obj) /\ {objs[j] : j \in 1..Len(objs)} = DOMAIN heap
  BY DEF HeapInv, TypeOK, VectorExact
<1>2. Len(objs) \in Nat
  BY <1>1
<1>3. IsFiniteSet(1..Len(objs))
  BY <1>2, FS_Interval
<1> DEFINE f == [j \in 1..Len(objs) |-> objs[j]]
<1>4. f \in Surjection(1..Len(objs), DOMAIN heap)
  BY <1>1 DEF Surjection
<1>5. IsFiniteSet(DOMAIN heap)
  BY <1>3, <1>4, FS_Surjection
<1>6. \A o \in DOMAIN heap : heap[o].kind \in Kind
  BY DEF HeapInv, TypeOK, ObjectType
<1>7. \A o \in DOMAIN heap : Bytes[o] = Size[heap[o].kind]
  BY DEF Bytes
<1>8. \A k \in Kind : Size[k] \in Int
  BY OptionsAssumption
<1> QED
  BY <1>5, <1>6, <1>7, <1>8

(* What is counted, in terms of the two sums.                              *)
BytesAddUp == net_bytes = TotalBytes + Uncreated

(* This is what the invariant says.                                        *)
LEMMA BytesExactMeans == BytesAddUp => BytesExact
  BY DEF BytesExact, BytesAddUp, TotalBytes, Uncreated, SumOver

(* A step that keeps the objects and their kinds keeps their bytes.        *)
LEMMA SameBytes ==
  ASSUME HeapInv, DOMAIN heap' = DOMAIN heap,
         \A o \in DOMAIN heap : heap'[o].kind = heap[o].kind
  PROVE  TotalBytes' = TotalBytes
<1>1. PICK S, v, w : S = DOMAIN heap /\ v = Bytes /\ w = Bytes'
  OBVIOUS
<1>2. IsFiniteSet(S) /\ \A x \in S : v[x] \in Int
  BY <1>1, HeapFinite
<1>3. \A x \in S : w[x] = v[x]
  BY <1>1 DEF Bytes
<1>4. SumOver(w, S) = SumOver(v, S)
  BY <1>2, <1>3, SumSame
<1> QED
  BY <1>1, <1>4 DEF TotalBytes

(* A step that frees o takes its bytes away.                               *)
LEMMA FewerBytes ==
  ASSUME HeapInv, NEW o \in DOMAIN heap, heap' = [x \in DOMAIN heap \ {o} |-> heap[x]]
  PROVE  /\ TotalBytes' \in Int
         /\ TotalBytes = Size[heap[o].kind] + TotalBytes'
<1>1. PICK S, v, w : S = DOMAIN heap /\ v = Bytes /\ w = Bytes'
  OBVIOUS
<1>2. IsFiniteSet(S) /\ o \in S /\ \A x \in S : v[x] \in Int
  BY <1>1, HeapFinite
<1>3. DOMAIN heap' = S \ {o} /\ v[o] = Size[heap[o].kind]
  BY <1>1, HeapFinite
<1>4. \A x \in S \ {o} : w[x] = v[x]
  BY <1>1 DEF Bytes
<1> DEFINE T == S \ {o}
<1>5. IsFiniteSet(T)
  BY <1>2, FS_RemoveElement
<1>6. SumOver(w, T) = SumOver(v, T)
  BY <1>2, <1>4, <1>5, SumSame
<1>7. SumOver(v, S) = v[o] + SumOver(v, T)
  BY <1>2, SumRemove
<1>8. SumOver(v, T) \in Int
  BY <1>2, <1>5, SumType
<1> QED
  BY <1>1, <1>3, <1>6, <1>7, <1>8 DEF TotalBytes

(* A step that makes an object o of kind k adds its bytes.                 *)
LEMMA MoreBytes ==
  ASSUME HeapInv, NEW o, o \notin DOMAIN heap, NEW k \in Kind,
         DOMAIN heap' = DOMAIN heap \cup {o}, heap'[o].kind = k,
         \A x \in DOMAIN heap : heap'[x] = heap[x]
  PROVE  /\ TotalBytes \in Int
         /\ TotalBytes' = Size[k] + TotalBytes
<1>1. PICK S, v, w : S = DOMAIN heap /\ v = Bytes /\ w = Bytes'
  OBVIOUS
<1>2. IsFiniteSet(S) /\ o \notin S /\ \A x \in S : v[x] \in Int
  BY <1>1, HeapFinite
<1> DEFINE T == S \cup {o}
<1>3. DOMAIN heap' = T /\ w[o] = Size[k] /\ \A x \in S : w[x] = v[x]
  BY <1>1 DEF Bytes
<1>4. Size[k] \in Int
  BY OptionsAssumption
<1>5. IsFiniteSet(T) /\ T \ {o} = S /\ o \in T
  BY <1>2, FS_AddElement
<1>6. \A x \in T : w[x] \in Int
  BY <1>2, <1>3, <1>4
<1>7. SumOver(w, S) = SumOver(v, S)
  BY <1>2, <1>3, SumSame
<1> HIDE DEF T
<1>8. SumOver(w, T) = w[o] + SumOver(w, T \ {o})
  BY <1>5, <1>6, SumRemove
<1>9. SumOver(v, S) \in Int
  BY <1>2, SumType
<1> QED
  BY <1>1, <1>3, <1>5, <1>7, <1>8, <1>9 DEF TotalBytes

(* Every step keeps the count exact: an object is counted when its making  *)
(* begins, whatever collection runs in between, and its bytes are taken    *)
(* away when it is freed.                                                  *)
LEMMA BytesStep ==
  ASSUME HeapInv, BytesAddUp, [Next]_vars
  PROVE  BytesAddUp'
<1>0. net_bytes = TotalBytes + Uncreated
  BY DEF BytesAddUp
<1> SUFFICES net_bytes' = TotalBytes' + Uncreated'
  BY DEF BytesAddUp
<1>1. ASSUME UNCHANGED <<heap, net_bytes>>, Uncreated' = Uncreated
      PROVE  net_bytes' = TotalBytes' + Uncreated'
  BY <1>0, <1>1, SameBytes
<1>2. CASE UNCHANGED vars
  BY <1>1, <1>2 DEF vars, collector, allocation, Uncreated, Counted, Stage, Collecting
<1>3. CASE Load \/ Drop \/ SwitchGC
  BY <1>1, <1>3 DEF Load, Drop, SwitchGC, collector, allocation, Uncreated, Counted, Stage,
     Collecting
<1>4. CASE Store \/ StoreMethod
  <2>1. /\ DOMAIN heap' = DOMAIN heap /\ \A o \in DOMAIN heap : heap'[o].kind = heap[o].kind
    <3>1. CASE Store
      <4>1. PICK o, f, S : heap' = [heap EXCEPT ![o].ptr[f] = S]
        BY <3>1 DEF Store
      <4> QED
        BY <4>1
    <3>2. CASE StoreMethod
      <4>1. PICK o, ptr : heap' = [heap EXCEPT ![o].ptr = ptr]
        BY <3>2 DEF StoreMethod
      <4> QED
        BY <4>1
    <3> QED
      BY <1>4, <3>1, <3>2
  <2>2. UNCHANGED net_bytes /\ Uncreated' = Uncreated
    BY <1>4 DEF Store, StoreMethod, collector, allocation, Uncreated, Counted, Stage, Collecting
  <2> QED
    BY <1>0, <2>1, <2>2, SameBytes
<1>5. CASE New \/ Stress \/ InternName \/ NotInterned \/ Interned
  <2>1. UNCHANGED <<heap, net_bytes>>
    BY <1>5 DEF New, Stress, InternName, NotInterned, Interned
  <2>2. ~Counted
    BY <1>5 DEF New, Stress, InternName, NotInterned, Interned, Counted, Stage, Collecting
  <2>3. ~Counted'
    BY <1>5 DEF New, Stress, InternName, NotInterned, Interned, Counted, Stage, Collecting,
       CollectThen, Deliver
  <2> QED
    BY <1>1, <2>1, <2>2, <2>3 DEF Uncreated
<1>6. CASE CreateObject
  <2>1. ~Counted /\ Counted' /\ UNCHANGED <<heap, request>>
    BY <1>6 DEF CreateObject, CollectThen, Counted, Stage, Collecting
  <2>2. net_bytes' = net_bytes + Size[request.kind]
    BY <1>6 DEF CreateObject
  <2>3. TotalBytes' = TotalBytes
    BY <2>1, SameBytes
  <2>4. net_bytes \in Int
    BY DEF HeapInv, TypeOK
  <2>5. Uncreated = 0 /\ Uncreated' = Size[request.kind]
    BY <2>1 DEF Uncreated
  <2>6. TotalBytes \in Int
    BY HeapFinite, SumType DEF TotalBytes
  <2> QED
    BY <1>0, <2>2, <2>3, <2>4, <2>5, <2>6
<1>7. CASE Make
  <2>1. PICK o \in Obj \ DOMAIN heap :
          /\ heap' = [x \in DOMAIN heap \cup {o} |->
                        IF x = o THEN Object(request.kind, request.ptr, request.chars)
                                 ELSE heap[x]]
          /\ Deliver(o)
    BY <1>7 DEF Make
  <2>2. pc = "make" /\ Counted /\ request.kind \in Kind /\ UNCHANGED net_bytes
    BY <1>7, RequestFacts DEF Make, Counted, Stage, Collecting, RequestType
  <2>3. ~Counted'
    BY <2>1 DEF Deliver, Counted, Stage, Collecting
  <2>4. /\ DOMAIN heap' = DOMAIN heap \cup {o} /\ heap'[o].kind = request.kind
        /\ \A x \in DOMAIN heap : heap'[x] = heap[x]
    BY <2>1 DEF Object
  <2>5. TotalBytes \in Int /\ TotalBytes' = Size[request.kind] + TotalBytes
    BY <2>1, <2>2, <2>4, MoreBytes
  <2>6. Uncreated = Size[request.kind] /\ Uncreated' = 0 /\ Size[request.kind] \in Int
    BY <2>2, <2>3, OptionsAssumption DEF Uncreated
  <2> QED
    BY <1>0, <2>2, <2>5, <2>6
<1>8. CASE MarkRoots \/ Trace \/ TraceEnd \/ Overflow \/ RemoveUnusedStrings \/ SweepKeep
  <2>1. UNCHANGED <<heap, net_bytes, request, resume>>
    BY <1>8 DEF MarkRoots, Trace, TraceEnd, Overflow, RemoveUnusedStrings, SweepKeep,
       allocation, collector
  <2>2. Collecting /\ Collecting'
    BY <1>8 DEF MarkRoots, Trace, TraceEnd, Overflow, RemoveUnusedStrings, SweepKeep,
       allocation, Collecting
  <2> QED
    BY <1>1, <2>1, <2>2 DEF Uncreated, Counted, Stage
<1>9. CASE SweepFree
  <2>1. /\ pc = "sweep" /\ i <= Len(objs) /\ UNCHANGED <<pc, resume, request>>
        /\ heap' = [x \in DOMAIN heap \ {objs[i]} |-> heap[x]]
        /\ net_bytes' = net_bytes - Size[heap[objs[i]].kind]
    BY <1>9 DEF SweepFree, allocation
  <2>2. Len(objs) \in Nat /\ i \in 1..Len(objs)
    BY <2>1 DEF HeapInv, TypeOK, Sweeping
  <2>3. objs[i] \in DOMAIN heap
    BY <2>2 DEF HeapInv, VectorExact
  <2>4. TotalBytes' \in Int /\ TotalBytes = Size[heap[objs[i]].kind] + TotalBytes'
    BY <2>1, <2>3, FewerBytes
  <2>5. Uncreated' = Uncreated
    BY <2>1 DEF Uncreated, Counted, Stage, Collecting
  <2>6. Size[heap[objs[i]].kind] \in Int
    BY <2>3, HeapFinite
  <2>7. Uncreated \in Int
    <3>1. CASE Counted
      <4>1. request.kind \in Kind
        BY <2>1, RequestFacts DEF RequestType
      <4> QED
        BY <3>1, <4>1, OptionsAssumption DEF Uncreated
    <3>2. CASE ~Counted
      BY <3>2 DEF Uncreated
    <3> QED
      BY <3>1, <3>2
  <2>8. PICK size \in Int, left \in Int, uncreated \in Int :
          size = Size[heap[objs[i]].kind] /\ left = TotalBytes' /\ uncreated = Uncreated
    BY <2>4, <2>6, <2>7
  <2>9. net_bytes = (size + left) + uncreated /\ net_bytes' = net_bytes - size
    BY <1>0, <2>1, <2>4, <2>8
  <2>10. net_bytes' = left + uncreated
    BY <2>8, <2>9
  <2> QED
    BY <2>5, <2>8, <2>10
<1>10. CASE SweepEnd
  <2>1. UNCHANGED <<heap, net_bytes, request>> /\ pc' = resume
    BY <1>10 DEF SweepEnd
  <2>2. Stage' = Stage
    BY <1>10 DEF SweepEnd, Stage, Collecting, HeapInv, TypeOK
  <2> QED
    BY <1>1, <2>1, <2>2 DEF Uncreated, Counted
<1> QED
  BY <1>2, <1>3, <1>4, <1>5, <1>6, <1>7, <1>8, <1>9, <1>10
     DEF Next, Program, Allocate, Collect, Crashed

(* bytes_allocated - bytes_freed is at every moment the size of the        *)
(* objects that exist and of the one being made, so the threshold of the   *)
(* next collection is compared with what is really there.                  *)
THEOREM BytesAreExact == Spec => []BytesExact
<1>1. Init => BytesAddUp
  <2> SUFFICES ASSUME Init PROVE net_bytes = TotalBytes + Uncreated
    BY DEF BytesAddUp
  <2>1. DOMAIN heap = {} /\ net_bytes = 0 /\ pc = "idle"
    BY DEF Init
  <2>2. TotalBytes = 0
    BY <2>1, SumEmpty DEF TotalBytes
  <2>3. Uncreated = 0
    BY <2>1 DEF Uncreated, Counted, Stage, Collecting
  <2> QED
    BY <2>1, <2>2, <2>3
<1>2. HeapInv /\ BytesAddUp /\ [Next]_vars => BytesAddUp'
  BY BytesStep
<1> QED
  BY <1>1, <1>2, HeapInvariant, BytesExactMeans, PTL DEF Spec
=============================================================================
