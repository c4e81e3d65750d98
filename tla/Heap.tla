--------------------------------- MODULE Heap ---------------------------------
(***************************************************************************)
(* The allocator (allocator.hpp, allocator.cpp) and the mark-and-sweep     *)
(* garbage collector (gc.cpp), with the intern pool of strings, which must *)
(* not keep a string alive.                                                *)
(*                                                                         *)
(* A collection runs in the middle of an allocation.  Its loops are        *)
(* modelled iteration by iteration, and so are the places of an allocation *)
(* at which it may run.  The program that allocates is any program that    *)
(* keeps what it uses reachable from the roots: what the virtual machine   *)
(* does to be such a program is outside this module.                       *)
(*                                                                         *)
(* The pool is a function from contents to string objects, which is what   *)
(* module HashMap shows the table behind it to be.                         *)
(***************************************************************************)
EXTENDS Objects, Sequences, FiniteSetsExt

CONSTANTS
  Kinds,                (* the kinds of objects the program creates         *)
  Chars,                (* the contents a string can have                   *)
  NoChars,              (* the contents of what is not a string             *)
  Size,                 (* sizeof() of each kind of object                  *)
  debug_stress_gc,      (* options of the virtual machine (vmopts.hpp)      *)
  gc_next_collection,
  gc_heap_grow_factor

ASSUME KindsAssumption == Kinds \subseteq Kind /\ NoChars \notin Chars
ASSUME OptionsAssumption ==
  /\ debug_stress_gc \in BOOLEAN
  /\ gc_next_collection \in Nat /\ gc_heap_grow_factor \in Nat
  /\ Size \in [Kind -> Nat]

VARIABLES
  roots,             (* the objects the program's own roots point to        *)
  heap,              (* the objects that exist, by address                  *)
  objs,              (* the vector of all objects                           *)
  is_marked,         (* the objects whose is_marked is set                  *)
  grey_objects,      (* marked, their pointers not followed yet             *)
  interned_strings,  (* the pool: a function from contents to objects       *)
  net_bytes,         (* bytes_allocated - bytes_freed                       *)
  next_gc,           (* collect when net_bytes exceeds it                   *)
  gc_disabled,
  temp_stash,        (* extra roots of an allocation in progress            *)
  pc,                (* where the allocation in progress stands             *)
  resume,            (* where it goes on after the collection               *)
  request,           (* the object it makes                                 *)
  i                  (* sweep(): position in objs                           *)

collector == <<is_marked, grey_objects, resume, i>>
allocation == <<pc, request, temp_stash>>
vars == <<roots, heap, objs, interned_strings, net_bytes, next_gc, gc_disabled,
          collector, allocation>>

-----------------------------------------------------------------------------
(* Objects: their kind, the pointers in each of their members, and for a   *)
(* string its contents.                                                    *)

Object(k, ptr, c) == [kind |-> k, ptr |-> ptr, chars |-> c]
NoPointers(k) == [f \in FieldsOf(k) |-> {}]

RefsOf(x) == Refs(x.kind, x.ptr)
BlackenOf(x) == Blacken(x.kind, x.ptr)

graph == [o \in DOMAIN heap |-> RefsOf(heap[o])]

AllRoots == roots \cup temp_stash
Reachable == Reach(AllRoots, graph)

NoRequest == [kind |-> "none", ptr |-> <<>>, chars |-> NoChars, after |-> "none"]

-----------------------------------------------------------------------------
(* The program between two allocations: it loads a pointer from an object  *)
(* it has, drops one, or stores one.                                       *)

Load ==
  /\ pc = "idle"
  /\ \E o \in roots : \E x \in RefsOf(heap[o]) : roots' = roots \cup {x}
  /\ UNCHANGED <<heap, objs, interned_strings, net_bytes, next_gc, gc_disabled,
                 collector, allocation>>

Drop ==
  /\ pc = "idle"
  /\ \E o \in roots : roots' = roots \ {o}
  /\ UNCHANGED <<heap, objs, interned_strings, net_bytes, next_gc, gc_disabled,
                 collector, allocation>>

(* The objects that a member can point to.                                 *)
MemberKinds(f) ==
  CASE f \in {"name", "method_names", "field_names"} -> {"STRING"}
    [] f = "function" -> {"FUNCTION"}
    [] f = "upvalues" -> {"UPVALUE"}
    [] f \in {"methods", "init_method", "method"} -> {"CLOSURE"}
    [] f = "class" -> {"CLASS"}
    [] f = "receiver" -> {"INSTANCE"}
    [] f = "constants" -> {"STRING", "FUNCTION"}
    [] OTHER -> Kind \ {"FUNCTION", "UPVALUE"}

OfKind(f) == {x \in DOMAIN heap : heap[x].kind \in MemberKinds(f)}

(* The members that are assigned after an object is made.                  *)
Mutable == {"constants", "upvalues", "closed", "method_names", "fields",
            "field_names", "values", "keys"}

Store ==
  /\ pc = "idle"
  /\ \E o \in roots : \E f \in FieldsOf(heap[o].kind) \cap Mutable :
       \E S \in {{}} \cup {heap[o].ptr[f] \cup {x} : x \in OfKind(f) \cap roots} :
         heap' = [heap EXCEPT ![o].ptr[f] = S]
  /\ UNCHANGED <<roots, objs, interned_strings, net_bytes, next_gc, gc_disabled,
                 collector, allocation>>

(* A class gets a method x; init() replaces the initializer, in the table  *)
(* and in the cache.                                                       *)
WithMethod(ptr, x, is_init) ==
  IF is_init THEN [ptr EXCEPT !.methods = (@ \ ptr.init_method) \cup {x},
                              !.init_method = {x}]
             ELSE [ptr EXCEPT !.methods = @ \cup {x}]

StoreMethod ==
  /\ pc = "idle"
  /\ \E o \in roots, x \in roots, is_init \in BOOLEAN :
       /\ heap[o].kind = "CLASS" /\ heap[x].kind = "CLOSURE"
       /\ heap' = [heap EXCEPT ![o].ptr = WithMethod(@, x, is_init)]
  /\ UNCHANGED <<roots, objs, interned_strings, net_bytes, next_gc, gc_disabled,
                 collector, allocation>>

(* disable_gc() and enable_gc() *)
SwitchGC ==
  /\ pc = "idle"
  /\ gc_disabled' = ~gc_disabled
  /\ UNCHANGED <<roots, heap, objs, interned_strings, net_bytes, next_gc,
                 collector, allocation>>

-----------------------------------------------------------------------------
(* An allocation.  A string is given by its contents, a function by its    *)
(* name's contents (or, for the deserializer, by its name object), any     *)
(* other object by the pointers its constructor stores.                    *)

Constructed(k) ==
  CASE k = "FUNCTION"     -> {"name"}
    [] k = "CLOSURE"      -> {"function"}
    [] k = "CLASS"        -> {"name"}
    [] k = "INSTANCE"     -> {"class"}
    [] k = "BOUND_METHOD" -> {"receiver", "method"}
    [] OTHER              -> {}

(* The constructor's arguments are objects the program can reach.          *)
Arguments(k) ==
  LET args == {a \in [Constructed(k) -> Reachable] :
                 \A f \in Constructed(k) : a[f] \in OfKind(f)}
  IN {[f \in FieldsOf(k) |-> IF f \in Constructed(k) THEN {a[f]} ELSE {}] : a \in args}

Requests ==
  {[kind |-> k, ptr |-> NoPointers(k), chars |-> c, after |-> "return"] :
      k \in Kinds \cap {"STRING", "FUNCTION"}, c \in Chars}
  \cup UNION {{[kind |-> k, ptr |-> ptr, chars |-> NoChars, after |-> "return"] :
                 ptr \in Arguments(k)} : k \in Kinds \ {"STRING"}}

(* The program asks for an object.  Bound: there must be room for it (and  *)
(* for the name of a function).                                            *)
New ==
  /\ pc = "idle"
  /\ request' \in Requests
  /\ Cardinality(Obj \ DOMAIN heap) >= IF request'.kind = "FUNCTION" THEN 2 ELSE 1
  /\ pc' = "stress"
  /\ UNCHANGED <<roots, heap, objs, interned_strings, net_bytes, next_gc, gc_disabled,
                 collector, temp_stash>>

(* collect_garbage(), after which the allocation goes on at p.             *)
CollectThen(p, wanted) ==
  IF wanted /\ ~gc_disabled
    THEN pc' = "mark" /\ resume' = p
    ELSE pc' = p /\ UNCHANGED resume

(* Every allocation begins with a collection in stress mode.               *)
Stress ==
  /\ pc = "stress"
  /\ CollectThen(IF request.chars # NoChars THEN "intern" ELSE "create", debug_stress_gc)
  /\ UNCHANGED <<roots, heap, objs, interned_strings, net_bytes, next_gc, gc_disabled,
                 is_marked, grey_objects, i, request, temp_stash>>

(* new_function() interns the name first, stashes it, and only then        *)
(* creates the function.                                                   *)
InternName ==
  /\ pc = "intern" /\ request.kind = "FUNCTION"
  /\ request' = [request EXCEPT !.kind = "STRING", !.ptr = NoPointers("STRING"),
                                   !.after = "FUNCTION"]
  /\ pc' = "stress"
  /\ UNCHANGED <<roots, heap, objs, interned_strings, net_bytes, next_gc, gc_disabled,
                 collector, temp_stash>>

(* Mutant: new_function() does not stash the name.                         *)
DeliverUnstashed(o) ==
  /\ IF request.after = "FUNCTION"
       THEN /\ request' = [kind |-> "FUNCTION",
                           ptr |-> [NoPointers("FUNCTION") EXCEPT !.name = {o}],
                           chars |-> NoChars, after |-> "return"]
            /\ pc' = "create"
            /\ UNCHANGED roots
       ELSE /\ roots' = roots \cup {o}
            /\ request' = NoRequest
            /\ pc' = "idle"
  /\ UNCHANGED temp_stash

(* What becomes of the object o an allocation made or found: it is the     *)
(* stashed name of a function, or the result, which the caller roots.      *)
Deliver(o) ==
  IF request.after = "FUNCTION"
    THEN /\ temp_stash' = {o}
         /\ request' = [kind |-> "FUNCTION",
                        ptr |-> [NoPointers("FUNCTION") EXCEPT !.name = {o}],
                        chars |-> NoChars, after |-> "return"]
         /\ pc' = "create"
         /\ UNCHANGED roots
    ELSE /\ roots' = roots \cup {o}
         /\ temp_stash' = {}
         /\ request' = NoRequest
         /\ pc' = "idle"

(* intern_string(): the pool has the string, or it is created.             *)
Interned ==
  /\ pc = "intern" /\ request.kind = "STRING"
  /\ request.chars \in DOMAIN interned_strings
  /\ Deliver(interned_strings[request.chars])
  /\ UNCHANGED <<heap, objs, interned_strings, net_bytes, next_gc, gc_disabled, collector>>

NotInterned ==
  /\ pc = "intern" /\ request.kind = "STRING"
  /\ request.chars \notin DOMAIN interned_strings
  /\ pc' = "create"
  /\ UNCHANGED <<roots, heap, objs, interned_strings, net_bytes, next_gc, gc_disabled,
                 collector, request, temp_stash>>

(* Mutant: the new object's bytes are not counted.                         *)
CreateObjectUncounted ==
  /\ pc = "create"
  /\ CollectThen("make", net_bytes > next_gc)
  /\ UNCHANGED <<roots, heap, objs, interned_strings, net_bytes, next_gc, gc_disabled,
                 is_marked, grey_objects, i, request, temp_stash>>

(* create_object(): the object is counted before it exists.                *)
CreateObject ==
  /\ pc = "create"
  /\ net_bytes' = net_bytes + Size[request.kind]
  /\ CollectThen("make", net_bytes' > next_gc)
  /\ UNCHANGED <<roots, heap, objs, interned_strings, next_gc, gc_disabled,
                 is_marked, grey_objects, i, request, temp_stash>>

(* The object is made at a free address, added to the vector of objects    *)
(* and, if it is a string, to the pool.                                    *)
Make ==
  /\ pc = "make"
  /\ \E o \in Obj \ DOMAIN heap :
       /\ heap' = [x \in DOMAIN heap \cup {o} |->
                     IF x = o THEN Object(request.kind, request.ptr, request.chars)
                              ELSE heap[x]]
       /\ objs' = Append(objs, o)
       /\ interned_strings' =
            IF request.kind = "STRING"
              THEN [c \in DOMAIN interned_strings \cup {request.chars} |->
                      IF c = request.chars THEN o ELSE interned_strings[c]]
              ELSE interned_strings
       /\ Deliver(o)
  /\ UNCHANGED <<net_bytes, next_gc, gc_disabled, collector>>

-----------------------------------------------------------------------------
(* The collector *)

(* The text of an object contains the texts of its parts, and to_string()  *)
(* calls itself for each: it never returns for an object that is one of    *)
(* its own parts, directly or not, or that has such a part.                *)
TextParts(x) == UNION {x.ptr[f] : f \in TextFields(x.kind)}
EndlessText(o) ==
  \E S \in SUBSET DOMAIN heap :
    o \in S /\ \A x \in S : TextParts(heap[x]) \cap S # {}

(* mark_object() and blacken_object() hand the text of the object to       *)
(* log(), which is computed whether or not anything is logged.             *)
Written(S) == \A o \in S : ~EndlessText(o)

(* Mutant: the roots are queued, but their is_marked is not set.           *)
MarkRootsQueued ==
  /\ pc = "mark" /\ Written(AllRoots)
  /\ grey_objects' = AllRoots
  /\ pc' = "trace"
  /\ UNCHANGED <<roots, heap, objs, interned_strings, net_bytes, next_gc, gc_disabled,
                 is_marked, resume, i, request, temp_stash>>

(* mark_roots() *)
MarkRoots ==
  /\ pc = "mark" /\ Written(AllRoots \ is_marked)
  /\ is_marked' = is_marked \cup AllRoots
  /\ grey_objects' = AllRoots \ is_marked
  /\ pc' = "trace"
  /\ UNCHANGED <<roots, heap, objs, interned_strings, net_bytes, next_gc, gc_disabled,
                 resume, i, request, temp_stash>>

(* Mutant: mark_object() queues an object that is marked already.          *)
TraceAgain ==
  /\ pc = "trace"
  /\ \E o \in grey_objects :
       /\ Written({o} \cup BlackenOf(heap[o]))
       /\ is_marked' = is_marked \cup BlackenOf(heap[o])
       /\ grey_objects' = (grey_objects \ {o}) \cup BlackenOf(heap[o])
  /\ UNCHANGED <<roots, heap, objs, interned_strings, net_bytes, next_gc, gc_disabled,
                 resume, i, allocation>>

(* What blacken_object(o) marks.                                           *)
Found(o) == BlackenOf(heap[o]) \ is_marked

(* One iteration of trace_references(): blacken_object() of a grey object. *)
(* The code takes the last one; any order is allowed here.                 *)
Trace ==
  /\ pc = "trace"
  /\ \E o \in grey_objects :
       /\ Written({o} \cup Found(o))
       /\ is_marked' = is_marked \cup Found(o)
       /\ grey_objects' = (grey_objects \ {o}) \cup Found(o)
  /\ UNCHANGED <<roots, heap, objs, interned_strings, net_bytes, next_gc, gc_disabled,
                 resume, i, allocation>>

(* The text of an object to be marked or blackened does not end: the calls *)
(* of to_string() use up the C++ stack, and the process is killed.         *)
Overflow ==
  /\ \/ pc = "mark" /\ ~Written(AllRoots \ is_marked)
     \/ pc = "trace" /\ \E o \in grey_objects : ~Written({o} \cup Found(o))
  /\ pc' = "crashed"
  /\ UNCHANGED <<roots, heap, objs, interned_strings, net_bytes, next_gc, gc_disabled,
                 collector, request, temp_stash>>

TraceEnd ==
  /\ pc = "trace" /\ grey_objects = {}
  /\ pc' = "strings"
  /\ UNCHANGED <<roots, heap, objs, interned_strings, net_bytes, next_gc, gc_disabled,
                 collector, request, temp_stash>>

(* Mutant: the pool keeps its dead strings.                                *)
UsedStrings == {c \in DOMAIN interned_strings : interned_strings[c] \in DOMAIN heap}

(* The contents of the strings that remove_unused_strings() leaves.        *)
MarkedStrings == {c \in DOMAIN interned_strings : interned_strings[c] \in is_marked}

RemoveUnusedStrings ==
  /\ pc = "strings"
  /\ interned_strings' = [c \in MarkedStrings |-> interned_strings[c]]
  /\ pc' = "sweep" /\ i' = 1
  /\ UNCHANGED <<roots, heap, objs, net_bytes, next_gc, gc_disabled,
                 is_marked, grey_objects, resume, request, temp_stash>>

(* Mutant: pop_back without the swap.                                      *)
PopErase(s, j) == SubSeq(s, 1, Len(s) - 1)

(* std::swap with the last element, then pop_back                          *)
SwapErase(s, j) == SubSeq([s EXCEPT ![j] = s[Len(s)]], 1, Len(s) - 1)

(* Mutant: the element swapped in is not looked at.                        *)
AfterErase(j) == j + 1

(* The position sweep() looks at after it has erased the one at j.         *)
AfterFree(j) == j

(* One iteration of sweep(): an object that is not marked is freed, a      *)
(* marked one loses its mark.                                              *)
SweepFree ==
  /\ pc = "sweep" /\ i <= Len(objs)
  /\ objs[i] \notin is_marked
  /\ objs' = SwapErase(objs, i)
  /\ heap' = [x \in DOMAIN heap \ {objs[i]} |-> heap[x]]
  /\ net_bytes' = net_bytes - Size[heap[objs[i]].kind]
  /\ i' = AfterFree(i)
  /\ UNCHANGED <<roots, interned_strings, next_gc, gc_disabled,
                 is_marked, grey_objects, resume, allocation>>

(* Mutant: the mark of a survivor stays.                                   *)
Unmark(o) == is_marked

(* The marks once o has lost its own.                                      *)
Whiten(o) == is_marked \ {o}

SweepKeep ==
  /\ pc = "sweep" /\ i <= Len(objs)
  /\ objs[i] \in is_marked
  /\ is_marked' = Whiten(objs[i])
  /\ i' = i + 1
  /\ UNCHANGED <<roots, heap, objs, interned_strings, net_bytes, next_gc, gc_disabled,
                 grey_objects, resume, allocation>>

(* The end of collect_garbage(): the next threshold.                       *)
SweepEnd ==
  /\ pc = "sweep" /\ i > Len(objs)
  /\ next_gc' = IF gc_heap_grow_factor * net_bytes > gc_next_collection
                  THEN gc_heap_grow_factor * net_bytes ELSE gc_next_collection
  /\ pc' = resume /\ resume' = "none" /\ i' = 0
  /\ UNCHANGED <<roots, heap, objs, interned_strings, net_bytes, gc_disabled,
                 is_marked, grey_objects, request, temp_stash>>

-----------------------------------------------------------------------------
Init ==
  /\ roots = {} /\ heap = <<>> /\ objs = <<>>
  /\ is_marked = {} /\ grey_objects = {}
  /\ interned_strings = <<>>
  /\ net_bytes = 0 /\ next_gc = gc_next_collection
  /\ gc_disabled = FALSE
  /\ temp_stash = {} /\ pc = "idle" /\ resume = "none" /\ request = NoRequest
  /\ i = 0

Program == Load \/ Drop \/ Store \/ StoreMethod \/ SwitchGC \/ New
Allocate == Stress \/ InternName \/ Interned \/ NotInterned \/ CreateObject \/ Make
Collect == \/ MarkRoots \/ Trace \/ TraceEnd \/ Overflow \/ RemoveUnusedStrings
           \/ SweepFree \/ SweepKeep \/ SweepEnd

(* A process that was killed does nothing.                                 *)
Crashed == pc = "crashed" /\ UNCHANGED vars

Next == Program \/ Allocate \/ Collect \/ Crashed

Spec == Init /\ [][Next]_vars

(* An allocation that has begun is not suspended.                          *)
FairSpec == Spec /\ WF_vars(Allocate \/ Collect)

-----------------------------------------------------------------------------
(* Properties *)

Pcs == {"idle", "stress", "intern", "create", "make", "mark", "trace", "strings", "sweep",
        "crashed"}
Collecting == pc \in {"mark", "trace", "strings", "sweep", "crashed"}

(* Where the allocation stands, or will after the collection.              *)
Stage == IF Collecting THEN resume ELSE pc
Counted == Stage = "make"

Pointers(k) == [FieldsOf(k) -> SUBSET Obj]
ObjectType == [kind : Kind, ptr : UNION {Pointers(k) : k \in Kind}, chars : Chars \cup {NoChars}]
RequestType == [kind : Kind, ptr : UNION {Pointers(k) : k \in Kind},
                chars : Chars \cup {NoChars}, after : {"return", "FUNCTION"}]

(* Type invariant of the heap, the allocation and the collection.          *)
TypeOK ==
  /\ DOMAIN heap \subseteq Obj
  /\ \A o \in DOMAIN heap : heap[o] \in ObjectType /\ heap[o].ptr \in Pointers(heap[o].kind)
  /\ roots \subseteq Obj /\ temp_stash \subseteq Obj
  /\ is_marked \subseteq Obj /\ grey_objects \subseteq is_marked
  /\ objs \in Seq(Obj) /\ i \in Nat
  /\ net_bytes \in Int /\ next_gc \in Int /\ gc_disabled \in BOOLEAN
  /\ pc \in Pcs /\ resume \in {"none", "intern", "create", "make"}
  /\ Collecting => resume # "none"
  /\ pc = "idle" => request = NoRequest
  /\ pc # "idle" => /\ request \in RequestType
                    /\ request.ptr \in Pointers(request.kind)
                    /\ request.chars # NoChars => request.kind \in {"STRING", "FUNCTION"}
                    /\ Stage = "intern" \/ request.kind = "STRING" => request.chars # NoChars

(* Nothing that the program can reach has been freed, at any moment of a   *)
(* collection, and neither has what the allocation in progress will store  *)
(* in the new object.                                                      *)
NoDangling ==
  /\ AllRoots \subseteq DOMAIN heap
  /\ \A o \in Reachable : RefsOf(heap[o]) \subseteq DOMAIN heap
  /\ request.kind \in Kind => Refs(request.kind, request.ptr) \subseteq DOMAIN heap

(* The vector of objects and the heap agree: no object is freed twice, or  *)
(* lost to the collector.                                                  *)
VectorExact ==
  /\ \A j, k \in 1..Len(objs) : objs[j] = objs[k] => j = k
  /\ {objs[j] : j \in 1..Len(objs)} = DOMAIN heap

(* Strings are equal exactly when they are the same object (the virtual    *)
(* machine compares pointers).  So every string the program can reach is   *)
(* the one the pool gives for its contents, and the pool never gives one   *)
(* that has been freed.                                                    *)
StringsUnique ==
  /\ \A o \in Reachable : heap[o].kind = "STRING" =>
       /\ heap[o].chars \in DOMAIN interned_strings
       /\ interned_strings[heap[o].chars] = o
  /\ \A c \in DOMAIN interned_strings :
       /\ interned_strings[c] \in DOMAIN heap
       /\ heap[interned_strings[c]].chars = c

(* Between collections no mark is left, or the next collection would       *)
(* neither follow nor free the marked object.                              *)
NoStaleMarks ==
  pc \notin {"trace", "strings", "sweep", "crashed"} => is_marked = {} /\ grey_objects = {}

(* What each object counts.                                                *)
Bytes == [o \in DOMAIN heap |-> Size[heap[o].kind]]

(* The statistics on which the next collection is decided are exact.       *)
BytesExact ==
  net_bytes = MapThenSumSet(LAMBDA o : Bytes[o], DOMAIN heap)
              + (IF Counted THEN Size[request.kind] ELSE 0)

(* A collection frees all garbage: when it ends, what is left is exactly   *)
(* what the program can reach.                                             *)
CollectsEverything == [][pc = "sweep" /\ pc' # "sweep" => DOMAIN heap = Reachable]_vars

(* Every allocation ends, also over cycles of pointers, with one exception *)
(* that mark_object() and blacken_object() make by computing the text of   *)
(* what they mark: a process that can reach a list or a map that contains  *)
(* itself is killed by its next collection.                                *)
AllocationEnds ==
  pc # "idle" ~> \/ pc = "idle"
                 \/ pc = "crashed" /\ \E o \in Reachable : EndlessText(o)

-----------------------------------------------------------------------------
(* The inductive invariant behind the safety properties.                   *)

(* The objects that a sweep will leave, or has left.                       *)
Swept == {objs[j] : j \in 1..(i - 1)}
Survivors == IF pc = "sweep" THEN is_marked \cup Swept ELSE DOMAIN heap

(* Outside a sweep even the garbage points to nothing that is freed, since *)
(* a collection frees all garbage; during a sweep this is so of survivors. *)
GraphClosed ==
  /\ Survivors \subseteq DOMAIN heap
  /\ AllRoots \subseteq Survivors
  /\ \A o \in Survivors : RefsOf(heap[o]) \subseteq Survivors

(* What the new object will point to stays reachable.                      *)
ArgumentsRooted == pc # "idle" => Refs(request.kind, request.ptr) \subseteq Reachable

(* A class finds its initializer in its table of methods.                  *)
InitializerTabled ==
  /\ \A o \in DOMAIN heap :
       heap[o].kind = "CLASS" => heap[o].ptr["init_method"] \subseteq heap[o].ptr["methods"]
  /\ pc # "idle" /\ request.kind = "CLASS" =>
       request.ptr["init_method"] \subseteq request.ptr["methods"]

(* Marked objects are reachable, and what they point to is marked unless   *)
(* they are grey.                                                          *)
TriColour ==
  pc \in {"trace", "strings"} =>
    /\ AllRoots \subseteq is_marked
    /\ is_marked \subseteq Reachable
    /\ \A o \in is_marked \ grey_objects : BlackenOf(heap[o]) \subseteq is_marked

Sweeping ==
  /\ pc \in {"strings", "sweep"} => grey_objects = {}
  /\ pc = "sweep" => /\ i \in 1..(Len(objs) + 1)
                     /\ is_marked \subseteq {objs[j] : j \in i..Len(objs)}
                     /\ Survivors \subseteq Reachable

(* The pool has exactly the strings that will not be freed, and not yet    *)
(* the one that is being created.                                          *)
PoolExact ==
  /\ \A o \in Survivors : heap[o].kind = "STRING" =>
       heap[o].chars \in DOMAIN interned_strings /\ interned_strings[heap[o].chars] = o
  /\ \A c \in DOMAIN interned_strings :
       LET o == interned_strings[c]
       IN o \in Survivors /\ heap[o].kind = "STRING" /\ heap[o].chars = c
  /\ pc # "idle" /\ request.kind = "STRING" /\ Stage \in {"create", "make"} =>
       request.chars \notin DOMAIN interned_strings

HeapInv ==
  /\ TypeOK /\ VectorExact /\ NoStaleMarks
  /\ GraphClosed /\ ArgumentsRooted /\ InitializerTabled
  /\ TriColour /\ Sweeping /\ PoolExact

-----------------------------------------------------------------------------
Memory == INSTANCE Memory WITH roots <- AllRoots

(* The allocator and the collector implement a garbage-collected memory.   *)
ImplementsMemory == Memory!Spec
=============================================================================
