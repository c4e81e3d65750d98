---------------------------- MODULE ClassesProofs -----------------------------
(***************************************************************************)
(* Proofs about classes, instances and methods, for any names, global      *)
(* variables, superclasses, numbers of parameters and of objects, and any  *)
(* height of the stack and depth of calls.                                 *)
(***************************************************************************)
EXTENDS Classes, ObjectsProofs

-----------------------------------------------------------------------------
(* Objects and their pointers *)

(* The members of an object of each kind.                                  *)
LEMMA Members ==
  ASSUME NEW x \in ObjectType
  PROVE  /\ x.kind \in {"CLASS", "CLOSURE", "INSTANCE", "BOUND_METHOD"}
         /\ x.kind = "CLASS" => x \in [kind : {"CLASS"}, methods : Table(Obj), init_method : Value]
         /\ x.kind = "CLOSURE" =>
              x \in [kind : {"CLOSURE"}, is_init : BOOLEAN, arity : Arities, super : Value]
         /\ x.kind = "INSTANCE" => x \in [kind : {"INSTANCE"}, class : Obj, fields : Table(Value)]
         /\ x.kind = "BOUND_METHOD" =>
              x \in [kind : {"BOUND_METHOD"}, receiver : Obj, method : Obj]
  BY DEF ObjectType

(* The pointers in an object of each kind.                                 *)
LEMMA RefsOfEach ==
  ASSUME NEW x
  PROVE  /\ x.kind = "CLASS" => RefsOf(x) = Obj \cap (Range(x.methods) \cup {x.init_method})
         /\ x.kind = "CLOSURE" => RefsOf(x) = Obj \cap {x.super}
         /\ x.kind = "INSTANCE" => RefsOf(x) = Obj \cap ({x.class} \cup Range(x.fields))
         /\ x.kind = "BOUND_METHOD" => RefsOf(x) = Obj \cap {x.receiver, x.method}
<1> DEFINE P == Pointers(x)
<1>1. ASSUME NEW y
      PROVE  y \in RefsOf(x) <=> \E f \in FieldsOf(x.kind) : y \in P[f]
  BY DEF RefsOf, Refs
<1>2. CASE x.kind = "CLASS"
  <2>1. FieldsOf(x.kind) = {"name", "method_names", "methods", "init_method"}
    BY <1>2 DEF FieldsOf
  <2>2. /\ P["name"] = {} /\ P["method_names"] = {}
        /\ P["methods"] = Obj \cap Range(x.methods) /\ P["init_method"] = Obj \cap {x.init_method}
    BY <2>1 DEF Pointers
  <2> HIDE DEF P
  <2>3. \A y : y \in RefsOf(x) <=> y \in Obj \cap (Range(x.methods) \cup {x.init_method})
    BY <1>1, <2>1, <2>2
  <2>4. RefsOf(x) = Obj \cap (Range(x.methods) \cup {x.init_method})
    BY <2>3
  <2> QED
    BY <1>2, <2>4
<1>3. CASE x.kind = "CLOSURE"
  <2>1. FieldsOf(x.kind) = {"function", "upvalues"}
    BY <1>3 DEF FieldsOf
  <2>2. P["function"] = {} /\ P["upvalues"] = Obj \cap {x.super}
    BY <2>1 DEF Pointers
  <2> HIDE DEF P
  <2>3. \A y : y \in RefsOf(x) <=> y \in Obj \cap {x.super}
    BY <1>1, <2>1, <2>2
  <2>4. RefsOf(x) = Obj \cap {x.super}
    BY <2>3
  <2> QED
    BY <1>3, <2>4
<1>4. CASE x.kind = "INSTANCE"
  <2>1. FieldsOf(x.kind) = {"class", "field_names", "fields"}
    BY <1>4 DEF FieldsOf
  <2>2. /\ P["class"] = Obj \cap {x.class} /\ P["field_names"] = {}
        /\ P["fields"] = Obj \cap Range(x.fields)
    BY <2>1 DEF Pointers
  <2> HIDE DEF P
  <2>3. \A y : y \in RefsOf(x) <=> y \in Obj \cap ({x.class} \cup Range(x.fields))
    BY <1>1, <2>1, <2>2
  <2>4. RefsOf(x) = Obj \cap ({x.class} \cup Range(x.fields))
    BY <2>3
  <2> QED
    BY <1>4, <2>4
<1>5. CASE x.kind = "BOUND_METHOD"
  <2>1. FieldsOf(x.kind) = {"receiver", "method"}
    BY <1>5 DEF FieldsOf
  <2>2. P["receiver"] = Obj \cap {x.receiver} /\ P["method"] = Obj \cap {x.method}
    BY <2>1 DEF Pointers
  <2> HIDE DEF P
  <2>3. \A y : y \in RefsOf(x) <=> y \in Obj \cap {x.receiver, x.method}
    BY <1>1, <2>1, <2>2
  <2>4. RefsOf(x) = Obj \cap {x.receiver, x.method}
    BY <2>3
  <2> QED
    BY <1>5, <2>4
<1> QED
  BY <1>2, <1>3, <1>4, <1>5

(* The collector follows all pointers of a sound object: the initializer   *)
(* of a class is in its table of methods.                                  *)
LEMMA SoundBlackened ==
  ASSUME NEW x \in ObjectType, Sound(x)
  PROVE  Blacken(x.kind, Pointers(x)) = RefsOf(x)
<1>1. x.kind \in Kind
  BY Members DEF Kind
<1>2. ASSUME x.kind = "CLASS" PROVE Pointers(x)["init_method"] \subseteq Pointers(x)["methods"]
  <2>1. FieldsOf(x.kind) = {"name", "method_names", "methods", "init_method"}
    BY <1>2 DEF FieldsOf
  <2>2. /\ Pointers(x)["methods"] = Obj \cap Range(x.methods)
        /\ Pointers(x)["init_method"] = Obj \cap {x.init_method}
    BY <2>1 DEF Pointers
  <2>3. x.init_method # Nil => x.init_method \in Range(x.methods)
    BY <1>2 DEF Sound, Range
  <2> QED
    BY <2>2, <2>3, ClassesAssumption
<1> QED
  BY <1>1, <1>2, BlackenAll DEF RefsOf

(* What a sound object points to exists.                                   *)
LEMMA SoundRefs ==
  ASSUME NEW x \in ObjectType, Sound(x)
  PROVE  RefsOf(x) \subseteq DOMAIN heap
<1>1. ASSUME NEW c PROVE MethodsFor(c) \subseteq DOMAIN heap
  BY DEF MethodsFor, Reach, Overridden, Closures
<1>2. CASE x.kind = "CLASS"
  <2>1. Range(x.methods) \subseteq DOMAIN heap
    BY <1>2 DEF Sound, Is, Range
  <2>2. x.init_method # Nil => x.init_method \in DOMAIN heap
    BY <1>2 DEF Sound, Is
  <2> QED
    BY <1>2, <2>1, <2>2, RefsOfEach, ClassesAssumption
<1>3. CASE x.kind = "CLOSURE"
  BY <1>3, RefsOfEach, ClassesAssumption DEF Sound, Is
<1>4. CASE x.kind = "INSTANCE"
  <2>1. Range(x.fields) \subseteq DOMAIN heap \cup {Nil}
    BY <1>4 DEF Sound, Live, Range
  <2> QED
    BY <1>4, <2>1, RefsOfEach, ClassesAssumption DEF Sound, Is
<1>5. CASE x.kind = "BOUND_METHOD"
  BY <1>5, <1>1, RefsOfEach DEF Sound, Is
<1> QED
  BY <1>2, <1>3, <1>4, <1>5, Members

(* What the members of a sound object point to.                            *)
LEMMA SoundMembers ==
  ASSUME TypeOK, ObjectsSound, NEW o \in DOMAIN heap
  PROVE  /\ heap[o] \in ObjectType /\ Sound(heap[o]) /\ o \in Obj /\ o # Nil
         /\ heap[o].kind = "CLASS" =>
              /\ Range(Methods(o)) \subseteq Closures
              /\ Range(Methods(o)) \subseteq RefsOf(heap[o])
         /\ heap[o].kind = "CLOSURE" /\ heap[o].super # Nil =>
              Is(heap[o].super, "CLASS") /\ heap[o].super \in RefsOf(heap[o])
         /\ heap[o].kind = "INSTANCE" =>
              Is(heap[o].class, "CLASS") /\ heap[o].class \in RefsOf(heap[o])
<1>1. heap[o] \in ObjectType /\ Sound(heap[o]) /\ o \in Obj /\ o # Nil
  BY ClassesAssumption DEF TypeOK, ObjectsSound
<1>2. ASSUME heap[o].kind = "CLASS"
      PROVE  Range(Methods(o)) \subseteq Closures /\ Range(Methods(o)) \subseteq RefsOf(heap[o])
  <2>1. Range(Methods(o)) \subseteq Closures
    BY <1>1, <1>2 DEF Sound, Methods, Closures, Is, Range
  <2>2. Closures \subseteq Obj
    BY DEF TypeOK, Closures
  <2> QED
    BY <1>2, <2>1, <2>2, RefsOfEach DEF Methods
<1>3. ASSUME heap[o].kind = "CLOSURE", heap[o].super # Nil
      PROVE  Is(heap[o].super, "CLASS") /\ heap[o].super \in RefsOf(heap[o])
  <2>1. Is(heap[o].super, "CLASS")
    BY <1>1, <1>3 DEF Sound
  <2> QED
    BY <1>3, <2>1, RefsOfEach DEF Is, TypeOK
<1>4. ASSUME heap[o].kind = "INSTANCE"
      PROVE  Is(heap[o].class, "CLASS") /\ heap[o].class \in RefsOf(heap[o])
  <2>1. Is(heap[o].class, "CLASS")
    BY <1>1, <1>4 DEF Sound
  <2> QED
    BY <1>4, <2>1, RefsOfEach DEF Is, TypeOK
<1> QED
  BY <1>1, <1>2, <1>3, <1>4

-----------------------------------------------------------------------------
(* Objects that a step keeps *)

(* The objects in D still exist; closures are the same, instances have the *)
(* class they had, and the tables that a method of theirs can come from    *)
(* are the same.                                                           *)
Keeps(D) ==
  /\ D \subseteq DOMAIN heap /\ D \subseteq DOMAIN heap'
  /\ \A o \in D : RefsOf(heap[o]) \subseteq D /\ heap'[o].kind = heap[o].kind
  /\ \A o \in D : heap[o].kind = "CLOSURE" =>
       /\ heap'[o] = heap[o]
       /\ heap[o].super # Nil => heap'[heap[o].super].methods = heap[heap[o].super].methods
  /\ \A o \in D : heap[o].kind = "INSTANCE" =>
       /\ heap'[o].class = heap[o].class
       /\ heap'[heap[o].class].methods = heap[heap[o].class].methods

(* The methods for a class whose table is kept stay the same.              *)
LEMMA MethodsForKept ==
  ASSUME TypeOK, ObjectsSound, NEW D, Keeps(D), NEW c \in D, heap[c].kind = "CLASS",
         heap'[c].methods = heap[c].methods
  PROVE  MethodsFor(c)' = MethodsFor(c) /\ MethodsFor(c) \subseteq D
<1> DEFINE r == Range(heap[c].methods)
           S == Closures \cap D
<1>1. D \subseteq DOMAIN heap /\ D \subseteq DOMAIN heap' /\ \A o \in D : RefsOf(heap[o]) \subseteq D
  BY DEF Keeps
<1>2. r \subseteq S
  BY <1>1, SoundMembers DEF Methods
<1>3. S \subseteq DOMAIN Overridden /\ S \subseteq DOMAIN Overridden'
  BY <1>1 DEF Overridden, Closures, Keeps
<1>4. ASSUME NEW f \in S PROVE Overridden[f] \subseteq S /\ Overridden'[f] = Overridden[f]
  <2>1. heap[f].kind = "CLOSURE" /\ f \in D /\ heap'[f] = heap[f] /\ f \in Closures /\ f \in Closures'
    BY <1>1 DEF Closures, Keeps
  <2>2. CASE heap[f].super = Nil
    BY <2>1, <2>2 DEF Overridden
  <2>3. CASE heap[f].super # Nil
    <3>1. heap[f].super \in D /\ heap[f].super \in DOMAIN heap /\ heap[heap[f].super].kind = "CLASS"
      BY <1>1, <2>1, <2>3, SoundMembers DEF Is
    <3>2. Range(Methods(heap[f].super)) \subseteq S
      BY <1>1, <3>1, SoundMembers
    <3>3. heap'[heap[f].super].methods = heap[heap[f].super].methods
      BY <2>1, <2>3 DEF Keeps
    <3> QED
      BY <2>1, <2>3, <3>2, <3>3 DEF Overridden, Methods
  <2> QED
    BY <2>2, <2>3
<1> HIDE DEF S
<1>5. Reach(r, Overridden) = Reach(r, Overridden')
  BY <1>2, <1>3, <1>4, ReachLocal
<1>6. Reach(r, Overridden) \subseteq S
  <2>1. r \cap DOMAIN Overridden \subseteq S /\ ClosedIn(S, Overridden) /\ S \in SUBSET DOMAIN Overridden
    BY <1>2, <1>3, <1>4 DEF ClosedIn
  <2> QED
    BY <2>1, ReachBound
<1> QED
  BY <1>5, <1>6 DEF MethodsFor, Methods, S

(* A sound object all of whose pointers are kept stays sound.              *)
LEMMA SoundKept ==
  ASSUME TypeOK, ObjectsSound, NEW D, Keeps(D), NEW x \in ObjectType, Sound(x), RefsOf(x) \subseteq D
  PROVE  Sound(x)'
<1>1. /\ D \subseteq DOMAIN heap /\ D \subseteq DOMAIN heap'
      /\ \A o \in D : RefsOf(heap[o]) \subseteq D /\ heap'[o].kind = heap[o].kind
  BY DEF Keeps
<1>2. ASSUME NEW v \in D, NEW k, Is(v, k) PROVE Is(v, k)'
  BY <1>1, <1>2 DEF Is
<1>3. D \subseteq Obj
  BY <1>1 DEF TypeOK
<1>4. CASE x.kind = "CLASS"
  <2>1. ASSUME NEW n \in DOMAIN x.methods PROVE Is(x.methods[n], "CLOSURE")' /\ x.methods[n] \in D
    <3>1. Is(x.methods[n], "CLOSURE")
      BY <1>4 DEF Sound
    <3>2. x.methods[n] \in D
      BY <1>4, <3>1, RefsOfEach DEF Is, Range, TypeOK
    <3> QED
      BY <1>2, <3>1, <3>2
  <2>2. ASSUME x.init_method # Nil
        PROVE  /\ init \in DOMAIN x.methods /\ x.init_method = x.methods[init]
               /\ heap'[x.init_method].is_init
    <3>1. init \in DOMAIN x.methods /\ x.init_method = x.methods[init] /\ heap[x.init_method].is_init
      BY <1>4, <2>2 DEF Sound
    <3>2. Is(x.init_method, "CLOSURE") /\ x.init_method \in D
      BY <1>4, <2>1, <3>1 DEF Sound
    <3>3. heap'[x.init_method] = heap[x.init_method]
      BY <3>2 DEF Is, Keeps
    <3> QED
      BY <3>1, <3>3
  <2> QED
    BY <1>4, <2>1, <2>2 DEF Sound
<1>5. CASE x.kind = "CLOSURE"
  <2>1. x.super # Nil => Is(x.super, "CLASS") /\ x.super \in D
    BY <1>5, RefsOfEach DEF Sound, Is, TypeOK
  <2> QED
    BY <1>2, <1>5, <2>1 DEF Sound
<1>6. CASE x.kind = "INSTANCE"
  <2>1. Is(x.class, "CLASS")'
    BY <1>2, <1>6, RefsOfEach DEF Sound, Is, TypeOK
  <2>2. ASSUME NEW n \in DOMAIN x.fields PROVE x.fields[n] \in DOMAIN heap' \cup {Nil}
    <3>1. x.fields[n] \in DOMAIN heap \cup {Nil}
      BY <1>6 DEF Sound, Live
    <3>2. x.fields[n] # Nil => x.fields[n] \in D
      BY <1>6, <3>1, RefsOfEach DEF Range, TypeOK
    <3> QED
      BY <1>1, <3>2
  <2> QED
    BY <1>6, <2>1, <2>2 DEF Sound, Live
<1>7. CASE x.kind = "BOUND_METHOD"
  <2>1. Is(x.receiver, "INSTANCE") /\ x.method \in MethodsFor(heap[x.receiver].class)
    BY <1>7 DEF Sound
  <2>2. x.receiver \in D /\ Is(x.receiver, "INSTANCE")'
    BY <1>2, <1>7, <2>1, RefsOfEach DEF Is, TypeOK
  <2>3. PICK c : c = heap[x.receiver].class
    OBVIOUS
  <2>4. heap'[x.receiver].class = c /\ heap'[c].methods = heap[c].methods
    BY <2>1, <2>2, <2>3 DEF Keeps, Is
  <2>5. c \in D /\ heap[c].kind = "CLASS"
    BY <1>1, <2>1, <2>2, <2>3, SoundMembers DEF Is
  <2>6. x.method \in MethodsFor(c)'
    BY <2>1, <2>3, <2>4, <2>5, MethodsForKept
  <2>7. x.method \in MethodsFor(heap[x.receiver].class)'
    BY <2>4, <2>6
  <2> QED
    BY <1>7, <2>2, <2>7 DEF Sound
<1> QED
  BY <1>4, <1>5, <1>6, <1>7, Members DEF Sound

(* A step that leaves the heap alone keeps everything.                     *)
LEMMA HeapSame ==
  ASSUME TypeOK, ObjectsSound, UNCHANGED heap
  PROVE  Keeps(DOMAIN heap) /\ ObjectsSound'
<1>1. \A o \in DOMAIN heap : RefsOf(heap[o]) \subseteq DOMAIN heap
  BY SoundMembers, SoundRefs
<1>2. Keeps(DOMAIN heap)
  BY <1>1 DEF Keeps
<1>3. ASSUME NEW o \in DOMAIN heap PROVE Sound(heap[o])'
  <2>1. PICK x : x = heap[o]
    OBVIOUS
  <2>2. Sound(x)'
    BY <1>1, <1>2, <2>1, SoundMembers, SoundKept
  <2> QED
    BY <2>1, <2>2
<1> QED
  BY <1>2, <1>3 DEF ObjectsSound

-----------------------------------------------------------------------------
(* The stack and the frames *)

(* A frame and its slot 0.                                                 *)
LEMMA FrameTypes ==
  ASSUME TypeOK, NEW j \in 1..Len(frames)
  PROVE  /\ frames[j] \in FrameType /\ frames[j].closure \in Value
         /\ stack_top \in Nat /\ frames[j].slots \in 1..stack_top
<1>1. frames \in Seq(FrameType) /\ evalstack \in Seq(Value) /\ frames[j].slots <= stack_top
  BY DEF TypeOK
<1>2. frames[j] \in FrameType /\ stack_top \in Nat
  BY <1>1 DEF stack_top
<1> QED
  BY <1>1, <1>2 DEF FrameType

(* The call in progress.                                                   *)
LEMMA CurrentFrame ==
  ASSUME TypeOK, frames # <<>>
  PROVE  /\ Len(frames) \in Nat \ {0} /\ Len(frames) \in 1..Len(frames)
         /\ current_frame \in FrameType
         /\ stack_top \in Nat /\ current_frame.slots \in 1..stack_top
         /\ Operands \in Nat /\ Operands = stack_top - current_frame.slots
<1>1. Len(frames) \in Nat \ {0} /\ Len(frames) \in 1..Len(frames)
  BY DEF TypeOK
<1>2. current_frame \in FrameType /\ stack_top \in Nat /\ current_frame.slots \in 1..stack_top
  BY <1>1, FrameTypes DEF current_frame
<1> QED
  BY <1>1, <1>2 DEF Operands

(* The roots are what is on the stack, in globals and in frames.           *)
LEMMA RootsAre ==
  ASSUME TypeOK, RootsExist
  PROVE  /\ Roots \subseteq DOMAIN heap
         /\ \A p \in 1..stack_top : evalstack[p] \in Live /\ (evalstack[p] # Nil => evalstack[p] \in Roots)
         /\ \A g \in Globals : globals[g] \in Live /\ (globals[g] # Nil => globals[g] \in Roots)
         /\ \A j \in 1..Len(frames) :
              frames[j].closure \in Live /\ (frames[j].closure # Nil => frames[j].closure \in Roots)
         /\ \A v \in DOMAIN heap : v \in Live /\ v # Nil
<1>1. DOMAIN heap \subseteq Obj /\ Nil \notin Obj /\ DOMAIN evalstack = 1..stack_top
  BY ClassesAssumption DEF TypeOK, stack_top
<1>2. \A p \in 1..stack_top : evalstack[p] \in Live /\ evalstack[p] \in Range(evalstack)
  BY <1>1 DEF RootsExist, stack_top, Range
<1>3. \A g \in Globals : globals[g] \in Live /\ globals[g] \in Range(globals)
  BY DEF RootsExist, Range
<1>4. Range(evalstack) \subseteq Live /\ Range(globals) \subseteq Live
  BY <1>1, <1>2 DEF RootsExist, Range
<1>5. \A j \in 1..Len(frames) : frames[j].closure \in Live
  BY DEF RootsExist
<1> QED
  BY <1>1, <1>2, <1>3, <1>4, <1>5 DEF Roots, Live

(* Frame j lies on the stack, runs a method that fits its slot 0, and, if  *)
(* a constructor call made it, an initializer.                             *)
FrameFits(j) ==
  /\ frames[j].slots <= stack_top
  /\ frames[j].closure # Nil =>
       /\ Is(evalstack[frames[j].slots], "INSTANCE")
       /\ frames[j].closure \in MethodsFor(heap[evalstack[frames[j].slots]].class)
  /\ frames[j].constructs # Nil =>
       /\ frames[j].closure # Nil /\ heap[frames[j].closure].is_init
       /\ heap[evalstack[frames[j].slots]].class = frames[j].constructs

(* The methods an instance can run are closures.                           *)
LEMMA MethodsAreClosures ==
  ASSUME NEW c, NEW f \in MethodsFor(c)
  PROVE  Is(f, "CLOSURE") /\ f \in Closures
  BY DEF MethodsFor, Reach, Overridden, Closures, Is

(* A frame whose slot 0 is kept still fits.                                *)
LEMMA FrameKept ==
  ASSUME ClassesInv, NEW D, Keeps(D), Roots \subseteq D, NEW j \in 1..Len(frames),
         frames'[j] = frames[j], frames[j].slots <= Len(evalstack'),
         evalstack'[frames[j].slots] = evalstack[frames[j].slots]
  PROVE  FrameFits(j)'
<1> DEFINE o == evalstack[frames[j].slots]
<1>1. frames[j].slots \in 1..stack_top
  BY FrameTypes DEF ClassesInv
<1>2. ASSUME frames[j].closure # Nil
      PROVE  /\ Is(o, "INSTANCE") /\ frames[j].closure \in MethodsFor(heap[o].class)
             /\ o \in D /\ frames[j].closure \in D
             /\ Is(frames[j].closure, "CLOSURE")
  <2>1. Is(o, "INSTANCE") /\ frames[j].closure \in MethodsFor(heap[o].class)
    BY <1>2 DEF ClassesInv, ThisFitsMethod
  <2>2. o \in D /\ frames[j].closure \in D
    BY <1>1, <1>2, <2>1, RootsAre DEF ClassesInv, Is
  <2> QED
    BY <2>1, <2>2, MethodsAreClosures
<1>3. ASSUME frames[j].closure # Nil
      PROVE  /\ heap'[o].class = heap[o].class /\ heap'[frames[j].closure] = heap[frames[j].closure]
             /\ Is(o, "INSTANCE")'
             /\ frames[j].closure \in MethodsFor(heap[o].class)'
  <2>1. heap'[o].class = heap[o].class /\ heap'[frames[j].closure] = heap[frames[j].closure]
    BY <1>2, <1>3 DEF Keeps, Is
  <2>2. o \in DOMAIN heap' /\ heap'[o].kind = "INSTANCE"
    BY <1>2, <1>3 DEF Keeps, Is
  <2>3. PICK c : c = heap[o].class
    OBVIOUS
  <2>4. c \in D /\ heap[c].kind = "CLASS" /\ heap'[c].methods = heap[c].methods
    <3>1. Is(c, "CLASS") /\ c \in RefsOf(heap[o])
      BY <1>2, <1>3, <2>3, SoundMembers DEF Is, ClassesInv
    <3> QED
      BY <1>2, <1>3, <2>3, <3>1 DEF Keeps, Is
  <2>5. frames[j].closure \in MethodsFor(c)'
    BY <1>2, <1>3, <2>3, <2>4, MethodsForKept DEF ClassesInv
  <2>6. heap'[evalstack'[frames'[j].slots]].class = c
    BY <2>1, <2>3
  <2> QED
    BY <2>1, <2>2, <2>3, <2>5, <2>6 DEF Is
<1>4. ASSUME frames[j].constructs # Nil
      PROVE  /\ frames[j].closure # Nil /\ heap'[frames[j].closure].is_init
             /\ heap'[o].class = frames[j].constructs
  <2>1. /\ frames[j].closure # Nil /\ heap[frames[j].closure].is_init
        /\ heap[o].class = frames[j].constructs
    BY <1>4 DEF ClassesInv, ConstructorsFit
  <2> QED
    BY <1>3, <2>1
<1> QED
  BY <1>3, <1>4 DEF FrameFits, stack_top, Is

(* Frames that fit.                                                        *)
LEMMA AllFramesFit ==
  ASSUME \A j \in 1..Len(frames') : FrameFits(j)'
  PROVE  /\ ThisFitsMethod' /\ ConstructorsFit'
         /\ \A j \in 1..Len(frames') : frames'[j].slots <= Len(evalstack')
  BY DEF FrameFits, ThisFitsMethod, ConstructorsFit, stack_top

(* Slot 0 of every frame is not above that of the call in progress.        *)
LEMMA FrameBases ==
  ASSUME ClassesInv, frames # <<>>, NEW j \in 1..Len(frames)
  PROVE  /\ frames[j].slots \in 1..current_frame.slots
         /\ j # Len(frames) => frames[j].slots < current_frame.slots
<1>1. frames[j].slots \in 1..stack_top /\ current_frame.slots \in 1..stack_top /\ stack_top \in Nat
  BY FrameTypes, CurrentFrame DEF ClassesInv
<1>2. j < Len(frames) => frames[j].slots < current_frame.slots
  BY CurrentFrame DEF ClassesInv, FramesAscend, current_frame
<1>3. j = Len(frames) => frames[j].slots = current_frame.slots
  BY DEF current_frame
<1>4. j < Len(frames) \/ j = Len(frames)
  BY CurrentFrame DEF ClassesInv
<1> QED
  BY <1>1, <1>2, <1>3, <1>4

(* What exists is a value; sequences of such things.                       *)
LEMMA LiveValues ==
  ASSUME TypeOK
  PROVE  Live \subseteq Value /\ Seq(Live) \subseteq Seq(Value)
<1>1. Live \subseteq Value
  BY DEF TypeOK, Live, Value
<1> QED
  BY <1>1

(* The frames are left alone, and so are the slots up to slot 0 of the     *)
(* call in progress.                                                       *)
LEMMA FramesSame ==
  ASSUME ClassesInv, frames # <<>>, UNCHANGED frames, NEW D, Keeps(D), Roots \subseteq D,
         evalstack' \in Seq(Value), current_frame.slots <= Len(evalstack'),
         \A p \in 1..current_frame.slots : evalstack'[p] = evalstack[p]
  PROVE  /\ ThisFitsMethod' /\ ConstructorsFit' /\ FramesAscend'
         /\ \A j \in 1..Len(frames') : frames'[j].slots <= Len(evalstack')
<1>1. ASSUME NEW j \in 1..Len(frames') PROVE FrameFits(j)'
  <2>1. Len(evalstack') \in Nat /\ current_frame.slots \in Nat /\ j \in 1..Len(frames)
    BY CurrentFrame DEF ClassesInv
  <2>2. frames[j].slots \in 1..current_frame.slots
    BY <2>1, FrameBases
  <2>3. frames[j].slots <= Len(evalstack') /\ evalstack'[frames[j].slots] = evalstack[frames[j].slots]
    BY <2>1, <2>2
  <2> QED
    BY <2>1, <2>3, FrameKept
<1>2. FramesAscend'
  BY DEF ClassesInv, FramesAscend
<1> QED
  BY <1>1, <1>2, AllFramesFit

(* The roots are kept if the heap is left alone.                           *)
LEMMA AllKept ==
  ASSUME ClassesInv, UNCHANGED heap
  PROVE  Keeps(DOMAIN heap) /\ Roots \subseteq DOMAIN heap /\ ObjectsSound' /\ Live' = Live
  BY HeapSame, RootsAre DEF ClassesInv, Live

(* An instruction that changes operands and globals only.                  *)
LEMMA StackStep ==
  ASSUME ClassesInv, Ready, UNCHANGED <<frames, heap, request, declaring>>,
         globals' \in [Globals -> Live], evalstack' \in Seq(Live),
         current_frame.slots <= Len(evalstack'),
         \A p \in 1..current_frame.slots : evalstack'[p] = evalstack[p]
  PROVE  ClassesInv'
<1>1. TypeOK /\ frames # <<>> /\ request = NoRequest /\ declaring = NotDeclaring
  BY DEF ClassesInv, Ready
<1>2. evalstack' \in Seq(Value) /\ globals' \in [Globals -> Value]
  BY <1>1, LiveValues
<1>3. /\ ThisFitsMethod' /\ ConstructorsFit' /\ FramesAscend'
      /\ \A j \in 1..Len(frames') : frames'[j].slots <= Len(evalstack')
  BY <1>1, <1>2, AllKept, FramesSame
<1>4. TypeOK'
  BY <1>1, <1>2, <1>3 DEF TypeOK, stack_top
<1>5. RootsExist'
  BY AllKept DEF ClassesInv, RootsExist
<1>6. RequestFits' /\ DeclarationFits'
  BY <1>1 DEF RequestFits, DeclarationFits, NoRequest, NotDeclaring
<1> QED
  BY <1>3, <1>4, <1>5, <1>6, AllKept DEF ClassesInv

(* Values on the stack.                                                    *)
LEMMA OperandTypes ==
  ASSUME ClassesInv, frames # <<>>
  PROVE  /\ evalstack \in Seq(Live) /\ stack_top \in Nat /\ DOMAIN evalstack = 1..stack_top
         /\ \A n \in Nat : n <= Operands => Peek(n) \in Live /\ stack_top - n \in current_frame.slots..stack_top
         /\ this \in Live
<1>1. evalstack \in Seq(Live) /\ stack_top \in Nat /\ DOMAIN evalstack = 1..stack_top
  BY DEF ClassesInv, RootsExist, stack_top
<1>2. current_frame.slots \in 1..stack_top /\ Operands = stack_top - current_frame.slots
  BY CurrentFrame DEF ClassesInv
<1>3. \A p \in 1..stack_top : evalstack[p] \in Live
  BY <1>1 DEF stack_top
<1>4. ASSUME NEW n \in Nat, n <= Operands
      PROVE  Peek(n) \in Live /\ stack_top - n \in current_frame.slots..stack_top
  <2>1. stack_top - n \in 1..stack_top /\ stack_top - n \in current_frame.slots..stack_top
    BY <1>1, <1>2, <1>4
  <2> QED
    BY <1>3, <2>1 DEF Peek
<1> QED
  BY <1>1, <1>2, <1>3, <1>4 DEF this

(* The operand stack after n operands have been popped and v pushed.       *)
LEMMA Popped ==
  ASSUME ClassesInv, frames # <<>>, NEW n \in Nat, n <= Operands, NEW v \in Live
  PROVE  LET s == Append(Pop(n), v)
         IN  /\ Pop(n) \in Seq(Live) /\ Len(Pop(n)) = stack_top - n
             /\ s \in Seq(Live) /\ Len(s) = stack_top - n + 1 /\ s[Len(s)] = v
             /\ current_frame.slots <= Len(Pop(n)) /\ current_frame.slots <= Len(s)
             /\ \A p \in 1..(stack_top - n) : s[p] = evalstack[p] /\ Pop(n)[p] = evalstack[p]
             /\ \A p \in 1..current_frame.slots : s[p] = evalstack[p] /\ Pop(n)[p] = evalstack[p]
<1>1. evalstack \in Seq(Live) /\ stack_top \in Nat /\ stack_top = Len(evalstack)
  BY OperandTypes DEF stack_top
<1>2. stack_top - n \in current_frame.slots..stack_top /\ current_frame.slots \in 1..stack_top
  BY OperandTypes, CurrentFrame DEF ClassesInv
<1>3. PICK m \in Nat : m = stack_top - n
  <2>1. stack_top - n \in Nat
    BY <1>1, <1>2
  <2> QED
    BY <2>1
<1>4. m <= Len(evalstack) /\ Pop(n) = SubSeq(evalstack, 1, m)
  BY <1>1, <1>2, <1>3 DEF Pop
<1>5. PICK t : t = SubSeq(evalstack, 1, m)
  OBVIOUS
<1>6. t \in Seq(Live) /\ Len(t) = m /\ \A p \in 1..m : t[p] = evalstack[p]
  BY <1>1, <1>4, <1>5
<1>7. /\ Append(t, v) \in Seq(Live) /\ Len(Append(t, v)) = m + 1 /\ Append(t, v)[m + 1] = v
      /\ \A p \in 1..m : Append(t, v)[p] = evalstack[p]
  BY <1>6
<1>8. current_frame.slots <= m /\ \A p \in 1..current_frame.slots : p \in 1..m
  BY <1>2, <1>3
<1>9. current_frame.slots <= m + 1 /\ stack_top - n + 1 = m + 1
  BY <1>2, <1>3, <1>8
<1>10. Pop(n) = t
  BY <1>4, <1>5
<1> QED
  BY <1>3, <1>6, <1>7, <1>8, <1>9, <1>10

(* A value is pushed.                                                      *)
LEMMA Pushed ==
  ASSUME ClassesInv, frames # <<>>, NEW v \in Live
  PROVE  LET s == Append(evalstack, v)
         IN  /\ s \in Seq(Live) /\ Len(s) = stack_top + 1 /\ s[stack_top + 1] = v
             /\ current_frame.slots <= Len(s)
             /\ \A p \in 1..stack_top : s[p] = evalstack[p]
             /\ \A p \in 1..current_frame.slots : s[p] = evalstack[p]
<1>1. evalstack \in Seq(Live) /\ stack_top = Len(evalstack) /\ stack_top \in Nat
  BY OperandTypes DEF stack_top
<1>2. current_frame.slots \in 1..stack_top
  BY CurrentFrame DEF ClassesInv
<1>3. /\ Append(evalstack, v) \in Seq(Live) /\ Len(Append(evalstack, v)) = stack_top + 1
      /\ Append(evalstack, v)[stack_top + 1] = v
      /\ \A p \in 1..stack_top : Append(evalstack, v)[p] = evalstack[p]
  BY <1>1
<1>4. current_frame.slots <= stack_top + 1 /\ \A p \in 1..current_frame.slots : p \in 1..stack_top
  BY <1>1, <1>2
<1> QED
  BY <1>3, <1>4

-----------------------------------------------------------------------------
(* Instructions that change operands and globals only *)

(* LOAD_GLOBAL keeps the invariant.                                        *)
LEMMA LoadGlobalInv ==
  ASSUME ClassesInv, NEW g \in Globals, LoadGlobal(g)
  PROVE  ClassesInv'
<1>1. Ready /\ frames # <<>> /\ globals[g] \in Live /\ globals \in [Globals -> Live]
  BY DEF LoadGlobal, Ready, ClassesInv, RootsExist
<1> QED
  BY <1>1, Pushed, StackStep DEF LoadGlobal

(* STORE_GLOBAL keeps the invariant.                                       *)
LEMMA StoreGlobalInv ==
  ASSUME ClassesInv, NEW g \in Assigned, StoreGlobal(g)
  PROVE  ClassesInv'
<1>1. Ready /\ frames # <<>> /\ globals \in [Globals -> Live] /\ evalstack \in Seq(Live)
  BY DEF StoreGlobal, Ready, ClassesInv, RootsExist
<1>2. Peek(0) \in Live
  BY <1>1, OperandTypes, CurrentFrame DEF ClassesInv
<1>3. globals' \in [Globals -> Live] /\ UNCHANGED <<evalstack, frames, heap, request, declaring>>
  BY <1>1, <1>2 DEF StoreGlobal
<1>4. current_frame.slots <= Len(evalstack)
  BY <1>1, CurrentFrame DEF ClassesInv, stack_top
<1> QED
  BY <1>1, <1>3, <1>4, StackStep

(* Loading this keeps the invariant.                                       *)
LEMMA LoadThisInv ==
  ASSUME ClassesInv, LoadThis
  PROVE  ClassesInv'
<1>1. Ready /\ frames # <<>> /\ globals \in [Globals -> Live]
  BY DEF LoadThis, Ready, ClassesInv, RootsExist
<1> QED
  BY <1>1, OperandTypes, Pushed, StackStep DEF LoadThis

(* POP_TOP keeps the invariant: slot 0 of the frame is no operand.         *)
LEMMA PopTopInv ==
  ASSUME ClassesInv, PopTop
  PROVE  ClassesInv'
<1>1. Ready /\ frames # <<>> /\ globals \in [Globals -> Live] /\ Operands > 0
  BY DEF PopTop, Ready, ClassesInv, RootsExist
<1>2. 1 \in Nat /\ 1 <= Operands /\ Nil \in Live
  BY <1>1, CurrentFrame DEF ClassesInv, Live
<1> QED
  BY <1>1, <1>2, Popped, StackStep DEF PopTop

(* LOAD_PROPERTY of a field keeps the invariant.                           *)
LEMMA LoadFieldInv ==
  ASSUME ClassesInv, NEW n \in FieldNames, LoadField(n)
  PROVE  ClassesInv'
<1>1. Ready /\ frames # <<>> /\ globals \in [Globals -> Live] /\ Operands > 0
  BY DEF LoadField, Ready, ClassesInv, RootsExist
<1>2. 1 \in Nat /\ 1 <= Operands
  BY <1>1, CurrentFrame DEF ClassesInv
<1>3. Fields(Peek(0))[n] \in Live
  BY DEF LoadField, ClassesInv, ObjectsSound, Sound, Fields, Is
<1> QED
  BY <1>1, <1>2, <1>3, Popped, StackStep DEF LoadField

(* LOAD_PROPERTY_SAFE of a property that is not there keeps the invariant. *)
LEMMA LoadNothingInv ==
  ASSUME ClassesInv, NEW n \in Names, LoadNothing(n)
  PROVE  ClassesInv'
<1>1. Ready /\ frames # <<>> /\ globals \in [Globals -> Live] /\ Operands > 0
  BY DEF LoadNothing, Ready, ClassesInv, RootsExist
<1>2. 1 \in Nat /\ 1 <= Operands /\ Nil \in Live
  BY <1>1, CurrentFrame DEF ClassesInv, Live
<1> QED
  BY <1>1, <1>2, Popped, StackStep DEF LoadNothing

-----------------------------------------------------------------------------
(* Frames come and go *)

(* A step to an empty machine, with sound objects.                         *)
LEMMA Cleared ==
  ASSUME ClassesInv, evalstack' = <<>>, frames' = <<>>, request' = NoRequest,
         declaring' = NotDeclaring, globals' \in [Globals -> Live'], ObjectsSound',
         DOMAIN heap' \subseteq Obj, \A o \in DOMAIN heap' : heap'[o] \in ObjectType
  PROVE  ClassesInv'
<1>1. Len(frames') = 0 /\ evalstack' \in Seq(Live') /\ evalstack' \in Seq(Value) /\ frames' \in Seq(FrameType)
  OBVIOUS
<1>2. ThisFitsMethod' /\ ConstructorsFit' /\ FramesAscend' /\ RequestFits' /\ DeclarationFits'
  BY <1>1 DEF ThisFitsMethod, ConstructorsFit, FramesAscend, RequestFits, DeclarationFits, NoRequest,
       NotDeclaring
<1>3. globals' \in [Globals -> Value]
  <2>1. Live' \subseteq Value
    BY DEF Live, Value
  <2> QED
    BY <2>1
<1>4. TypeOK'
  BY <1>1, <1>3 DEF TypeOK, NoRequest, NotDeclaring
<1>5. RootsExist'
  BY <1>1 DEF RootsExist
<1> QED
  BY <1>2, <1>4, <1>5 DEF ClassesInv

(* The machine is emptied, and the heap is left alone.                     *)
LEMMA Emptied ==
  ASSUME ClassesInv, evalstack' = <<>>, frames' = <<>>, request' = NoRequest,
         declaring' = NotDeclaring, globals' = globals, heap' = heap
  PROVE  ClassesInv'
<1>1. globals' \in [Globals -> Live'] /\ ObjectsSound'
  BY AllKept DEF ClassesInv, RootsExist
<1>2. DOMAIN heap' \subseteq Obj /\ \A o \in DOMAIN heap' : heap'[o] \in ObjectType
  BY DEF ClassesInv, TypeOK
<1> QED
  BY <1>1, <1>2, Cleared

(* An error clears the machine and keeps the invariant.                    *)
LEMMA RuntimeErrorInv ==
  ASSUME ClassesInv, RuntimeError
  PROVE  ClassesInv'
  BY Emptied DEF RuntimeError, Abort

(* With no frame there is no allocation and no declaration in progress.    *)
LEMMA NothingRuns ==
  ASSUME ClassesInv, frames = <<>>
  PROVE  request = NoRequest /\ declaring = NotDeclaring
  BY DEF ClassesInv, RequestFits, DeclarationFits

(* The frame of the script keeps the invariant.                            *)
LEMMA RunInv ==
  ASSUME ClassesInv, Run
  PROVE  ClassesInv'
<1>1. /\ evalstack' = <<Nil>> /\ frames' = <<Frame(Nil, 1, Nil)>>
      /\ UNCHANGED <<globals, heap, request, declaring>>
      /\ request = NoRequest /\ declaring = NotDeclaring
  BY NothingRuns DEF Run
<1>2. Nil \in Live /\ Nil \in Value /\ Frame(Nil, 1, Nil) \in FrameType
  BY DEF Live, Value, Frame, FrameType
<1>3. /\ evalstack' \in Seq(Live) /\ evalstack' \in Seq(Value) /\ frames' \in Seq(FrameType)
      /\ Len(frames') = 1 /\ Len(evalstack') = 1
      /\ \A j \in 1..1 : frames'[j] = Frame(Nil, 1, Nil)
  BY <1>1, <1>2
<1>4. \A j \in 1..1 : frames'[j].slots = 1 /\ frames'[j].closure = Nil /\ frames'[j].constructs = Nil
  BY <1>3 DEF Frame
<1>5. ThisFitsMethod' /\ ConstructorsFit' /\ FramesAscend'
  BY <1>3, <1>4 DEF ThisFitsMethod, ConstructorsFit, FramesAscend
<1>6. RequestFits' /\ DeclarationFits'
  BY <1>1 DEF RequestFits, DeclarationFits, NoRequest, NotDeclaring
<1>7. TypeOK'
  BY <1>1, <1>3, <1>4 DEF ClassesInv, TypeOK, stack_top
<1>8. RootsExist' /\ ObjectsSound'
  BY <1>1, <1>2, <1>3, <1>4, AllKept DEF ClassesInv, RootsExist
<1> QED
  BY <1>5, <1>6, <1>7, <1>8 DEF ClassesInv

(* A frame is pushed whose slot 0, n slots below the top, holds the        *)
(* instance o of class d; the other slots and frames are left alone.       *)
LEMMA FramePushed ==
  ASSUME ClassesInv, frames # <<>>, NEW D, Keeps(D), Roots \subseteq D,
         evalstack' \in Seq(Value), Len(evalstack') = stack_top, NEW n \in Nat, Operands > n,
         \A p \in 1..stack_top : p # stack_top - n => evalstack'[p] = evalstack[p],
         NEW f \in Value, f # Nil, NEW c \in Value,
         frames' = Append(frames, Frame(f, stack_top - n, c)),
         NEW o, o = evalstack'[stack_top - n], NEW d, d = heap'[o].class,
         Is(o, "INSTANCE")', f \in MethodsFor(d)', c # Nil => heap'[f].is_init /\ d = c
  PROVE  /\ ThisFitsMethod' /\ ConstructorsFit' /\ FramesAscend'
         /\ frames' \in Seq(FrameType)
         /\ \A j \in 1..Len(frames') : frames'[j].slots <= Len(evalstack')
<1> DEFINE x == Frame(f, stack_top - n, c)
<1>1. PICK L \in Nat \ {0} : L = Len(frames)
  BY CurrentFrame DEF ClassesInv
<1>2. /\ stack_top \in Nat /\ current_frame.slots \in 1..stack_top
      /\ stack_top - n \in (current_frame.slots + 1)..stack_top
  BY CurrentFrame DEF ClassesInv
<1>3. x \in FrameType /\ x.slots = stack_top - n /\ x.closure = f /\ x.constructs = c
  BY <1>2 DEF Frame, FrameType
<1> HIDE DEF x
<1>4. frames \in Seq(FrameType) /\ frames' = Append(frames, x)
  BY DEF ClassesInv, TypeOK, x
<1>5. /\ frames' \in Seq(FrameType) /\ Len(frames') = L + 1 /\ frames'[L + 1] = x
      /\ \A j \in 1..L : frames'[j] = frames[j]
  BY <1>1, <1>3, <1>4
<1>6. ASSUME NEW j \in 1..L PROVE FrameFits(j)' /\ frames[j].slots < x.slots
  <2>1. frames[j].slots \in 1..current_frame.slots
    BY <1>1, <1>6, FrameBases
  <2>2. frames[j].slots \in 1..stack_top /\ frames[j].slots < stack_top - n
    BY <1>2, <2>1
  <2>3. evalstack'[frames[j].slots] = evalstack[frames[j].slots] /\ frames[j].slots <= Len(evalstack')
    BY <1>2, <2>2
  <2> QED
    BY <1>1, <1>3, <1>5, <1>6, <2>2, <2>3, FrameKept
<1>7. FrameFits(L + 1)'
  <2>1. evalstack'[frames'[L + 1].slots] = o /\ frames'[L + 1].closure = f /\ frames'[L + 1].constructs = c
    BY <1>3, <1>5
  <2>2. frames'[L + 1].slots <= Len(evalstack')
    BY <1>2, <1>3, <1>5
  <2>3. heap'[evalstack'[frames'[L + 1].slots]].class = d
    BY <2>1
  <2>4. /\ Is(evalstack[frames[L + 1].slots], "INSTANCE")'
        /\ f \in MethodsFor(heap[evalstack[frames[L + 1].slots]].class)'
    BY <2>1, <2>3
  <2> QED
    BY <2>1, <2>2, <2>3, <2>4 DEF FrameFits, stack_top
<1>8. \A j \in 1..Len(frames') : FrameFits(j)'
  <2>1. \A j \in 1..(L + 1) : j \in 1..L \/ j = L + 1
    BY <1>1
  <2> QED
    BY <1>5, <1>6, <1>7, <2>1
<1>9. FramesAscend'
  <2>1. ASSUME NEW j \in 1..(L + 1), NEW k \in 1..(L + 1), j < k
        PROVE  frames'[j].slots < frames'[k].slots
    <3>1. j \in 1..L
      BY <1>1, <2>1
    <3>2. CASE k = L + 1
      BY <1>5, <1>6, <3>1, <3>2
    <3>3. CASE k # L + 1
      <4>1. k \in 1..L
        BY <1>1, <2>1, <3>3
      <4> QED
        BY <1>1, <1>5, <2>1, <3>1, <4>1 DEF ClassesInv, FramesAscend
    <3> QED
      BY <3>2, <3>3
  <2> QED
    BY <1>5, <2>1 DEF FramesAscend
<1> QED
  BY <1>5, <1>8, <1>9, AllFramesFit

(* A call of method f of the instance o, which is below the n arguments.   *)
LEMMA MethodCalled ==
  ASSUME ClassesInv, Ready, NEW n \in Nat, Operands > n,
         evalstack' \in Seq(Live), Len(evalstack') = stack_top,
         \A p \in 1..stack_top : p # stack_top - n => evalstack'[p] = evalstack[p],
         NEW o, o = evalstack'[stack_top - n], Is(o, "INSTANCE"), NEW f \in MethodsFor(heap[o].class),
         frames' = Append(frames, Frame(f, stack_top - n, Nil)),
         UNCHANGED <<globals, heap, request, declaring>>
  PROVE  ClassesInv'
<1>1. TypeOK /\ frames # <<>> /\ request = NoRequest /\ declaring = NotDeclaring
  BY DEF ClassesInv, Ready
<1>2. PICK d : d = heap[o].class
  OBVIOUS
<1>3. f \in DOMAIN heap /\ f \in Value /\ f # Nil /\ f \in Live /\ Nil \in Value
  BY <1>1, MethodsAreClosures, RootsAre DEF Is, ClassesInv, TypeOK, Value, Live
<1>4. f \in MethodsFor(d)' /\ Is(o, "INSTANCE")' /\ d = heap'[o].class
  <2>1. MethodsFor(d)' = MethodsFor(d)
    <3>1. Is(d, "CLASS")
      BY <1>1, <1>2, SoundMembers DEF Is, ClassesInv
    <3> QED
      BY <1>1, <3>1, AllKept, MethodsForKept DEF Is, ClassesInv
  <2> QED
    BY <1>2, <2>1 DEF Is
<1>5. evalstack' \in Seq(Value)
  BY <1>1, LiveValues
<1>6. /\ ThisFitsMethod' /\ ConstructorsFit' /\ FramesAscend'
      /\ frames' \in Seq(FrameType)
      /\ \A j \in 1..Len(frames') : frames'[j].slots <= Len(evalstack')
  BY <1>1, <1>3, <1>4, <1>5, AllKept, FramePushed
<1>7. TypeOK'
  BY <1>1, <1>5, <1>6 DEF TypeOK, stack_top
<1>8. RootsExist'
  <2>1. \A j \in 1..Len(frames) : frames[j].closure \in Live
    BY DEF ClassesInv, RootsExist
  <2>2. Len(frames) \in Nat /\ frames \in Seq(FrameType)
    BY <1>1 DEF TypeOK
  <2>3. ASSUME NEW j \in 1..Len(frames') PROVE frames'[j].closure \in Live
    <3>1. CASE j \in 1..Len(frames)
      <4>1. frames'[j] = frames[j]
        BY <2>2, <3>1
      <4> QED
        BY <2>1, <3>1, <4>1
    <3>2. CASE j \notin 1..Len(frames)
      <4>1. frames'[j] = Frame(f, stack_top - n, Nil)
        BY <2>2, <3>2
      <4> QED
        BY <1>3, <4>1 DEF Frame
    <3> QED
      BY <3>1, <3>2
  <2> QED
    BY <2>3, AllKept DEF ClassesInv, RootsExist
<1>9. RequestFits' /\ DeclarationFits'
  BY <1>1 DEF RequestFits, DeclarationFits, NoRequest, NotDeclaring
<1> QED
  BY <1>6, <1>7, <1>8, <1>9, AllKept DEF ClassesInv

(* The slot of the callee gets a value.                                    *)
LEMMA CalleePut ==
  ASSUME ClassesInv, frames # <<>>, NEW n \in Nat, Operands > n, NEW v \in Live
  PROVE  /\ PutCallee(n, v) \in Seq(Live) /\ Len(PutCallee(n, v)) = stack_top
         /\ PutCallee(n, v)[stack_top - n] = v
         /\ \A p \in 1..stack_top : p # stack_top - n => PutCallee(n, v)[p] = evalstack[p]
         /\ stack_top - n \in (current_frame.slots + 1)..stack_top /\ stack_top - n \in 1..stack_top
<1>1. evalstack \in Seq(Live) /\ stack_top = Len(evalstack) /\ stack_top \in Nat
  BY OperandTypes DEF stack_top
<1>2. stack_top - n \in (current_frame.slots + 1)..stack_top /\ current_frame.slots \in 1..stack_top
  BY CurrentFrame DEF ClassesInv
<1>3. stack_top - n \in 1..stack_top
  BY <1>1, <1>2
<1> QED
  BY <1>1, <1>2, <1>3 DEF PutCallee

(* A method that LOAD_PROPERTY or INVOKE finds fits the instance.          *)
LEMMA FoundMethodFits ==
  ASSUME ClassesInv, NEW o, NEW n, FindsMethod(o, n)
  PROVE  /\ Is(o, "INSTANCE") /\ MethodOf(o, n) \in MethodsFor(heap[o].class)
         /\ Is(heap[o].class, "CLASS") /\ heap[o].class \in RefsOf(heap[o])
         /\ MethodOf(o, n) \in RefsOf(heap[heap[o].class])
<1>1. Is(o, "INSTANCE") /\ n \in DOMAIN Methods(heap[o].class)
  BY DEF FindsMethod
<1>2. Is(heap[o].class, "CLASS") /\ heap[o].class \in RefsOf(heap[o])
  BY <1>1, SoundMembers DEF Is, ClassesInv
<1>3. MethodOf(o, n) \in Range(Methods(heap[o].class))
  BY <1>1 DEF MethodOf, Range
<1>4. /\ MethodOf(o, n) \in Closures
      /\ MethodOf(o, n) \in RefsOf(heap[heap[o].class])
  BY <1>2, <1>3, SoundMembers DEF Is, ClassesInv
<1>5. MethodOf(o, n) \in Range(Methods(heap[o].class)) \cap DOMAIN Overridden
  BY <1>3, <1>4 DEF Overridden
<1>6. MethodOf(o, n) \in MethodsFor(heap[o].class)
  BY <1>5, ReachRoots DEF MethodsFor
<1> QED
  BY <1>1, <1>2, <1>4, <1>6

(* A method of the superclass fits this.                                   *)
LEMMA SuperFits ==
  ASSUME ClassesInv, frames # <<>>, NEW name, CanSuper(name)
  PROVE  /\ Is(this, "INSTANCE") /\ Methods(super)[name] \in MethodsFor(heap[this].class)
         /\ current_frame.closure \in Roots /\ current_frame.closure \in DOMAIN heap
         /\ super \in RefsOf(heap[current_frame.closure]) /\ super \in DOMAIN heap
         /\ Methods(super)[name] \in RefsOf(heap[super]) /\ Methods(super)[name] \in DOMAIN heap
<1>1. PICK f : f = current_frame.closure
  OBVIOUS
<1>2. f # Nil /\ super = heap[f].super /\ super # Nil /\ name \in DOMAIN Methods(super)
  BY <1>1 DEF CanSuper, InMethod, super
<1>3. Len(frames) \in 1..Len(frames)
  BY CurrentFrame DEF ClassesInv
<1>4. Is(this, "INSTANCE") /\ f \in MethodsFor(heap[this].class) /\ f \in Roots
  <2>1. Is(this, "INSTANCE") /\ f \in MethodsFor(heap[this].class)
    BY <1>1, <1>2, <1>3 DEF ClassesInv, ThisFitsMethod, this, current_frame
  <2> QED
    BY <1>1, <1>2, <1>3, <2>1, RootsAre DEF ClassesInv, current_frame
<1>5. f \in DOMAIN heap /\ heap[f].kind = "CLOSURE" /\ f \in Closures
  BY <1>4, MethodsAreClosures DEF Is
<1>6. Is(super, "CLASS") /\ super \in RefsOf(heap[f])
  BY <1>2, <1>5, SoundMembers DEF ClassesInv
<1>7. Methods(super)[name] \in Range(Methods(super))
  BY <1>2 DEF Range
<1>8. Methods(super)[name] \in Closures /\ Methods(super)[name] \in RefsOf(heap[super])
  BY <1>6, <1>7, SoundMembers DEF Is, ClassesInv
<1>9. Methods(super)[name] \in Overridden[f] /\ Methods(super)[name] \in DOMAIN Overridden
  BY <1>2, <1>5, <1>7, <1>8 DEF Overridden
<1>10. Methods(super)[name] \in MethodsFor(heap[this].class)
  BY <1>4, <1>9, ReachStep DEF MethodsFor
<1> QED
  BY <1>1, <1>4, <1>5, <1>6, <1>8, <1>10 DEF Is, Closures

(* INVOKE of a method keeps the invariant.                                 *)
LEMMA InvokeInv ==
  ASSUME ClassesInv, NEW n \in Arities, NEW name \in Names, Invoke(n, name)
  PROVE  ClassesInv'
<1>1. /\ Ready /\ frames # <<>> /\ Operands > n /\ n \in Nat /\ FindsMethod(Peek(n), name)
      /\ UNCHANGED <<evalstack, globals, heap, request, declaring>>
      /\ frames' = Append(frames, Frame(MethodOf(Peek(n), name), stack_top - n, Nil))
  BY ClassesAssumption DEF Invoke, Ready, PushFrame, stack_top
<1>2. PICK o : o = Peek(n)
  OBVIOUS
<1>3. PICK f : f = MethodOf(o, name)
  OBVIOUS
<1>4. Is(o, "INSTANCE") /\ f \in MethodsFor(heap[o].class)
  BY <1>1, <1>2, <1>3, FoundMethodFits
<1>5. evalstack' \in Seq(Live) /\ Len(evalstack') = stack_top /\ o = evalstack'[stack_top - n]
  BY <1>1, <1>2, OperandTypes DEF Peek, stack_top
<1>6. frames' = Append(frames, Frame(f, stack_top - n, Nil))
  BY <1>1, <1>2, <1>3
<1> QED
  BY <1>1, <1>4, <1>5, <1>6, MethodCalled

(* SUPER_INVOKE keeps the invariant.                                       *)
LEMMA SuperInvokeInv ==
  ASSUME ClassesInv, NEW n \in Arities, NEW name \in Names, SuperInvoke(n, name)
  PROVE  ClassesInv'
<1>1. /\ Ready /\ frames # <<>> /\ Operands > n /\ n \in Nat /\ CanSuper(name) /\ Peek(n) = this
      /\ UNCHANGED <<evalstack, globals, heap, request, declaring>>
      /\ frames' = Append(frames, Frame(Methods(super)[name], stack_top - n, Nil))
  BY ClassesAssumption DEF SuperInvoke, Ready, PushFrame, stack_top
<1>2. PICK o : o = Peek(n)
  OBVIOUS
<1>3. PICK f : f = Methods(super)[name]
  OBVIOUS
<1>4. Is(o, "INSTANCE") /\ f \in MethodsFor(heap[o].class)
  BY <1>1, <1>2, <1>3, SuperFits
<1>5. evalstack' \in Seq(Live) /\ Len(evalstack') = stack_top /\ o = evalstack'[stack_top - n]
  BY <1>1, <1>2, OperandTypes DEF Peek, stack_top
<1>6. frames' = Append(frames, Frame(f, stack_top - n, Nil))
  BY <1>1, <1>3
<1> QED
  BY <1>1, <1>4, <1>5, <1>6, MethodCalled

(* A call of a bound method keeps the invariant.                           *)
LEMMA CallBoundInv ==
  ASSUME ClassesInv, Ready, NEW n \in Arities, Operands > n, NEW v, CallBound(v, n),
         UNCHANGED <<globals, heap, declaring>>
  PROVE  ClassesInv'
<1>1. /\ frames # <<>> /\ n \in Nat /\ Is(v, "BOUND_METHOD") /\ UNCHANGED request
      /\ evalstack' = PutCallee(n, heap[v].receiver)
      /\ frames' = Append(frames, Frame(heap[v].method, stack_top - n, Nil))
  BY ClassesAssumption DEF CallBound, Ready, PushFrame, stack_top, Receiver
<1>2. PICK o : o = heap[v].receiver
  OBVIOUS
<1>3. PICK f : f = heap[v].method
  OBVIOUS
<1>4. Is(o, "INSTANCE") /\ f \in MethodsFor(heap[o].class)
  BY <1>1, <1>2, <1>3 DEF ClassesInv, ObjectsSound, Sound, Is
<1>5. o \in Live
  BY <1>4 DEF Is, Live
<1>6. /\ evalstack' \in Seq(Live) /\ Len(evalstack') = stack_top /\ o = evalstack'[stack_top - n]
      /\ \A p \in 1..stack_top : p # stack_top - n => evalstack'[p] = evalstack[p]
  BY <1>1, <1>2, <1>5, CalleePut
<1>7. frames' = Append(frames, Frame(f, stack_top - n, Nil))
  BY <1>1, <1>3
<1> QED
  BY <1>1, <1>4, <1>6, <1>7, MethodCalled

(* What a function returns exists.                                         *)
LEMMA ResultsExist ==
  ASSUME ClassesInv, frames # <<>>
  PROVE  Results \subseteq Live
<1>1. Operands > 0 => Peek(0) \in Live
  BY OperandTypes, CurrentFrame DEF ClassesInv
<1>2. this \in Live /\ Nil \in Live
  BY OperandTypes DEF Live
<1> QED
  BY <1>1, <1>2 DEF Results

(* RETURN keeps the invariant: the slots below the frame are those of the  *)
(* caller.                                                                 *)
LEMMA ReturnInv ==
  ASSUME ClassesInv, Return
  PROVE  ClassesInv'
<1>1. /\ TypeOK /\ frames # <<>> /\ request = NoRequest /\ declaring = NotDeclaring
      /\ UNCHANGED <<globals, heap, request, declaring>>
  BY DEF ClassesInv, Ready, Return
<1>2. PICK L \in Nat \ {0} : L = Len(frames)
  BY <1>1, CurrentFrame
<1>3. PICK b \in Nat : b = current_frame.slots - 1
  BY <1>1, CurrentFrame
<1>4. b < stack_top /\ stack_top \in Nat /\ evalstack \in Seq(Live) /\ stack_top = Len(evalstack)
  BY <1>1, <1>3, CurrentFrame, OperandTypes DEF stack_top
<1>5. PICK below : below = SubSeq(evalstack, 1, b)
  OBVIOUS
<1>6. below \in Seq(Live) /\ Len(below) = b /\ \A p \in 1..b : below[p] = evalstack[p]
  BY <1>3, <1>4, <1>5
<1>7. evalstack' = below \/ \E v \in Live : evalstack' = Append(below, v)
  <2>1. SubSeq(evalstack, 1, current_frame.slots - 1) = below
    BY <1>3, <1>5
  <2>2. evalstack' \in IF Len(frames) = 1 THEN {below} ELSE {Append(below, v) : v \in Results}
    BY <2>1 DEF Return
  <2> QED
    BY <1>1, <2>2, ResultsExist
<1>8. evalstack' \in Seq(Live) /\ b <= Len(evalstack') /\ \A p \in 1..b : evalstack'[p] = evalstack[p]
  <2>1. CASE evalstack' = below
    BY <1>3, <1>6, <2>1
  <2>2. ASSUME NEW v \in Live, evalstack' = Append(below, v)
        PROVE  evalstack' \in Seq(Live) /\ b <= Len(evalstack') /\ \A p \in 1..b : evalstack'[p] = evalstack[p]
    BY <1>3, <1>6, <2>2
  <2> QED
    BY <1>7, <2>1, <2>2
<1>9. frames' \in Seq(FrameType) /\ Len(frames') = L - 1 /\ \A j \in 1..(L - 1) : frames'[j] = frames[j]
  <2>1. frames \in Seq(FrameType) /\ frames' = SubSeq(frames, 1, L - 1)
    BY <1>1, <1>2 DEF TypeOK, Return
  <2> QED
    BY <1>2, <2>1
<1>10. ASSUME NEW j \in 1..(L - 1) PROVE FrameFits(j)'
  <2>1. j \in 1..Len(frames) /\ j # Len(frames)
    BY <1>2
  <2>2. frames[j].slots \in 1..b
    BY <1>1, <1>3, <2>1, FrameBases, CurrentFrame
  <2>3. frames[j].slots <= Len(evalstack') /\ evalstack'[frames[j].slots] = evalstack[frames[j].slots]
    BY <1>3, <1>8, <2>2
  <2> QED
    BY <1>1, <1>9, <2>1, <2>3, AllKept, FrameKept
<1>11. /\ ThisFitsMethod' /\ ConstructorsFit'
       /\ \A j \in 1..Len(frames') : frames'[j].slots <= Len(evalstack')
  BY <1>9, <1>10, AllFramesFit
<1>12. \A j \in 1..(L - 1) : j \in 1..Len(frames)
  BY <1>2
<1>13. FramesAscend'
  BY <1>9, <1>12 DEF ClassesInv, FramesAscend
<1>14. TypeOK'
  BY <1>1, <1>8, <1>9, <1>11, LiveValues DEF TypeOK, stack_top
<1>15. RootsExist'
  BY <1>1, <1>8, <1>9, <1>12, AllKept DEF ClassesInv, RootsExist
<1>16. RequestFits' /\ DeclarationFits'
  BY <1>1 DEF RequestFits, DeclarationFits, NoRequest, NotDeclaring
<1> QED
  BY <1>1, <1>11, <1>13, <1>14, <1>15, <1>16, AllKept DEF ClassesInv

-----------------------------------------------------------------------------
(* Instructions that begin an allocation, or go on with a declaration,     *)
(* and leave the heap alone                                                *)

(* Well-formed requests and declarations have their types.                 *)
LEMMA StagesTyped ==
  ASSUME RequestFits', DeclarationFits'
  PROVE  /\ request'.then \in {"none", "push", "define", "construct"}
         /\ request' # NoRequest => request'.object \in ObjectType /\ request'.pops \in Nat
         /\ declaring'.stage \in {"none", "header", "body", "method"}
<1>1. CASE request' = NoRequest
  BY <1>1 DEF NoRequest, DeclarationFits, NotDeclaring
<1>2. CASE request' # NoRequest
  BY <1>2 DEF RequestFits, DeclarationFits, NotDeclaring
<1> QED
  BY <1>1, <1>2

(* An instruction that leaves heap and frames alone, and begins an         *)
(* allocation or goes on with a declaration as it should.                  *)
LEMMA OperandStep ==
  ASSUME ClassesInv, frames # <<>>, UNCHANGED <<frames, globals, heap>>, evalstack' \in Seq(Live),
         current_frame.slots <= Len(evalstack'),
         \A p \in 1..current_frame.slots : evalstack'[p] = evalstack[p],
         RequestFits', DeclarationFits'
  PROVE  ClassesInv'
<1>1. TypeOK /\ evalstack' \in Seq(Value)
  BY LiveValues DEF ClassesInv
<1>2. /\ ThisFitsMethod' /\ ConstructorsFit' /\ FramesAscend'
      /\ \A j \in 1..Len(frames') : frames'[j].slots <= Len(evalstack')
  BY <1>1, AllKept, FramesSame
<1>3. TypeOK'
  BY <1>1, <1>2, StagesTyped DEF TypeOK, stack_top
<1>4. RootsExist'
  BY AllKept DEF ClassesInv, RootsExist
<1> QED
  BY <1>2, <1>3, <1>4, AllKept DEF ClassesInv

(* What can be reached after such an instruction: what is on the stack,    *)
(* the closures of the frames, and what these point to.                    *)
LEMMA ReachedNext ==
  ASSUME ClassesInv, UNCHANGED heap, evalstack' \in Seq(Live)
  PROVE  /\ \A p \in 1..Len(evalstack') : evalstack'[p] # Nil => evalstack'[p] \in Reach(Roots', graph')
         /\ \A j \in 1..Len(frames') : frames'[j].closure \in DOMAIN heap =>
              frames'[j].closure \in Reach(Roots', graph')
         /\ \A x \in Reach(Roots', graph') : \A y \in RefsOf(heap[x]) :
              y \in DOMAIN heap => y \in Reach(Roots', graph')
<1>1. DOMAIN graph' = DOMAIN heap /\ \A x \in DOMAIN heap : graph'[x] = RefsOf(heap[x])
  BY DEF graph
<1>2. DOMAIN heap \subseteq Obj
  BY DEF ClassesInv, TypeOK
<1>3. Roots' \cap DOMAIN graph' \subseteq Reach(Roots', graph')
  BY ReachRoots
<1>4. ASSUME NEW p \in 1..Len(evalstack'), evalstack'[p] # Nil
      PROVE  evalstack'[p] \in Reach(Roots', graph')
  <2>1. evalstack'[p] \in Live /\ evalstack'[p] \in Range(evalstack')
    BY DEF Range
  <2>2. evalstack'[p] \in DOMAIN heap
    BY <1>4, <2>1 DEF Live
  <2> QED
    BY <1>1, <1>2, <1>3, <2>1, <2>2 DEF Roots
<1>5. ASSUME NEW j \in 1..Len(frames'), frames'[j].closure \in DOMAIN heap
      PROVE  frames'[j].closure \in Reach(Roots', graph')
  <2>1. frames'[j].closure \in Roots'
    BY <1>2, <1>5 DEF Roots
  <2> QED
    BY <1>1, <1>3, <1>5, <2>1
<1>6. ASSUME NEW x \in Reach(Roots', graph'), NEW y \in RefsOf(heap[x]), y \in DOMAIN heap
      PROVE  y \in Reach(Roots', graph')
  <2>1. x \in DOMAIN graph'
    BY DEF Reach
  <2>2. y \in graph'[x]
    BY <1>1, <2>1
  <2> QED
    BY <1>1, <1>6, <2>2, ReachStep
<1> QED
  BY <1>4, <1>5, <1>6

(* The objects that instructions ask for.                                  *)
LEMMA NewObjects ==
  /\ NewClass \in ObjectType /\ RefsOf(NewClass) = {}
  /\ \A b \in BOOLEAN, k \in Arities, s \in Value : NewClosure(b, k, s) \in ObjectType
  /\ \A c \in Obj : NewInstance(c) \in ObjectType
  /\ \A r \in Obj, f \in Obj : NewBoundMethod(r, f) \in ObjectType
<1>1. EmptyTable \in [{} -> Obj] /\ EmptyTable \in [{} -> Value] /\ Range(EmptyTable) = {}
  BY DEF EmptyTable, Range
<1>2. EmptyTable \in Table(Obj) /\ EmptyTable \in Table(Value)
  BY <1>1 DEF Table
<1>3. NewClass \in ObjectType
  BY <1>2 DEF NewClass, ObjectType, Value
<1>4. RefsOf(NewClass) = {}
  <2>1. NewClass.kind = "CLASS" /\ NewClass.methods = EmptyTable /\ NewClass.init_method = Nil
    BY DEF NewClass
  <2> QED
    BY <1>1, <2>1, RefsOfEach, ClassesAssumption
<1>5. \A b \in BOOLEAN, k \in Arities, s \in Value : NewClosure(b, k, s) \in ObjectType
  BY DEF NewClosure, ObjectType
<1>6. \A c \in Obj : NewInstance(c) \in ObjectType
  BY <1>2 DEF NewInstance, ObjectType
<1>7. \A r \in Obj, f \in Obj : NewBoundMethod(r, f) \in ObjectType
  BY DEF NewBoundMethod, ObjectType
<1> QED
  BY <1>3, <1>4, <1>5, <1>6, <1>7

(* What an allocation that has just begun was asked for.                   *)
LEMMA Asked ==
  ASSUME NEW x \in ObjectType, NEW n \in Nat, NEW t \in {"push", "define", "construct"}, Ask(x, n, t)
  PROVE  /\ request' \in [then : {"push", "define", "construct"}, object : ObjectType,
                          pops : Nat, collected : BOOLEAN]
         /\ request'.then = t /\ request'.object = x /\ request'.pops = n
         /\ request' # NoRequest /\ Held' = RefsOf(x)
<1>1. request' = [then |-> t, object |-> x, pops |-> n, collected |-> FALSE]
  BY DEF Ask
<1>2. request'.then = t /\ request'.object = x /\ request'.pops = n
  BY <1>1
<1>3. request' # NoRequest
  BY <1>2 DEF NoRequest
<1>4. Held' = RefsOf(x)
  BY <1>2, <1>3 DEF Held
<1> QED
  BY <1>1, <1>2, <1>3, <1>4

(* A sound object stays sound while the heap is left alone.                *)
LEMMA SoundSame ==
  ASSUME ClassesInv, UNCHANGED heap, NEW x \in ObjectType, Sound(x)
  PROVE  Sound(x)'
  BY AllKept, SoundRefs, SoundKept DEF ClassesInv

(* An allocation of a bound method begins; its receiver is on the top of   *)
(* the stack.                                                              *)
LEMMA BoundMethodAsked ==
  ASSUME ClassesInv, Ready, UNCHANGED <<frames, globals, heap, declaring>>, evalstack' \in Seq(Live),
         current_frame.slots < Len(evalstack'),
         \A p \in 1..current_frame.slots : evalstack'[p] = evalstack[p],
         NEW o, o = evalstack'[Len(evalstack')], Is(o, "INSTANCE"),
         NEW f \in MethodsFor(heap[o].class), f \in Reach(Roots', graph'),
         Ask(NewBoundMethod(o, f), 1, "push")
  PROVE  ClassesInv'
<1>1. frames # <<>> /\ declaring = NotDeclaring
  BY DEF Ready
<1>2. PICK x : x = NewBoundMethod(o, f)
  OBVIOUS
<1>3. x.kind = "BOUND_METHOD" /\ x.receiver = o /\ x.method = f
  BY <1>2 DEF NewBoundMethod
<1>4. f \in DOMAIN heap /\ o \in DOMAIN heap /\ f \in Obj /\ o \in Obj /\ o # Nil
  BY MethodsAreClosures, ClassesAssumption DEF Is, ClassesInv, TypeOK
<1>5. x \in ObjectType
  BY <1>2, <1>4, NewObjects
<1>6. Sound(x)'
  <2>1. Sound(x)
    BY <1>3 DEF Sound
  <2> QED
    BY <1>5, <2>1, SoundSame
<1>7. /\ request' \in [then : {"push", "define", "construct"}, object : ObjectType,
                       pops : Nat, collected : BOOLEAN]
      /\ request'.then = "push" /\ request'.object = x /\ request'.pops = 1
      /\ request' # NoRequest /\ Held' = RefsOf(x)
  BY <1>2, <1>5, Asked
<1>8. o \in Reach(Roots', graph')
  <2>1. Len(evalstack') \in 1..Len(evalstack')
    BY <1>1, CurrentFrame DEF ClassesInv
  <2> QED
    BY <1>4, <2>1, ReachedNext
<1>9. Held' \subseteq Reach(Roots', graph')
  BY <1>3, <1>7, <1>8, RefsOfEach
<1>10. Operands' > 0
  BY <1>1, CurrentFrame DEF ClassesInv, Operands, current_frame, stack_top
<1>11. RequestFits'
  <2>1. Sound(request.object)'
    BY <1>6, <1>7
  <2>2. request'.object.kind = "BOUND_METHOD" /\ frames' # <<>> /\ declaring' = NotDeclaring
    BY <1>1, <1>3, <1>7
  <2> QED
    BY <1>7, <1>9, <1>10, <2>1, <2>2 DEF RequestFits
<1>12. DeclarationFits'
  BY <1>1 DEF DeclarationFits, NotDeclaring
<1>13. current_frame.slots <= Len(evalstack')
  BY <1>1, CurrentFrame DEF ClassesInv
<1> QED
  BY <1>1, <1>11, <1>12, <1>13, OperandStep

(* LOAD_PROPERTY of a method keeps the invariant: the method is in the     *)
(* table of the class of the instance, which is still on the stack.        *)
LEMMA LoadMethodInv ==
  ASSUME ClassesInv, NEW n \in Names, LoadMethod(n)
  PROVE  ClassesInv'
<1>1. /\ Ready /\ frames # <<>> /\ Operands > 0 /\ FindsMethod(Peek(0), n)
      /\ Ask(NewBoundMethod(Peek(0), MethodOf(Peek(0), n)), 1, "push")
      /\ UNCHANGED <<evalstack, frames, globals, heap, declaring>>
  BY DEF LoadMethod, Ready
<1>2. PICK o : o = Peek(0)
  OBVIOUS
<1>3. PICK f : f = MethodOf(o, n)
  OBVIOUS
<1>4. /\ Is(o, "INSTANCE") /\ f \in MethodsFor(heap[o].class) /\ heap[o].class \in RefsOf(heap[o])
      /\ Is(heap[o].class, "CLASS") /\ f \in RefsOf(heap[heap[o].class])
  BY <1>1, <1>2, <1>3, FoundMethodFits
<1>5. evalstack \in Seq(Live) /\ stack_top \in Nat \ {0} /\ current_frame.slots < stack_top
  BY <1>1, CurrentFrame, OperandTypes DEF ClassesInv
<1>6. o = evalstack'[Len(evalstack')] /\ o # Nil /\ Len(evalstack') \in 1..Len(evalstack')
  BY <1>1, <1>2, <1>4, <1>5, ClassesAssumption DEF Peek, stack_top, Is, ClassesInv, TypeOK
<1>7. f \in DOMAIN heap
  BY <1>4, MethodsAreClosures DEF Is
<1>8. heap[o].class \in Reach(Roots', graph')
  BY <1>1, <1>4, <1>5, <1>6, ReachedNext DEF Is
<1>9. f \in Reach(Roots', graph')
  BY <1>1, <1>4, <1>5, <1>7, <1>8, ReachedNext
<1>10. Ask(NewBoundMethod(o, f), 1, "push")
  BY <1>1, <1>2, <1>3
<1> QED
  BY <1>1, <1>4, <1>5, <1>6, <1>9, <1>10, BoundMethodAsked DEF stack_top

(* LOAD_SUPER keeps the invariant: the method is in the table of super,    *)
(* which the running closure has.                                          *)
LEMMA LoadSuperInv ==
  ASSUME ClassesInv, NEW name \in Names, LoadSuper(name)
  PROVE  ClassesInv'
<1>1. /\ Ready /\ frames # <<>> /\ CanSuper(name) /\ evalstack' = Append(evalstack, this)
      /\ Ask(NewBoundMethod(this, Methods(super)[name]), 1, "push")
      /\ UNCHANGED <<frames, globals, heap, declaring>>
  BY DEF LoadSuper, Ready
<1>2. PICK o : o = this
  OBVIOUS
<1>3. PICK f : f = Methods(super)[name]
  OBVIOUS
<1>4. PICK g : g = current_frame.closure
  OBVIOUS
<1>5. /\ Is(o, "INSTANCE") /\ f \in MethodsFor(heap[o].class)
      /\ g \in DOMAIN heap /\ super \in RefsOf(heap[g]) /\ super \in DOMAIN heap
      /\ f \in RefsOf(heap[super]) /\ f \in DOMAIN heap
  BY <1>1, <1>2, <1>3, <1>4, SuperFits
<1>6. /\ evalstack' \in Seq(Live) /\ Len(evalstack') = stack_top + 1 /\ evalstack'[stack_top + 1] = o
      /\ \A p \in 1..current_frame.slots : evalstack'[p] = evalstack[p]
  BY <1>1, <1>2, OperandTypes, Pushed
<1>7. current_frame.slots < Len(evalstack')
  BY <1>1, <1>6, CurrentFrame DEF ClassesInv
<1>8. Len(frames') \in 1..Len(frames') /\ frames'[Len(frames')].closure = g
  BY <1>1, <1>4, CurrentFrame DEF ClassesInv, current_frame
<1>9. g \in Reach(Roots', graph')
  BY <1>1, <1>5, <1>6, <1>8, ReachedNext
<1>10. super \in Reach(Roots', graph')
  BY <1>1, <1>5, <1>6, <1>9, ReachedNext
<1>11. f \in Reach(Roots', graph')
  BY <1>1, <1>5, <1>6, <1>10, ReachedNext
<1>12. Ask(NewBoundMethod(o, f), 1, "push") /\ o = evalstack'[Len(evalstack')]
  BY <1>1, <1>2, <1>3, <1>6
<1> QED
  BY <1>1, <1>5, <1>6, <1>7, <1>11, <1>12, BoundMethodAsked

(* A call of a class, which takes the place of the callee, keeps the       *)
(* invariant.                                                              *)
LEMMA CallClassInv ==
  ASSUME ClassesInv, Ready, NEW n \in Arities, Operands > n, NEW v, CallClass(v, n),
         UNCHANGED <<globals, heap, declaring>>
  PROVE  ClassesInv'
<1>1. /\ frames # <<>> /\ n \in Nat /\ Is(v, "CLASS") /\ UNCHANGED frames /\ declaring = NotDeclaring
      /\ evalstack' = PutCallee(n, v) /\ Ask(NewInstance(v), n, "construct")
  BY ClassesAssumption DEF CallClass, Ready
<1>2. v \in Live /\ v # Nil /\ v \in Obj /\ v \in DOMAIN heap
  BY <1>1, ClassesAssumption DEF Is, Live, ClassesInv, TypeOK
<1>3. /\ evalstack' \in Seq(Live) /\ Len(evalstack') = stack_top /\ evalstack'[stack_top - n] = v
      /\ \A p \in 1..stack_top : p # stack_top - n => evalstack'[p] = evalstack[p]
      /\ stack_top - n \in (current_frame.slots + 1)..stack_top /\ stack_top - n \in 1..stack_top
  BY <1>1, <1>2, CalleePut
<1>4. current_frame.slots \in 1..stack_top /\ stack_top \in Nat
  BY <1>1, CurrentFrame DEF ClassesInv
<1>5. ASSUME NEW p \in 1..current_frame.slots PROVE evalstack'[p] = evalstack[p]
  <2>1. p \in 1..stack_top /\ p # stack_top - n
    BY <1>3, <1>4
  <2> QED
    BY <1>3, <2>1
<1>6. PICK x : x = NewInstance(v)
  OBVIOUS
<1>7. x.kind = "INSTANCE" /\ x.class = v /\ x.fields = EmptyTable /\ x \in ObjectType
  <2>1. x.kind = "INSTANCE" /\ x.class = v /\ x.fields = EmptyTable
    BY <1>6 DEF NewInstance
  <2> QED
    BY <1>2, <1>6, <2>1, NewObjects
<1>8. DOMAIN x.fields = {} /\ Range(x.fields) = {}
  BY <1>7 DEF EmptyTable, Range
<1>9. Sound(x)'
  <2>1. Sound(x)
    BY <1>1, <1>7, <1>8 DEF Sound
  <2> QED
    BY <1>7, <2>1, SoundSame
<1>10. /\ request' \in [then : {"push", "define", "construct"}, object : ObjectType,
                        pops : Nat, collected : BOOLEAN]
       /\ request'.then = "construct" /\ request'.object = x /\ request'.pops = n
       /\ request' # NoRequest /\ Held' = RefsOf(x)
  BY <1>1, <1>6, <1>7, Asked
<1>11. Held' \subseteq Reach(Roots', graph')
  <2>1. v \in Reach(Roots', graph')
    BY <1>2, <1>3, ReachedNext
  <2> QED
    BY <1>7, <1>8, <1>10, <2>1, RefsOfEach
<1>12. RequestFits'
  <2>1. Operands' > n /\ Peek(n)' = v
    BY <1>1, <1>3, <1>4 DEF Operands, current_frame, stack_top, Peek
  <2>2. Sound(request.object)'
    BY <1>9, <1>10
  <2>3. (Peek(request.pops))' = v
    BY <1>10, <2>1 DEF Peek
  <2>4. frames' # <<>> /\ declaring' = NotDeclaring
    BY <1>1
  <2> QED
    BY <1>7, <1>10, <1>11, <2>1, <2>2, <2>3, <2>4 DEF RequestFits
<1>13. DeclarationFits'
  BY <1>1 DEF DeclarationFits, NotDeclaring
<1>14. current_frame.slots <= Len(evalstack')
  BY <1>3, <1>4
<1> QED
  BY <1>1, <1>3, <1>5, <1>12, <1>13, <1>14, OperandStep

(* CALL and INVOKE of a field keep the invariant.                          *)
LEMMA CallsInv ==
  ASSUME ClassesInv, NEW n \in Arities, Call(n) \/ \E name \in Names : InvokeField(n, name)
  PROVE  ClassesInv'
<1>1. Ready /\ Operands > n /\ UNCHANGED <<globals, heap, declaring>>
  BY DEF Call, InvokeField
<1>2. \E v : CallBound(v, n) \/ CallClass(v, n)
  BY DEF Call, InvokeField, CallValue
<1> QED
  BY <1>1, <1>2, CallBoundInv, CallClassInv

-----------------------------------------------------------------------------
(* Class declarations *)

(* A declaration in progress.                                              *)
LEMMA Declaring ==
  ASSUME ClassesInv, declaring.stage \in {"header", "body", "method"}
  PROVE  /\ declaring \in [stage : {"header", "body", "method"}, var : Globals, super : Value,
                           name : Names \cup {Nil}]
         /\ frames # <<>>
         /\ declaring.stage = "header" => Operands = 0 /\ declaring.super = Nil /\ declaring.name = Nil
         /\ declaring.stage = "body" => request = NoRequest
         /\ declaring.stage = "method" => declaring.name \in Names
         /\ request = NoRequest \/ declaring.stage # "header" =>
              ClassOpen(globals[declaring.var],
                        IF declaring.stage = "method" /\ request = NoRequest THEN 1 ELSE 0)
         /\ declaring.stage = "method" /\ request = NoRequest =>
              Is(Peek(0), "CLOSURE") /\ heap[Peek(0)].is_init = (declaring.name = init)
<1>1. declaring # NotDeclaring
  BY DEF NotDeclaring
<1> QED
  BY <1>1 DEF ClassesInv, DeclarationFits

(* CLASS keeps the invariant.                                              *)
LEMMA DeclareClassInv ==
  ASSUME ClassesInv, NEW g \in Globals, DeclareClass(g)
  PROVE  ClassesInv'
<1>1. /\ frames # <<>> /\ Operands = 0 /\ Ask(NewClass, 0, "define")
      /\ declaring' = [NotDeclaring EXCEPT !.stage = "header", !.var = g]
      /\ UNCHANGED <<evalstack, frames, globals, heap>>
  BY DEF DeclareClass, Ready
<1>2. declaring' = [stage |-> "header", var |-> g, super |-> Nil, name |-> Nil]
  BY <1>1 DEF NotDeclaring
<1>3. /\ request' \in [then : {"push", "define", "construct"}, object : ObjectType,
                       pops : Nat, collected : BOOLEAN]
      /\ request'.then = "define" /\ request'.object = NewClass /\ request'.pops = 0
      /\ request' # NoRequest /\ Held' = {}
  BY <1>1, NewObjects, Asked
<1>4. Operands' = 0 /\ frames' # <<>>
  BY <1>1 DEF Operands, current_frame, stack_top
<1>5. DeclarationFits'
  BY <1>2, <1>3, <1>4 DEF DeclarationFits, Value
<1>6. RequestFits'
  <2>1. NewClass.kind = "CLASS" /\ DOMAIN NewClass.methods = {} /\ NewClass.init_method = Nil
    BY DEF NewClass, EmptyTable
  <2>2. Sound(NewClass)'
    BY <2>1 DEF Sound
  <2>3. Sound(request.object)'
    BY <1>3, <2>2
  <2>4. declaring'.stage = "header"
    BY <1>2
  <2> QED
    BY <1>3, <1>4, <2>3, <2>4 DEF RequestFits
<1>7. evalstack' \in Seq(Live) /\ current_frame.slots <= Len(evalstack')
  BY <1>1, OperandTypes, CurrentFrame DEF ClassesInv, stack_top
<1> QED
  BY <1>1, <1>5, <1>6, <1>7, OperandStep

(* A class without a superclass is loaded for its methods.                 *)
LEMMA NoSuperclassInv ==
  ASSUME ClassesInv, NoSuperclass
  PROVE  ClassesInv'
<1>1. /\ declaring.stage = "header" /\ request = NoRequest
      /\ evalstack' = Append(evalstack, globals[declaring.var])
      /\ declaring' = [declaring EXCEPT !.stage = "body"]
      /\ UNCHANGED <<frames, globals, heap, request>>
  BY DEF NoSuperclass
<1>2. PICK c : c = globals[declaring.var]
  OBVIOUS
<1>3. /\ declaring \in [stage : {"header", "body", "method"}, var : Globals, super : Value,
                        name : Names \cup {Nil}]
      /\ frames # <<>> /\ Operands = 0 /\ declaring.super = Nil /\ ClassOpen(c, 0)
  BY <1>1, <1>2, Declaring
<1>4. Is(c, "CLASS") /\ c \in Live
  BY <1>3 DEF ClassOpen, Is, Live
<1>5. /\ declaring' \in [stage : {"header", "body", "method"}, var : Globals, super : Value,
                         name : Names \cup {Nil}]
      /\ declaring'.stage = "body" /\ declaring'.super = Nil /\ declaring'.var = declaring.var
  BY <1>1, <1>3
<1>6. /\ evalstack' \in Seq(Live) /\ Len(evalstack') = stack_top + 1 /\ evalstack'[stack_top + 1] = c
      /\ current_frame.slots <= Len(evalstack')
      /\ \A p \in 1..current_frame.slots : evalstack'[p] = evalstack[p]
  BY <1>1, <1>2, <1>3, <1>4, Pushed
<1>7. Peek(0)' = c /\ Operands' = 1
  BY <1>1, <1>3, <1>6, CurrentFrame DEF Peek, Operands, current_frame, stack_top, ClassesInv
<1>8. ClassOpen(c, 0)'
  <2>1. Is(c, "CLASS")'
    BY <1>1, <1>4 DEF Is
  <2>2. \A o \in DOMAIN heap' : /\ heap'[o].kind = "INSTANCE" => heap'[o].class # c
                                /\ heap'[o].kind = "CLOSURE" => heap'[o].super # c
    BY <1>1, <1>3 DEF ClassOpen
  <2> QED
    BY <1>5, <1>7, <2>1, <2>2 DEF ClassOpen
<1>9. globals'[declaring'.var] = c /\ frames' # <<>> /\ request' = NoRequest
  BY <1>1, <1>2, <1>3, <1>5
<1>10. DeclarationFits'
  <2>1. ClassOpen(globals[declaring.var], 0)'
    BY <1>8, <1>9
  <2> QED
    BY <1>5, <1>9, <2>1 DEF DeclarationFits
<1>11. RequestFits'
  BY <1>9 DEF RequestFits
<1> QED
  BY <1>1, <1>3, <1>6, <1>10, <1>11, OperandStep

(* CLOSURE of a method keeps the invariant.                                *)
LEMMA MethodClosureInv ==
  ASSUME ClassesInv, NEW k \in Arities, NEW n \in Names, MethodClosure(n, k)
  PROVE  ClassesInv'
<1>1. /\ declaring.stage = "body" /\ declaring' = [declaring EXCEPT !.stage = "method", !.name = n]
      /\ UNCHANGED <<evalstack, frames, globals, heap>>
  BY DEF MethodClosure
<1>2. PICK s \in {Nil, declaring.super} : Ask(NewClosure(n = init, k, s), 0, "push")
  BY DEF MethodClosure
<1>3. PICK c : c = globals[declaring.var]
  OBVIOUS
<1>4. /\ declaring \in [stage : {"header", "body", "method"}, var : Globals, super : Value,
                        name : Names \cup {Nil}]
      /\ frames # <<>> /\ ClassOpen(c, 0)
  BY <1>1, <1>3, Declaring
<1>5. /\ declaring' \in [stage : {"header", "body", "method"}, var : Globals, super : Value,
                         name : Names \cup {Nil}]
      /\ declaring'.stage = "method" /\ declaring'.super = declaring.super /\ declaring'.var = declaring.var
      /\ declaring'.name = n
  BY <1>1, <1>4
<1>6. /\ s \in Value
      /\ s # Nil => Is(s, "CLASS") /\ s = Peek(1) /\ Operands = 2
  <2>1. CASE s = Nil
    BY <2>1 DEF Value
  <2>2. CASE s # Nil
    BY <1>1, <1>2, <1>4, <2>2 DEF ClassOpen
  <2> QED
    BY <2>1, <2>2
<1>7. PICK x : x = NewClosure(n = init, k, s)
  OBVIOUS
<1>8. x.kind = "CLOSURE" /\ x.is_init = (n = init) /\ x.super = s
  BY <1>7, Zenon DEF NewClosure
<1>9. x \in ObjectType
  <2>1. (n = init) \in BOOLEAN
    OBVIOUS
  <2> QED
    BY <1>6, <1>7, <2>1, NewObjects
<1>10. Sound(x)'
  <2>1. Sound(x)
    BY <1>6, <1>8 DEF Sound
  <2> QED
    BY <1>1, <1>9, <2>1, SoundSame
<1>11. /\ request' \in [then : {"push", "define", "construct"}, object : ObjectType,
                        pops : Nat, collected : BOOLEAN]
       /\ request'.then = "push" /\ request'.object = x /\ request'.pops = 0
       /\ request' # NoRequest /\ Held' = RefsOf(x)
  BY <1>2, <1>7, <1>9, Asked
<1>12. evalstack' \in Seq(Live) /\ current_frame.slots <= Len(evalstack') /\ stack_top \in Nat
  BY <1>1, <1>4, OperandTypes, CurrentFrame DEF ClassesInv, stack_top
<1>13. Held' \subseteq Reach(Roots', graph')
  <2>1. ASSUME s # Nil PROVE s \in Reach(Roots', graph')
    <3>1. stack_top - 1 \in 1..stack_top
      BY <1>4, <1>6, <2>1, CurrentFrame DEF ClassesInv
    <3>2. stack_top - 1 \in 1..Len(evalstack') /\ evalstack'[stack_top - 1] = s
      BY <1>1, <1>6, <2>1, <3>1 DEF Peek, stack_top
    <3> QED
      BY <1>1, <1>12, <2>1, <3>2, ReachedNext
  <2> QED
    BY <1>8, <1>11, <2>1, RefsOfEach, ClassesAssumption
<1>14. RequestFits'
  <2>1. Sound(request.object)'
    BY <1>10, <1>11
  <2>2. request'.object.is_init = (declaring'.name = init)
    BY <1>5, <1>8, <1>11, Zenon
  <2>3. request'.object.kind = "CLOSURE" /\ request'.object.super \in {Nil, declaring'.super}
    BY <1>2, <1>5, <1>8, <1>11
  <2>4. frames' # <<>>
    BY <1>1, <1>4
  <2> QED
    BY <1>5, <1>11, <1>13, <2>1, <2>2, <2>3, <2>4 DEF RequestFits
<1>15. ClassOpen(c, 0)'
  <2>1. Is(c, "CLASS")' /\ (Is(declaring.super, "CLASS") => Is(declaring.super, "CLASS")')
    BY <1>1, <1>4, <1>5 DEF ClassOpen, Is
  <2>2. \A o \in DOMAIN heap' : /\ heap'[o].kind = "INSTANCE" => heap'[o].class # c
                                /\ heap'[o].kind = "CLOSURE" => heap'[o].super # c
    BY <1>1, <1>4 DEF ClassOpen
  <2>3. /\ Peek(0) = c /\ Operands = 0 + IF declaring.super = Nil THEN 1 ELSE 2
        /\ declaring.super # Nil =>
             Peek(0 + 1) = declaring.super /\ Is(declaring.super, "CLASS") /\ declaring.super # c
    BY <1>1, <1>4 DEF ClassOpen
  <2>4. Peek(0)' = Peek(0) /\ Peek(0 + 1)' = Peek(0 + 1) /\ Operands' = Operands
    BY <1>1 DEF Peek, Operands, current_frame, stack_top
  <2> QED
    BY <1>5, <2>1, <2>2, <2>3, <2>4 DEF ClassOpen
<1>16. DeclarationFits'
  <2>1. globals'[declaring'.var] = c /\ frames' # <<>>
    BY <1>1, <1>3, <1>4, <1>5
  <2>2. ClassOpen(globals[declaring.var], 0)'
    BY <1>15, <2>1
  <2> QED
    BY <1>5, <1>11, <2>1, <2>2 DEF DeclarationFits
<1> QED
  BY <1>1, <1>4, <1>12, <1>14, <1>16, OperandStep

(* The class, and super, leave the stack at the end of the declaration.    *)
LEMMA EndClassInv ==
  ASSUME ClassesInv, EndClass
  PROVE  ClassesInv'
<1>1. /\ declaring.stage = "body" /\ declaring' = NotDeclaring
      /\ evalstack' = Pop(IF declaring.super = Nil THEN 1 ELSE 2)
      /\ UNCHANGED <<frames, globals, heap, request>>
  BY DEF EndClass
<1>2. /\ frames # <<>> /\ request = NoRequest /\ ClassOpen(globals[declaring.var], 0)
  BY <1>1, Declaring
<1>3. PICK n \in Nat : n = IF declaring.super = Nil THEN 1 ELSE 2
  OBVIOUS
<1>4. n <= Operands /\ Nil \in Live
  BY <1>1, <1>2, <1>3 DEF ClassOpen, Live
<1>5. /\ evalstack' \in Seq(Live) /\ current_frame.slots <= Len(evalstack')
      /\ \A p \in 1..current_frame.slots : evalstack'[p] = evalstack[p]
  BY <1>1, <1>2, <1>3, <1>4, Popped
<1>6. RequestFits' /\ DeclarationFits'
  BY <1>1, <1>2 DEF RequestFits, DeclarationFits
<1> QED
  BY <1>1, <1>2, <1>5, <1>6, OperandStep

-----------------------------------------------------------------------------
(* Instructions that change an object *)

(* A step that keeps what the roots point to, with an allocation and a     *)
(* declaration as they should be.                                          *)
LEMMA HeapStep ==
  ASSUME ClassesInv, frames # <<>>, UNCHANGED frames, NEW D, Keeps(D), Roots \subseteq D,
         DOMAIN heap' \subseteq Obj, \A o \in DOMAIN heap' : heap'[o] \in ObjectType, ObjectsSound',
         globals' \in [Globals -> Live'], evalstack' \in Seq(Live'),
         current_frame.slots <= Len(evalstack'),
         \A p \in 1..current_frame.slots : evalstack'[p] = evalstack[p],
         RequestFits', DeclarationFits'
  PROVE  ClassesInv'
<1>1. Live' \subseteq Value
  BY DEF Live, Value
<1>2. evalstack' \in Seq(Value) /\ globals' \in [Globals -> Value]
  BY <1>1
<1>3. /\ ThisFitsMethod' /\ ConstructorsFit' /\ FramesAscend'
      /\ \A j \in 1..Len(frames') : frames'[j].slots <= Len(evalstack')
  BY <1>2, FramesSame
<1>4. TypeOK'
  BY <1>2, <1>3, StagesTyped DEF ClassesInv, TypeOK, stack_top
<1>5. \A j \in 1..Len(frames') : frames'[j].closure \in Live'
  <2>1. ASSUME NEW j \in 1..Len(frames) PROVE frames[j].closure \in Live'
    BY RootsAre DEF ClassesInv, Keeps, Live
  <2> QED
    BY <2>1
<1>6. RootsExist'
  BY <1>5 DEF RootsExist
<1> QED
  BY <1>3, <1>4, <1>6 DEF ClassesInv

(* One object is replaced by x, which is sound.                            *)
LEMMA ObjectReplaced ==
  ASSUME ClassesInv, NEW o \in DOMAIN heap, NEW x \in ObjectType, heap' = [heap EXCEPT ![o] = x],
         Keeps(DOMAIN heap), Sound(x)'
  PROVE  /\ DOMAIN heap' = DOMAIN heap /\ heap'[o] = x /\ Live' = Live /\ ObjectsSound'
         /\ DOMAIN heap' \subseteq Obj /\ Roots \subseteq DOMAIN heap
         /\ \A y \in DOMAIN heap' : heap'[y] \in ObjectType
         /\ \A y \in DOMAIN heap : y # o => heap'[y] = heap[y]
<1>1. /\ DOMAIN heap' = DOMAIN heap /\ heap'[o] = x
      /\ \A y \in DOMAIN heap : y # o => heap'[y] = heap[y]
  OBVIOUS
<1>2. DOMAIN heap \subseteq Obj /\ \A y \in DOMAIN heap : heap[y] \in ObjectType
  BY DEF ClassesInv, TypeOK
<1>3. ASSUME NEW y \in DOMAIN heap PROVE Sound(heap[y])'
  <2>1. CASE y = o
    BY <1>1, <2>1
  <2>2. CASE y # o
    <3>1. PICK z : z = heap[y]
      OBVIOUS
    <3>2. Sound(z)'
      BY <3>1, SoundMembers, SoundKept DEF ClassesInv, Keeps
    <3>3. heap'[y] = z
      BY <1>1, <2>2, <3>1
    <3> QED
      BY <3>2, <3>3
  <2> QED
    BY <2>1, <2>2
<1> QED
  BY <1>1, <1>2, <1>3, RootsAre DEF ObjectsSound, Live, ClassesInv

(* An instance gets other fields, whose values exist.                      *)
LEMMA FieldsChanged ==
  ASSUME ClassesInv, Ready, NEW o, Is(o, "INSTANCE"), NEW t \in Table(Value),
         \A n \in DOMAIN t : t[n] \in Live,
         heap' = [heap EXCEPT ![o].fields = t],
         NEW n \in Nat, n <= Operands, NEW v \in Live, evalstack' = Append(Pop(n), v),
         UNCHANGED <<frames, globals, request, declaring>>
  PROVE  ClassesInv'
<1>1. frames # <<>> /\ request = NoRequest /\ declaring = NotDeclaring
  BY DEF Ready
<1>2. o \in DOMAIN heap /\ heap[o].kind = "INSTANCE"
  BY DEF Is
<1>3. PICK x : x = [heap[o] EXCEPT !.fields = t]
  OBVIOUS
<1>4. /\ x.kind = "INSTANCE" /\ x.class = heap[o].class /\ x.fields = t
      /\ x \in [kind : {"INSTANCE"}, class : Obj, fields : Table(Value)]
  <2>1. heap[o] \in [kind : {"INSTANCE"}, class : Obj, fields : Table(Value)]
    BY <1>2, Members DEF ClassesInv, TypeOK
  <2> QED
    BY <1>3, <2>1
<1>5. x \in ObjectType
  BY <1>4 DEF ObjectType
<1>6. heap' = [heap EXCEPT ![o] = x]
  BY <1>2, <1>3
<1>7. /\ DOMAIN heap' = DOMAIN heap /\ heap'[o] = x
      /\ \A y \in DOMAIN heap : y # o => heap'[y] = heap[y]
  BY <1>2, <1>6
<1>8. \A y \in DOMAIN heap : /\ RefsOf(heap[y]) \subseteq DOMAIN heap
                             /\ heap[y].kind = "CLOSURE" /\ heap[y].super # Nil => Is(heap[y].super, "CLASS")
                             /\ heap[y].kind = "INSTANCE" => Is(heap[y].class, "CLASS")
  BY SoundMembers, SoundRefs DEF ClassesInv
<1>9. \A y \in DOMAIN heap : heap[y].kind = "CLASS" => heap'[y] = heap[y]
  BY <1>2, <1>7
<1>10. Keeps(DOMAIN heap)
  <2>1. \A y \in DOMAIN heap : heap'[y].kind = heap[y].kind
    BY <1>2, <1>4, <1>7
  <2>2. \A y \in DOMAIN heap : heap[y].kind = "CLOSURE" =>
          /\ heap'[y] = heap[y]
          /\ heap[y].super # Nil => heap'[heap[y].super].methods = heap[heap[y].super].methods
    BY <1>2, <1>7, <1>8, <1>9 DEF Is
  <2>3. \A y \in DOMAIN heap : heap[y].kind = "INSTANCE" =>
          /\ heap'[y].class = heap[y].class
          /\ heap'[heap[y].class].methods = heap[heap[y].class].methods
    BY <1>2, <1>4, <1>7, <1>8, <1>9 DEF Is
  <2> QED
    BY <1>7, <1>8, <2>1, <2>2, <2>3 DEF Keeps
<1>11. Sound(x)'
  <2>1. Is(x.class, "CLASS")'
    BY <1>2, <1>4, <1>7, <1>8, <1>9 DEF Is
  <2>2. \A i \in DOMAIN x.fields : x.fields[i] \in Live'
    BY <1>4, <1>7 DEF Live
  <2> QED
    BY <1>4, <2>1, <2>2 DEF Sound
<1>12. /\ Live' = Live /\ ObjectsSound' /\ DOMAIN heap' \subseteq Obj /\ Roots \subseteq DOMAIN heap
       /\ \A y \in DOMAIN heap' : heap'[y] \in ObjectType
  BY <1>2, <1>5, <1>6, <1>10, <1>11, ObjectReplaced
<1>13. /\ evalstack' \in Seq(Live) /\ current_frame.slots <= Len(evalstack')
       /\ \A p \in 1..current_frame.slots : evalstack'[p] = evalstack[p]
  BY <1>1, Popped
<1>14. RequestFits' /\ DeclarationFits'
  BY <1>1 DEF RequestFits, DeclarationFits
<1>15. globals' \in [Globals -> Live'] /\ evalstack' \in Seq(Live')
  BY <1>12, <1>13 DEF ClassesInv, RootsExist
<1> QED
  BY <1>1, <1>10, <1>12, <1>13, <1>14, <1>15, HeapStep

(* A table with one more entry.                                            *)
LEMMA TableExtended ==
  ASSUME NEW V, NEW t \in Table(V), NEW n \in Names, NEW v \in V
  PROVE  With(t, n, v) \in Table(V)
<1>1. PICK E \in SUBSET Names : t \in [E -> V]
  BY DEF Table
<1>2. With(t, n, v) \in [E \cup {n} -> V]
  BY <1>1 DEF With
<1>3. E \cup {n} \in SUBSET Names
  OBVIOUS
<1> QED
  BY <1>2, <1>3 DEF Table

(* STORE_PROPERTY and set_property() keep the invariant.                   *)
LEMMA StorePropertyInv ==
  ASSUME ClassesInv, NEW n \in FieldNames, StoreProperty(n)
  PROVE  ClassesInv'
<1>1. /\ Ready /\ frames # <<>> /\ Operands > 1 /\ Is(Peek(1), "INSTANCE")
      /\ UNCHANGED <<frames, globals, request, declaring>> /\ n \in Names
  BY ClassesAssumption DEF StoreProperty, Ready
<1>2. PICK o : o = Peek(1)
  OBVIOUS
<1>3. PICK w \in Live : w = Peek(0)
  BY <1>1, OperandTypes, CurrentFrame DEF ClassesInv
<1>4. PICK v \in Live : evalstack' = Append(Pop(2), v)
  BY <1>3 DEF StoreProperty, Live
<1>5. heap[o].fields \in Table(Value) /\ \A i \in DOMAIN heap[o].fields : heap[o].fields[i] \in Live
  <2>1. o \in DOMAIN heap /\ heap[o].kind = "INSTANCE"
    BY <1>1, <1>2 DEF Is
  <2>2. heap[o] \in [kind : {"INSTANCE"}, class : Obj, fields : Table(Value)]
    BY <2>1, Members DEF ClassesInv, TypeOK
  <2> QED
    BY <2>1, <2>2, SoundMembers DEF Sound, ClassesInv
<1>6. w \in Value
  BY <1>3, LiveValues DEF ClassesInv
<1>7. PICK t : t = With(heap[o].fields, n, w)
  OBVIOUS
<1>8. t \in Table(Value)
  BY <1>1, <1>5, <1>6, <1>7, TableExtended
<1>9. \A i \in DOMAIN t : t[i] \in Live
  BY <1>3, <1>5, <1>7 DEF With
<1>10. heap' = [heap EXCEPT ![o].fields = t]
  BY <1>2, <1>3, <1>7 DEF StoreProperty
<1>11. 2 \in Nat /\ 2 <= Operands
  BY <1>1, CurrentFrame DEF ClassesInv
<1> QED
  BY <1>1, <1>2, <1>4, <1>8, <1>9, <1>10, <1>11, FieldsChanged

(* del_property() keeps the invariant.                                     *)
LEMMA DelPropertyInv ==
  ASSUME ClassesInv, NEW n \in FieldNames, DelProperty(n)
  PROVE  ClassesInv'
<1>1. /\ Ready /\ frames # <<>> /\ Operands > 0 /\ Is(Peek(0), "INSTANCE")
      /\ evalstack' = Append(Pop(1), Nil) /\ UNCHANGED <<frames, globals, request, declaring>>
  BY DEF DelProperty, Ready
<1>2. PICK o : o = Peek(0)
  OBVIOUS
<1>3. heap[o].fields \in Table(Value) /\ \A i \in DOMAIN heap[o].fields : heap[o].fields[i] \in Live
  <2>1. o \in DOMAIN heap /\ heap[o].kind = "INSTANCE"
    BY <1>1, <1>2 DEF Is
  <2>2. heap[o] \in [kind : {"INSTANCE"}, class : Obj, fields : Table(Value)]
    BY <2>1, Members DEF ClassesInv, TypeOK
  <2> QED
    BY <2>1, <2>2, SoundMembers DEF Sound, ClassesInv
<1>4. PICK t : t = Restrict(heap[o].fields, DOMAIN heap[o].fields \ {n})
  OBVIOUS
<1>5. /\ DOMAIN t = DOMAIN heap[o].fields \ {n} /\ \A i \in DOMAIN t : t[i] = heap[o].fields[i]
  BY <1>4 DEF Restrict
<1>6. t \in Table(Value)
  <2>1. PICK E \in SUBSET Names : heap[o].fields \in [E -> Value]
    BY <1>3 DEF Table
  <2>2. t \in [E \ {n} -> Value] /\ E \ {n} \in SUBSET Names
    BY <1>4, <2>1 DEF Restrict
  <2> QED
    BY <2>2 DEF Table
<1>7. \A i \in DOMAIN t : t[i] \in Live
  BY <1>3, <1>5
<1>8. heap' = [heap EXCEPT ![o].fields = t]
  BY <1>2, <1>4 DEF DelProperty
<1>9. 1 \in Nat /\ 1 <= Operands /\ Nil \in Live
  BY <1>1, CurrentFrame DEF ClassesInv, Live
<1> QED
  BY <1>1, <1>2, <1>6, <1>7, <1>8, <1>9, FieldsChanged

(* The table of a class that has no instances and is no superclass         *)
(* changes.                                                                *)
LEMMA ClassChanged ==
  ASSUME ClassesInv, NEW c, Is(c, "CLASS"),
         \A o \in DOMAIN heap : /\ heap[o].kind = "INSTANCE" => heap[o].class # c
                                /\ heap[o].kind = "CLOSURE" => heap[o].super # c,
         NEW x \in ObjectType, x.kind = "CLASS", heap' = [heap EXCEPT ![c] = x],
         \A n \in DOMAIN x.methods : Is(x.methods[n], "CLOSURE"),
         x.init_method # Nil => /\ init \in DOMAIN x.methods /\ x.init_method = x.methods[init]
                                /\ heap[x.init_method].is_init
  PROVE  /\ Keeps(DOMAIN heap) /\ Roots \subseteq DOMAIN heap
         /\ DOMAIN heap' = DOMAIN heap /\ Live' = Live /\ ObjectsSound' /\ DOMAIN heap' \subseteq Obj
         /\ \A y \in DOMAIN heap' : heap'[y] \in ObjectType
         /\ \A y \in DOMAIN heap : heap'[y].kind = heap[y].kind
         /\ \A y \in DOMAIN heap : y # c => heap'[y] = heap[y]
<1>1. c \in DOMAIN heap /\ heap[c].kind = "CLASS"
  BY DEF Is
<1>2. /\ DOMAIN heap' = DOMAIN heap /\ heap'[c] = x
      /\ \A y \in DOMAIN heap : y # c => heap'[y] = heap[y]
  BY <1>1
<1>3. \A y \in DOMAIN heap : /\ RefsOf(heap[y]) \subseteq DOMAIN heap
                             /\ heap[y].kind = "CLOSURE" /\ heap[y].super # Nil => Is(heap[y].super, "CLASS")
                             /\ heap[y].kind = "INSTANCE" => Is(heap[y].class, "CLASS")
  BY SoundMembers, SoundRefs DEF ClassesInv
<1>4. \A y \in DOMAIN heap : heap'[y].kind = heap[y].kind
  BY <1>1, <1>2
<1>5. Keeps(DOMAIN heap)
  <2>1. \A y \in DOMAIN heap : heap[y].kind = "CLOSURE" =>
          /\ heap'[y] = heap[y]
          /\ heap[y].super # Nil => heap'[heap[y].super].methods = heap[heap[y].super].methods
    BY <1>1, <1>2, <1>3 DEF Is
  <2>2. \A y \in DOMAIN heap : heap[y].kind = "INSTANCE" =>
          /\ heap'[y].class = heap[y].class
          /\ heap'[heap[y].class].methods = heap[heap[y].class].methods
    BY <1>1, <1>2, <1>3 DEF Is
  <2> QED
    BY <1>2, <1>3, <1>4, <2>1, <2>2 DEF Keeps
<1>6. Sound(x)'
  <2>1. \A n \in DOMAIN x.methods : Is(x.methods[n], "CLOSURE")'
    BY <1>2, <1>4 DEF Is
  <2>2. ASSUME x.init_method # Nil PROVE heap'[x.init_method].is_init
    <3>1. Is(x.init_method, "CLOSURE") /\ heap[x.init_method].is_init
      BY <2>2
    <3> QED
      BY <1>1, <1>2, <3>1 DEF Is
  <2> QED
    BY <2>1, <2>2 DEF Sound
<1> QED
  BY <1>1, <1>2, <1>4, <1>5, <1>6, ObjectReplaced

(* INHERIT keeps the invariant: the class that gets the methods of its     *)
(* superclass is new.                                                      *)
LEMMA InheritInv ==
  ASSUME ClassesInv, Inherit
  PROVE  ClassesInv'
<1>1. declaring.stage = "header" /\ request = NoRequest /\ Superclass[declaring.var] # Nil /\ UNCHANGED globals
  BY DEF Inherit
<1>2. PICK c : c = globals[declaring.var]
  OBVIOUS
<1>3. PICK s : s = globals[Superclass[declaring.var]]
  OBVIOUS
<1>4. \/ /\ Is(s, "CLASS") /\ heap' = Inherited(c, s) /\ evalstack' = evalstack \o <<s, c>>
         /\ declaring' = [declaring EXCEPT !.stage = "body", !.super = s]
         /\ UNCHANGED <<frames, request>>
      \/ Abort /\ UNCHANGED heap
  BY <1>2, <1>3 DEF Inherit
<1>5. CASE Abort /\ UNCHANGED heap
  BY <1>1, <1>5, Emptied DEF Abort
<1>6. CASE /\ Is(s, "CLASS") /\ heap' = Inherited(c, s) /\ evalstack' = evalstack \o <<s, c>>
           /\ declaring' = [declaring EXCEPT !.stage = "body", !.super = s]
           /\ UNCHANGED <<frames, request>>
  <2>1. /\ declaring \in [stage : {"header", "body", "method"}, var : Globals, super : Value,
                          name : Names \cup {Nil}]
        /\ frames # <<>> /\ Operands = 0 /\ ClassOpen(c, 0)
    BY <1>1, <1>2, Declaring
  <2>2. /\ Is(c, "CLASS") /\ heap[c] = NewClass
        /\ \A o \in DOMAIN heap : /\ heap[o].kind = "INSTANCE" => heap[o].class # c
                                  /\ heap[o].kind = "CLOSURE" => heap[o].super # c
        /\ \A g \in Globals \ {declaring.var} : globals[g] # c
    BY <1>1, <2>1 DEF ClassOpen
  <2>3. s # c /\ s # Nil /\ s \in Value /\ s \in Live /\ c \in Live
    <3>1. Superclass[declaring.var] \in Globals \ {declaring.var}
      BY <1>1, <2>1, ClassesAssumption
    <3>2. s \in DOMAIN heap /\ c \in DOMAIN heap
      BY <1>6, <2>2 DEF Is
    <3> QED
      BY <1>3, <2>2, <3>1, <3>2, ClassesAssumption DEF ClassesInv, TypeOK, Value, Live
  <2>4. PICK x : x = [NewClass EXCEPT !.methods = heap[s].methods]
    OBVIOUS
  <2>5. x = [kind |-> "CLASS", methods |-> heap[s].methods, init_method |-> Nil]
    BY <2>4 DEF NewClass
  <2>6. s \in DOMAIN heap /\ heap[s].kind = "CLASS"
    BY <1>6 DEF Is
  <2>7. x \in ObjectType /\ x.kind = "CLASS" /\ x.init_method = Nil /\ x.methods = heap[s].methods
    <3>1. heap[s] \in [kind : {"CLASS"}, methods : Table(Obj), init_method : Value]
      BY <2>6, Members DEF ClassesInv, TypeOK
    <3> QED
      BY <2>5, <3>1 DEF ObjectType, Value
  <2>8. \A n \in DOMAIN x.methods : Is(x.methods[n], "CLOSURE")
    BY <2>6, <2>7, SoundMembers DEF Sound, ClassesInv
  <2>9. heap' = [heap EXCEPT ![c] = x]
    <3>1. heap' = [heap EXCEPT ![c].methods = heap[s].methods]
      BY <1>6 DEF Inherited, Methods
    <3>2. heap' = [heap EXCEPT ![c] = [heap[c] EXCEPT !.methods = heap[s].methods]]
      BY <2>2, <3>1 DEF Is
    <3> QED
      BY <2>2, <2>4, <3>2
  <2>10. /\ Keeps(DOMAIN heap) /\ Roots \subseteq DOMAIN heap
         /\ DOMAIN heap' = DOMAIN heap /\ Live' = Live /\ ObjectsSound' /\ DOMAIN heap' \subseteq Obj
         /\ \A y \in DOMAIN heap' : heap'[y] \in ObjectType
         /\ \A y \in DOMAIN heap : heap'[y].kind = heap[y].kind
         /\ \A y \in DOMAIN heap : y # c => heap'[y] = heap[y]
    BY <2>2, <2>7, <2>8, <2>9, ClassChanged
  <2>11. /\ declaring' \in [stage : {"header", "body", "method"}, var : Globals, super : Value,
                            name : Names \cup {Nil}]
         /\ declaring'.stage = "body" /\ declaring'.super = s /\ declaring'.var = declaring.var
    BY <1>6, <2>1, <2>3
  <2>12. evalstack \in Seq(Live) /\ stack_top \in Nat /\ stack_top = Len(evalstack)
    BY <2>1, OperandTypes DEF stack_top
  <2>13. /\ evalstack' \in Seq(Live) /\ Len(evalstack') = stack_top + 2
         /\ evalstack'[stack_top + 1] = s /\ evalstack'[stack_top + 2] = c
         /\ \A p \in 1..stack_top : evalstack'[p] = evalstack[p]
    <3>1. <<s, c>> \in Seq(Live) /\ Len(<<s, c>>) = 2 /\ <<s, c>>[1] = s /\ <<s, c>>[2] = c
      BY <2>3
    <3> QED
      BY <1>6, <2>12, <3>1
  <2>14. current_frame.slots \in 1..stack_top /\ Operands = stack_top - current_frame.slots
    BY <2>1, CurrentFrame DEF ClassesInv
  <2>15. /\ current_frame.slots <= Len(evalstack')
         /\ \A p \in 1..current_frame.slots : evalstack'[p] = evalstack[p]
    BY <2>12, <2>13, <2>14
  <2>16. Peek(0)' = c /\ Peek(0 + 1)' = s /\ Operands' = 2
    <3>1. stack_top' = stack_top + 2 /\ Operands' = stack_top' - current_frame.slots
      BY <1>6, <2>13 DEF stack_top, Operands, current_frame
    <3>2. Operands' = 2 /\ stack_top' - 0 = stack_top + 2 /\ stack_top' - (0 + 1) = stack_top + 1
      BY <2>1, <2>12, <2>14, <3>1
    <3> QED
      BY <2>13, <3>2 DEF Peek
  <2>17. ClassOpen(c, 0)'
    <3>1. Is(c, "CLASS")' /\ Is(declaring.super, "CLASS")'
      BY <1>6, <2>2, <2>10, <2>11 DEF Is
    <3>2. \A o \in DOMAIN heap' : /\ heap'[o].kind = "INSTANCE" => heap'[o].class # c
                                  /\ heap'[o].kind = "CLOSURE" => heap'[o].super # c
      BY <2>2, <2>10 DEF Is
    <3> QED
      BY <2>3, <2>11, <2>16, <3>1, <3>2 DEF ClassOpen
  <2>18. DeclarationFits'
    <3>1. globals'[declaring'.var] = c /\ frames' # <<>> /\ request' = NoRequest
      BY <1>1, <1>2, <1>6, <2>1, <2>11
    <3>2. ClassOpen(globals[declaring.var], 0)'
      BY <2>17, <3>1
    <3> QED
      BY <2>11, <3>1, <3>2 DEF DeclarationFits
  <2>19. RequestFits'
    BY <1>1, <1>6 DEF RequestFits
  <2>20. globals' \in [Globals -> Live'] /\ evalstack' \in Seq(Live')
    BY <1>1, <2>10, <2>13 DEF ClassesInv, RootsExist
  <2> QED
    BY <1>6, <2>1, <2>10, <2>15, <2>18, <2>19, <2>20, HeapStep
<1> QED
  BY <1>4, <1>5, <1>6

(* METHOD keeps the invariant: the class has no instances yet, so no call  *)
(* in progress is of a method that is replaced; an initializer is tabled   *)
(* and cached together.                                                    *)
LEMMA MethodInv ==
  ASSUME ClassesInv, Method
  PROVE  ClassesInv'
<1>1. /\ declaring.stage = "method" /\ request = NoRequest /\ evalstack' = Pop(1)
      /\ heap' = [heap EXCEPT ![Peek(1)] = WithMethod(@, declaring.name, Peek(0))]
      /\ declaring' = [declaring EXCEPT !.stage = "body", !.name = Nil]
      /\ UNCHANGED <<frames, globals, request>>
  BY DEF Method
<1>2. PICK c : c = globals[declaring.var]
  OBVIOUS
<1>3. PICK f : f = Peek(0)
  OBVIOUS
<1>4. PICK n : n = declaring.name
  OBVIOUS
<1>5. /\ declaring \in [stage : {"header", "body", "method"}, var : Globals, super : Value,
                        name : Names \cup {Nil}]
      /\ frames # <<>> /\ n \in Names /\ ClassOpen(c, 1)
      /\ Is(f, "CLOSURE") /\ heap[f].is_init = (n = init)
  BY <1>1, <1>2, <1>3, <1>4, Declaring
<1>6. /\ Is(c, "CLASS") /\ Peek(1) = c
      /\ \A o \in DOMAIN heap : /\ heap[o].kind = "INSTANCE" => heap[o].class # c
                                /\ heap[o].kind = "CLOSURE" => heap[o].super # c
      /\ Operands = 1 + IF declaring.super = Nil THEN 1 ELSE 2
      /\ declaring.super # Nil =>
           Peek(1 + 1) = declaring.super /\ Is(declaring.super, "CLASS") /\ declaring.super # c
  BY <1>1, <1>5 DEF ClassOpen
<1>7. PICK y : y = heap[c]
  OBVIOUS
<1>8. y \in [kind : {"CLASS"}, methods : Table(Obj), init_method : Value] /\ c \in DOMAIN heap
  BY <1>6, <1>7, Members DEF ClassesInv, TypeOK, Is
<1>9. PICK t : t = With(y.methods, n, f)
  OBVIOUS
<1>10. f \in Obj /\ f # Nil /\ f \in DOMAIN heap
  BY <1>5, ClassesAssumption DEF Is, ClassesInv, TypeOK
<1>11. t \in Table(Obj)
  BY <1>5, <1>8, <1>9, <1>10, TableExtended
<1>12. PICK x : x = WithMethod(y, n, f)
  OBVIOUS
<1>13. x = [kind |-> "CLASS", methods |-> t, init_method |-> IF n = init THEN f ELSE y.init_method]
  BY <1>8, <1>9, <1>12 DEF WithMethod
<1>14. /\ x \in ObjectType /\ x.kind = "CLASS" /\ x.methods = t
       /\ x.init_method = IF n = init THEN f ELSE y.init_method
  BY <1>8, <1>10, <1>11, <1>13 DEF ObjectType, Value
<1>15. heap' = [heap EXCEPT ![c] = x]
  BY <1>1, <1>3, <1>4, <1>6, <1>7, <1>8, <1>12
<1>16. DOMAIN t = DOMAIN y.methods \cup {n} /\ t[n] = f /\ \A i \in DOMAIN y.methods : i # n => t[i] = y.methods[i]
  BY <1>9 DEF With
<1>17. /\ \A i \in DOMAIN y.methods : Is(y.methods[i], "CLOSURE")
       /\ y.init_method # Nil => /\ init \in DOMAIN y.methods /\ y.init_method = y.methods[init]
                                 /\ heap[y.init_method].is_init
  BY <1>7, <1>8, SoundMembers DEF Sound, ClassesInv
<1>18. \A i \in DOMAIN x.methods : Is(x.methods[i], "CLOSURE")
  BY <1>5, <1>14, <1>16, <1>17
<1>19. x.init_method # Nil => /\ init \in DOMAIN x.methods /\ x.init_method = x.methods[init]
                              /\ heap[x.init_method].is_init
  <2>1. CASE n = init
    <3>1. heap[f].is_init
      BY <1>5, <2>1
    <3> QED
      BY <1>14, <1>16, <2>1, <3>1
  <2>2. CASE n # init
    BY <1>14, <1>16, <1>17, <2>2
  <2> QED
    BY <2>1, <2>2
<1>20. /\ Keeps(DOMAIN heap) /\ Roots \subseteq DOMAIN heap
       /\ DOMAIN heap' = DOMAIN heap /\ Live' = Live /\ ObjectsSound' /\ DOMAIN heap' \subseteq Obj
       /\ \A z \in DOMAIN heap' : heap'[z] \in ObjectType
       /\ \A z \in DOMAIN heap : heap'[z].kind = heap[z].kind
       /\ \A z \in DOMAIN heap : z # c => heap'[z] = heap[z]
  BY <1>6, <1>14, <1>15, <1>18, <1>19, ClassChanged
<1>21. /\ declaring' \in [stage : {"header", "body", "method"}, var : Globals, super : Value,
                          name : Names \cup {Nil}]
       /\ declaring'.stage = "body" /\ declaring'.super = declaring.super /\ declaring'.var = declaring.var
  BY <1>1, <1>5
<1>22. 1 \in Nat /\ 1 <= Operands /\ Nil \in Live
  BY <1>6 DEF Live
<1>23. /\ evalstack' \in Seq(Live) /\ Len(evalstack') = stack_top - 1
       /\ current_frame.slots <= Len(evalstack')
       /\ \A p \in 1..(stack_top - 1) : evalstack'[p] = evalstack[p]
       /\ \A p \in 1..current_frame.slots : evalstack'[p] = evalstack[p]
  BY <1>1, <1>5, <1>22, Popped
<1>24. current_frame.slots \in 1..stack_top /\ Operands = stack_top - current_frame.slots /\ stack_top \in Nat
  BY <1>5, CurrentFrame DEF ClassesInv
<1>25. /\ Peek(0)' = c /\ Operands' = 0 + IF declaring.super = Nil THEN 1 ELSE 2
       /\ declaring.super # Nil => Peek(0 + 1)' = declaring.super
  <2>1. stack_top' = stack_top - 1 /\ Operands' = stack_top' - current_frame.slots
    BY <1>1, <1>23 DEF stack_top, Operands, current_frame
  <2>2. /\ Operands' = 0 + IF declaring.super = Nil THEN 1 ELSE 2
        /\ stack_top' - 0 = stack_top - 1 /\ stack_top - 1 \in 1..(stack_top - 1)
        /\ stack_top' - (0 + 1) = stack_top - (1 + 1)
        /\ declaring.super # Nil => stack_top - (1 + 1) \in 1..(stack_top - 1)
    BY <1>6, <1>24, <2>1
  <2> QED
    BY <1>6, <1>23, <2>2 DEF Peek
<1>26. ClassOpen(c, 0)'
  <2>1. Is(c, "CLASS")' /\ (Is(declaring.super, "CLASS") => Is(declaring.super, "CLASS")')
    BY <1>6, <1>20, <1>21 DEF Is
  <2>2. \A o \in DOMAIN heap' : /\ heap'[o].kind = "INSTANCE" => heap'[o].class # c
                                /\ heap'[o].kind = "CLOSURE" => heap'[o].super # c
    BY <1>6, <1>20 DEF Is
  <2> QED
    BY <1>6, <1>21, <1>25, <2>1, <2>2 DEF ClassOpen
<1>27. DeclarationFits'
  <2>1. globals'[declaring'.var] = c /\ frames' # <<>> /\ request' = NoRequest
    BY <1>1, <1>2, <1>5, <1>21
  <2>2. ClassOpen(globals[declaring.var], 0)'
    BY <1>26, <2>1
  <2> QED
    BY <1>21, <2>1, <2>2 DEF DeclarationFits
<1>28. RequestFits'
  BY <1>1 DEF RequestFits
<1>29. globals' \in [Globals -> Live'] /\ evalstack' \in Seq(Live')
  BY <1>1, <1>20, <1>23 DEF ClassesInv, RootsExist
<1> QED
  BY <1>1, <1>5, <1>20, <1>23, <1>27, <1>28, <1>29, HeapStep

-----------------------------------------------------------------------------
(* Allocation *)

(* A collection keeps what can be reached and nothing else.                *)
LEMMA Collected ==
  ASSUME ClassesInv, Collect, NEW D, D = Reach(Roots, graph)
  PROVE  /\ D \subseteq DOMAIN heap /\ DOMAIN heap' = D /\ \A o \in D : heap'[o] = heap[o]
         /\ Keeps(D) /\ Roots \subseteq D
<1>1. DOMAIN graph = DOMAIN heap /\ \A o \in DOMAIN heap : graph[o] = RefsOf(heap[o])
  BY DEF graph
<1>2. D \subseteq DOMAIN heap
  BY <1>1 DEF Reach
<1>3. Roots \subseteq D
  BY <1>1, ReachRoots, RootsAre DEF ClassesInv
<1>4. heap' = Restrict(heap, D)
  <2>1. ASSUME NEW o \in DOMAIN heap PROVE Blacken(heap[o].kind, Pointers(heap[o])) = RefsOf(heap[o])
    BY SoundMembers, SoundBlackened DEF ClassesInv
  <2>2. [o \in DOMAIN heap |-> Blacken(heap[o].kind, Pointers(heap[o]))] = graph
    BY <2>1 DEF graph
  <2> QED
    BY <2>2 DEF Collect
<1>5. DOMAIN heap' = D /\ \A o \in D : heap'[o] = heap[o]
  BY <1>4 DEF Restrict
<1>6. \A o \in DOMAIN heap : /\ RefsOf(heap[o]) \subseteq DOMAIN heap
                             /\ heap[o].kind = "CLOSURE" /\ heap[o].super # Nil => heap[o].super \in RefsOf(heap[o])
                             /\ heap[o].kind = "INSTANCE" => heap[o].class \in RefsOf(heap[o])
  BY SoundMembers, SoundRefs DEF ClassesInv
<1>7. \A o \in D : RefsOf(heap[o]) \subseteq D
  <2>1. ASSUME NEW o \in D, NEW y \in RefsOf(heap[o]) PROVE y \in D
    BY <1>1, <1>2, <1>6, ReachStep
  <2> QED
    BY <2>1
<1>8. Keeps(D)
  <2>1. \A o \in D : heap'[o].kind = heap[o].kind
    BY <1>5
  <2>2. \A o \in D : heap[o].kind = "CLOSURE" =>
          /\ heap'[o] = heap[o]
          /\ heap[o].super # Nil => heap'[heap[o].super].methods = heap[heap[o].super].methods
    BY <1>2, <1>5, <1>6, <1>7
  <2>3. \A o \in D : heap[o].kind = "INSTANCE" =>
          /\ heap'[o].class = heap[o].class
          /\ heap'[heap[o].class].methods = heap[heap[o].class].methods
    BY <1>2, <1>5, <1>6, <1>7
  <2> QED
    BY <1>2, <1>5, <1>7, <2>1, <2>2, <2>3 DEF Keeps
<1> QED
  BY <1>2, <1>3, <1>5, <1>8

(* A collection keeps the invariant.                                       *)
LEMMA CollectInv ==
  ASSUME ClassesInv, Collect
  PROVE  ClassesInv'
<1>1. /\ request # NoRequest /\ request' = [request EXCEPT !.collected = TRUE]
      /\ UNCHANGED <<evalstack, frames, globals, declaring>>
  BY DEF Collect
<1>2. PICK D : D = Reach(Roots, graph)
  OBVIOUS
<1>3. /\ D \subseteq DOMAIN heap /\ DOMAIN heap' = D /\ \A o \in D : heap'[o] = heap[o]
      /\ Keeps(D) /\ Roots \subseteq D
  BY <1>2, Collected
<1>4. RequestFits /\ TypeOK /\ RootsExist /\ ObjectsSound
  BY DEF ClassesInv
<1>5. /\ frames # <<>> /\ Sound(request.object) /\ Held \subseteq D
      /\ request \in [then : {"push", "define", "construct"}, object : ObjectType,
                      pops : Nat, collected : BOOLEAN]
  BY <1>1, <1>2, <1>4 DEF RequestFits
<1>6. PICK x \in ObjectType : x = request.object
  BY <1>5
<1>7. /\ request' \in [then : {"push", "define", "construct"}, object : ObjectType,
                       pops : Nat, collected : BOOLEAN]
      /\ request'.then = request.then /\ request'.object = x /\ request'.pops = request.pops
  BY <1>1, <1>5, <1>6
<1>8. request' # NoRequest
  BY <1>7 DEF NoRequest
<1>9. ObjectsSound'
  <2>1. ASSUME NEW o \in DOMAIN heap' PROVE Sound(heap[o])'
    <3>1. PICK z : z = heap[o]
      OBVIOUS
    <3>2. z \in ObjectType /\ Sound(z) /\ RefsOf(z) \subseteq D
      BY <1>3, <1>4, <3>1, SoundMembers DEF Keeps
    <3>3. Sound(z)'
      BY <1>3, <1>4, <3>2, SoundKept
    <3>4. heap'[o] = z
      BY <1>3, <3>1
    <3> QED
      BY <3>3, <3>4
  <2> QED
    BY <2>1 DEF ObjectsSound
<1>10. RefsOf(x) \subseteq D /\ Held' = RefsOf(x)
  BY <1>1, <1>5, <1>6, <1>7, <1>8 DEF Held
<1>11. Sound(request.object)'
  <2>1. Sound(x)'
    BY <1>3, <1>4, <1>5, <1>6, <1>10, SoundKept
  <2> QED
    BY <1>7, <2>1
<1>12. Held' \subseteq Reach(Roots', graph')
  <2>1. Roots' = Roots
    BY <1>1 DEF Roots
  <2>2. /\ DOMAIN graph = DOMAIN heap /\ \A o \in DOMAIN heap : graph[o] = RefsOf(heap[o])
        /\ DOMAIN graph' = D /\ \A o \in D : graph'[o] = RefsOf(heap[o])
    BY <1>3 DEF graph
  <2>3. \A o \in D : graph[o] \subseteq D /\ graph'[o] = graph[o]
    BY <1>3, <2>2 DEF Keeps
  <2>4. D = Reach(Roots, graph')
    BY <1>2, <1>3, <2>2, <2>3, ReachLocal
  <2> QED
    BY <1>10, <2>1, <2>4
<1>13. Operands' = Operands /\ frames' # <<>>
  BY <1>1, <1>5 DEF Operands, current_frame, stack_top
<1>14. RequestFits'
  <2>1. \/ /\ request.then = "push" /\ x.kind = "BOUND_METHOD"
           /\ request.pops = 1 /\ Operands > 0 /\ declaring = NotDeclaring
        \/ /\ request.then = "push" /\ x.kind = "CLOSURE"
           /\ request.pops = 0 /\ declaring.stage = "method"
           /\ x.is_init = (declaring.name = init)
           /\ x.super \in {Nil, declaring.super}
        \/ /\ request.then = "define" /\ x = NewClass
           /\ request.pops = 0 /\ declaring.stage = "header"
        \/ /\ request.then = "construct" /\ x.kind = "INSTANCE"
           /\ Operands > request.pops /\ Peek(request.pops) = x.class
           /\ x.fields = EmptyTable /\ declaring = NotDeclaring
    BY <1>1, <1>4, <1>6 DEF RequestFits
  <2>2. (Peek(request.pops))' = Peek(request.pops)
    BY <1>1, <1>7 DEF Peek, stack_top
  <2> QED
    BY <1>1, <1>7, <1>11, <1>12, <1>13, <2>1, <2>2 DEF RequestFits
<1>15. DeclarationFits'
  <2>1. CASE declaring = NotDeclaring
    BY <1>1, <2>1 DEF DeclarationFits
  <2>2. CASE declaring # NotDeclaring
    <3>1. PICK c : c = globals[declaring.var]
      OBVIOUS
    <3>2. declaring.stage \in {"header", "body", "method"}
      BY <2>2 DEF ClassesInv, DeclarationFits
    <3>3. /\ declaring \in [stage : {"header", "body", "method"}, var : Globals, super : Value,
                            name : Names \cup {Nil}]
          /\ declaring.stage = "header" => Operands = 0 /\ declaring.super = Nil /\ declaring.name = Nil
          /\ declaring.stage # "body"
          /\ declaring.stage = "method" => declaring.name \in Names
          /\ declaring.stage # "header" => ClassOpen(c, 0)
      BY <1>1, <3>1, <3>2, Declaring
    <3>4. ASSUME declaring.stage # "header" PROVE ClassOpen(c, 0)'
      <4>1. /\ Is(c, "CLASS") /\ Peek(0) = c /\ Operands = 0 + IF declaring.super = Nil THEN 1 ELSE 2
            /\ \A o \in DOMAIN heap : /\ heap[o].kind = "INSTANCE" => heap[o].class # c
                                      /\ heap[o].kind = "CLOSURE" => heap[o].super # c
            /\ declaring.super # Nil =>
                 Peek(0 + 1) = declaring.super /\ Is(declaring.super, "CLASS") /\ declaring.super # c
        BY <3>3, <3>4 DEF ClassOpen
      <4>2. Peek(0)' = Peek(0) /\ Peek(0 + 1)' = Peek(0 + 1)
        BY <1>1 DEF Peek, stack_top
      <4>3. c \in D
        <5>1. c # Nil
          BY <4>1, ClassesAssumption DEF Is, ClassesInv, TypeOK
        <5> QED
          BY <1>3, <1>4, <3>1, <3>3, <5>1, RootsAre
      <4>4. declaring.super # Nil => declaring.super \in D
        <5>1. ASSUME declaring.super # Nil PROVE stack_top - (0 + 1) \in 1..stack_top
          BY <1>4, <1>5, <4>1, <5>1, CurrentFrame
        <5> QED
          BY <1>3, <1>4, <4>1, <5>1, RootsAre DEF Peek
      <4>5. Is(c, "CLASS")' /\ (declaring.super # Nil => Is(declaring.super, "CLASS")')
        BY <1>1, <1>3, <4>1, <4>3, <4>4 DEF Is
      <4>6. \A o \in DOMAIN heap' : /\ heap'[o].kind = "INSTANCE" => heap'[o].class # c
                                    /\ heap'[o].kind = "CLOSURE" => heap'[o].super # c
        BY <1>3, <4>1
      <4> QED
        BY <1>1, <1>13, <3>4, <4>1, <4>2, <4>5, <4>6 DEF ClassOpen
    <3>5. globals'[declaring'.var] = c
      BY <1>1, <3>1
    <3>6. declaring.stage # "header" => ClassOpen(globals[declaring.var], 0)'
      BY <3>4, <3>5
    <3> QED
      BY <1>1, <1>8, <1>13, <3>3, <3>6 DEF DeclarationFits
  <2> QED
    BY <2>1, <2>2
<1>16. DOMAIN heap' \subseteq Obj /\ \A o \in DOMAIN heap' : heap'[o] \in ObjectType
  BY <1>3, <1>4 DEF TypeOK
<1>17. globals' \in [Globals -> Live'] /\ evalstack' \in Seq(Live')
  <2>1. \A g \in Globals : globals[g] \in D \cup {Nil}
    BY <1>3, <1>4, RootsAre
  <2>2. \A p \in 1..stack_top : evalstack[p] \in D \cup {Nil}
    BY <1>3, <1>4, RootsAre
  <2>3. Live' = D \cup {Nil}
    BY <1>3 DEF Live
  <2>4. evalstack' = evalstack /\ evalstack \in Seq(Value) /\ globals' = globals /\ globals \in [Globals -> Value]
    BY <1>1, <1>4 DEF TypeOK
  <2>5. evalstack \in Seq(D \cup {Nil})
    BY <2>2, <2>4 DEF stack_top
  <2> QED
    BY <2>1, <2>3, <2>4, <2>5
<1>18. current_frame.slots <= Len(evalstack') /\ \A p \in 1..current_frame.slots : evalstack'[p] = evalstack[p]
  BY <1>1, <1>4, <1>5, CurrentFrame DEF stack_top
<1> QED
  BY <1>1, <1>3, <1>5, <1>9, <1>14, <1>15, <1>16, <1>17, <1>18, HeapStep

(* An object is made at an address where there is none.                    *)
LEMMA ObjectMade ==
  ASSUME ClassesInv, NEW o \in Obj, o \notin DOMAIN heap, NEW x \in ObjectType, Sound(x),
         heap' = With(heap, o, x)
  PROVE  /\ DOMAIN heap' = DOMAIN heap \cup {o} /\ heap'[o] = x /\ o # Nil /\ o \notin Live
         /\ \A y \in DOMAIN heap : heap'[y] = heap[y]
         /\ Keeps(DOMAIN heap) /\ Roots \subseteq DOMAIN heap
         /\ DOMAIN heap' \subseteq Obj /\ \A y \in DOMAIN heap' : heap'[y] \in ObjectType
         /\ ObjectsSound' /\ Live' = Live \cup {o}
<1>1. /\ DOMAIN heap' = DOMAIN heap \cup {o} /\ heap'[o] = x
      /\ \A y \in DOMAIN heap : heap'[y] = heap[y]
  BY DEF With
<1>2. TypeOK /\ ObjectsSound /\ RootsExist /\ o # Nil
  BY ClassesAssumption DEF ClassesInv
<1>3. \A y \in DOMAIN heap : /\ RefsOf(heap[y]) \subseteq DOMAIN heap
                             /\ heap[y].kind = "CLOSURE" /\ heap[y].super # Nil => Is(heap[y].super, "CLASS")
                             /\ heap[y].kind = "INSTANCE" => Is(heap[y].class, "CLASS")
  BY <1>2, SoundMembers, SoundRefs
<1>4. Keeps(DOMAIN heap)
  BY <1>1, <1>3 DEF Keeps, Is
<1>5. ASSUME NEW z \in ObjectType, Sound(z) PROVE Sound(z)'
  BY <1>2, <1>4, <1>5, SoundRefs, SoundKept
<1>6. ASSUME NEW y \in DOMAIN heap' PROVE Sound(heap[y])'
  <2>1. PICK z : z = heap'[y]
    OBVIOUS
  <2>2. z \in ObjectType /\ Sound(z)
    BY <1>1, <1>2, <2>1, SoundMembers
  <2>3. Sound(z)'
    BY <1>5, <2>2
  <2> QED
    BY <2>1, <2>3
<1>7. DOMAIN heap' \subseteq Obj /\ \A y \in DOMAIN heap' : heap'[y] \in ObjectType
  BY <1>1, <1>2 DEF TypeOK
<1> QED
  BY <1>1, <1>2, <1>4, <1>6, <1>7, RootsAre DEF ObjectsSound, Live

(* What is known of an allocation when its object is made.                 *)
LEMMA MakeIs ==
  ASSUME ClassesInv, Make
  PROVE  /\ request # NoRequest /\ frames # <<>>
         /\ request \in [then : {"push", "define", "construct"}, object : ObjectType,
                         pops : Nat, collected : BOOLEAN]
         /\ Sound(request.object)
         /\ \E o \in Obj \ DOMAIN heap :
              /\ heap' = With(heap, o, request.object)
              /\ request.then = "push" =>
                   /\ evalstack' = Append(Pop(request.pops), o)
                   /\ request' = NoRequest
                   /\ UNCHANGED <<frames, globals, declaring>>
              /\ request.then = "define" =>
                   /\ globals' = [globals EXCEPT ![declaring.var] = o]
                   /\ request' = NoRequest
                   /\ UNCHANGED <<evalstack, frames, declaring>>
              /\ request.then = "construct" => Construct(o) /\ UNCHANGED globals
<1>1. request # NoRequest /\ Addresses[request.object.kind] \ DOMAIN heap # {}
  BY DEF Make
<1>2. /\ frames # <<>> /\ Sound(request.object)
      /\ request \in [then : {"push", "define", "construct"}, object : ObjectType,
                      pops : Nat, collected : BOOLEAN]
  BY <1>1 DEF ClassesInv, RequestFits
<1>3. PICK o : o = CHOOSE x \in Addresses[request.object.kind] \ DOMAIN heap : TRUE
  OBVIOUS
<1>4. o \in Obj \ DOMAIN heap
  <2>1. o \in Addresses[request.object.kind] \ DOMAIN heap
    BY <1>1, <1>3
  <2>2. request.object.kind \in Kind
    BY <1>2, Members DEF Kind
  <2> QED
    BY <2>1, <2>2, ClassesAssumption
<1>5. heap' = With(heap, o, request.object)
  BY <1>3 DEF Make
<1>6. ASSUME request.then = "push"
      PROVE  /\ evalstack' = Append(Pop(request.pops), o) /\ request' = NoRequest
             /\ UNCHANGED <<frames, globals, declaring>>
  BY <1>3, <1>6 DEF Make
<1>7. ASSUME request.then = "define"
      PROVE  /\ globals' = [globals EXCEPT ![declaring.var] = o] /\ request' = NoRequest
             /\ UNCHANGED <<evalstack, frames, declaring>>
  BY <1>3, <1>7 DEF Make
<1>8. ASSUME request.then = "construct" PROVE Construct(o) /\ UNCHANGED globals
  BY <1>3, <1>8 DEF Make
<1> QED
  BY <1>1, <1>2, <1>4, <1>5, <1>6, <1>7, <1>8

(* The new object is pushed in place of n operands.                        *)
LEMMA PushedNew ==
  ASSUME ClassesInv, frames # <<>>, NEW n \in Nat, n <= Operands, NEW o,
         evalstack' = Append(Pop(n), o), UNCHANGED frames
  PROVE  /\ evalstack' \in Seq(Live \cup {o}) /\ stack_top' = stack_top - n + 1
         /\ current_frame.slots <= Len(evalstack') /\ Operands' = Operands - n + 1
         /\ Peek(0)' = o
         /\ \A p \in 1..(stack_top - n) : evalstack'[p] = evalstack[p]
         /\ \A p \in 1..current_frame.slots : evalstack'[p] = evalstack[p]
<1>1. Nil \in Live
  BY DEF Live
<1>2. PICK t : t = Pop(n)
  OBVIOUS
<1>3. /\ t \in Seq(Live) /\ Len(t) = stack_top - n /\ current_frame.slots <= Len(t)
      /\ \A p \in 1..(stack_top - n) : t[p] = evalstack[p]
  BY <1>1, <1>2, Popped
<1>4. /\ current_frame.slots \in 1..stack_top /\ stack_top \in Nat
      /\ Operands = stack_top - current_frame.slots
  BY CurrentFrame DEF ClassesInv
<1>5. PICK m \in Nat : m = stack_top - n
  BY <1>3
<1>6. t \in Seq(Live \cup {o})
  BY <1>3
<1>7. /\ evalstack' \in Seq(Live \cup {o}) /\ Len(evalstack') = m + 1 /\ evalstack'[m + 1] = o
      /\ \A p \in 1..m : evalstack'[p] = t[p]
  BY <1>2, <1>3, <1>5, <1>6
<1>8. stack_top' = m + 1 /\ Operands' = m + 1 - current_frame.slots
  <2>1. current_frame' = current_frame
    BY DEF current_frame
  <2>2. stack_top' = m + 1
    BY <1>7 DEF stack_top
  <2>3. Operands' = stack_top' - current_frame.slots
    BY <2>1 DEF Operands
  <2> QED
    BY <1>4, <1>5, <2>2, <2>3
<1>9. current_frame.slots <= m /\ \A p \in 1..current_frame.slots : p \in 1..m
  BY <1>3, <1>4, <1>5
<1>10. Peek(0)' = o
  BY <1>7, <1>8 DEF Peek
<1>11. Operands' = Operands - n + 1 /\ stack_top' = stack_top - n + 1 /\ current_frame.slots <= m + 1
  BY <1>4, <1>5, <1>8, <1>9
<1> QED
  BY <1>3, <1>5, <1>7, <1>9, <1>10, <1>11

(* The object of an instruction that pushes it is made.                    *)
LEMMA MakePush ==
  ASSUME ClassesInv, Make, request.then = "push"
  PROVE  ClassesInv'
<1>1. /\ request # NoRequest /\ frames # <<>> /\ request.object \in ObjectType /\ Sound(request.object)
  BY MakeIs
<1>2. PICK x \in ObjectType : x = request.object
  BY <1>1
<1>3. PICK n : n = request.pops
  OBVIOUS
<1>4. PICK o \in Obj \ DOMAIN heap :
        /\ heap' = With(heap, o, x) /\ evalstack' = Append(Pop(n), o)
        /\ request' = NoRequest /\ UNCHANGED <<frames, globals, declaring>>
  BY <1>2, <1>3, MakeIs
<1>5. /\ DOMAIN heap' = DOMAIN heap \cup {o} /\ heap'[o] = x /\ o # Nil /\ o \notin Live
      /\ \A y \in DOMAIN heap : heap'[y] = heap[y]
      /\ Keeps(DOMAIN heap) /\ Roots \subseteq DOMAIN heap
      /\ DOMAIN heap' \subseteq Obj /\ \A y \in DOMAIN heap' : heap'[y] \in ObjectType
      /\ ObjectsSound' /\ Live' = Live \cup {o}
  BY <1>1, <1>2, <1>4, ObjectMade
<1>6. \/ n = 1 /\ Operands > 0 /\ declaring = NotDeclaring
      \/ /\ n = 0 /\ declaring.stage = "method" /\ x.kind = "CLOSURE"
         /\ x.is_init = (declaring.name = init) /\ x.super \in {Nil, declaring.super}
  BY <1>1, <1>2, <1>3 DEF ClassesInv, RequestFits
<1>7. n \in Nat /\ n <= Operands
  BY <1>1, <1>6, CurrentFrame DEF ClassesInv
<1>8. /\ evalstack' \in Seq(Live \cup {o}) /\ stack_top' = stack_top - n + 1
      /\ current_frame.slots <= Len(evalstack') /\ Operands' = Operands - n + 1
      /\ Peek(0)' = o
      /\ \A p \in 1..(stack_top - n) : evalstack'[p] = evalstack[p]
      /\ \A p \in 1..current_frame.slots : evalstack'[p] = evalstack[p]
  BY <1>1, <1>4, <1>7, PushedNew
<1>9. RequestFits'
  BY <1>4 DEF RequestFits
<1>10. globals' \in [Globals -> Live'] /\ evalstack' \in Seq(Live')
  BY <1>4, <1>5, <1>8 DEF ClassesInv, RootsExist
<1>11. CASE declaring = NotDeclaring
  <2>1. DeclarationFits'
    BY <1>4, <1>11 DEF DeclarationFits
  <2> QED
    BY <1>1, <1>4, <1>5, <1>8, <1>9, <1>10, <2>1, HeapStep
<1>12. CASE declaring # NotDeclaring
  <2>1. PICK c : c = globals[declaring.var]
    OBVIOUS
  <2>2. /\ n = 0 /\ declaring.stage = "method" /\ x.kind = "CLOSURE"
        /\ x.is_init = (declaring.name = init) /\ x.super \in {Nil, declaring.super}
    BY <1>6, <1>12
  <2>3. /\ declaring \in [stage : {"header", "body", "method"}, var : Globals, super : Value,
                          name : Names \cup {Nil}]
        /\ declaring.name \in Names /\ ClassOpen(c, 0)
    BY <1>1, <2>1, <2>2, Declaring
  <2>4. /\ Is(c, "CLASS") /\ Peek(0) = c /\ Operands = 0 + IF declaring.super = Nil THEN 1 ELSE 2
        /\ \A y \in DOMAIN heap : /\ heap[y].kind = "INSTANCE" => heap[y].class # c
                                  /\ heap[y].kind = "CLOSURE" => heap[y].super # c
        /\ declaring.super # Nil =>
             Peek(0 + 1) = declaring.super /\ Is(declaring.super, "CLASS") /\ declaring.super # c
    BY <2>2, <2>3 DEF ClassOpen
  <2>5. current_frame.slots \in 1..stack_top /\ Operands = stack_top - current_frame.slots /\ stack_top \in Nat
    BY <1>1, CurrentFrame DEF ClassesInv
  <2>6. /\ Operands' = 1 + IF declaring.super = Nil THEN 1 ELSE 2
        /\ stack_top' - 1 = stack_top - 0 /\ stack_top - 0 \in 1..(stack_top - n)
        /\ stack_top' - (1 + 1) = stack_top - (0 + 1)
        /\ declaring.super # Nil => stack_top - (0 + 1) \in 1..(stack_top - n)
    BY <1>8, <2>2, <2>4, <2>5
  <2>7. Peek(1)' = c /\ (declaring.super # Nil => Peek(1 + 1)' = declaring.super)
    BY <1>8, <2>4, <2>6 DEF Peek
  <2>8. ClassOpen(c, 1)'
    <3>1. Is(c, "CLASS")' /\ (declaring.super # Nil => Is(declaring.super, "CLASS")')
      BY <1>4, <1>5, <2>4 DEF Is
    <3>2. c # Nil
      BY <2>4, ClassesAssumption DEF Is, ClassesInv, TypeOK
    <3>3. \A y \in DOMAIN heap' : /\ heap'[y].kind = "INSTANCE" => heap'[y].class # c
                                  /\ heap'[y].kind = "CLOSURE" => heap'[y].super # c
      BY <1>5, <2>2, <2>4, <3>2
    <3> QED
      BY <1>4, <2>2, <2>4, <2>6, <2>7, <3>1, <3>3 DEF ClassOpen
  <2>9. globals'[declaring'.var] = c
    BY <1>4, <2>1
  <2>10. ClassOpen(globals[declaring.var], 1)'
    BY <2>8, <2>9
  <2>11. Is(Peek(0), "CLOSURE")' /\ heap'[Peek(0)'] = x
    BY <1>5, <1>8, <2>2 DEF Is
  <2>12. heap'[Peek(0)'].is_init = (declaring'.name = init)
    <3>1. heap'[Peek(0)'].is_init = x.is_init /\ declaring' = declaring
      BY <1>4, <2>11
    <3> QED
      BY <2>2, <3>1, Zenon
  <2>13. DeclarationFits'
    BY <1>1, <1>4, <2>2, <2>3, <2>10, <2>11, <2>12 DEF DeclarationFits
  <2> QED
    BY <1>1, <1>4, <1>5, <1>8, <1>9, <1>10, <2>13, HeapStep
<1> QED
  BY <1>11, <1>12

(* The class that a declaration begins with is made: nothing refers to it  *)
(* but its variable.                                                       *)
LEMMA MakeDefine ==
  ASSUME ClassesInv, Make, request.then = "define"
  PROVE  ClassesInv'
<1>1. /\ request # NoRequest /\ frames # <<>> /\ request.object \in ObjectType /\ Sound(request.object)
  BY MakeIs
<1>2. request.object = NewClass /\ declaring.stage = "header"
  BY <1>1 DEF ClassesInv, RequestFits
<1>3. PICK o \in Obj \ DOMAIN heap :
        /\ heap' = With(heap, o, NewClass) /\ globals' = [globals EXCEPT ![declaring.var] = o]
        /\ request' = NoRequest /\ UNCHANGED <<evalstack, frames, declaring>>
  BY <1>2, MakeIs
<1>4. /\ DOMAIN heap' = DOMAIN heap \cup {o} /\ heap'[o] = NewClass /\ o # Nil /\ o \notin Live
      /\ \A y \in DOMAIN heap : heap'[y] = heap[y]
      /\ Keeps(DOMAIN heap) /\ Roots \subseteq DOMAIN heap
      /\ DOMAIN heap' \subseteq Obj /\ \A y \in DOMAIN heap' : heap'[y] \in ObjectType
      /\ ObjectsSound' /\ Live' = Live \cup {o}
  BY <1>1, <1>2, <1>3, ObjectMade
<1>5. /\ declaring \in [stage : {"header", "body", "method"}, var : Globals, super : Value,
                        name : Names \cup {Nil}]
      /\ Operands = 0 /\ declaring.super = Nil /\ declaring.name = Nil
  BY <1>2, Declaring
<1>6. globals \in [Globals -> Live] /\ evalstack \in Seq(Live)
  BY DEF ClassesInv, RootsExist
<1>7. globals' \in [Globals -> Live'] /\ evalstack' \in Seq(Live')
  <2>1. globals' \in [Globals -> Live \cup {o}]
    BY <1>3, <1>6
  <2>2. evalstack' \in Seq(Live \cup {o})
    BY <1>3, <1>6
  <2> QED
    BY <1>4, <2>1, <2>2
<1>8. globals'[declaring.var] = o /\ \A g \in Globals \ {declaring.var} : globals'[g] = globals[g]
  BY <1>3, <1>5, <1>6
<1>9. NewClass.kind = "CLASS"
  BY DEF NewClass
<1>10. ClassOpen(o, 0)'
  <2>1. Is(o, "CLASS")'
    BY <1>4, <1>9 DEF Is
  <2>2. \A y \in DOMAIN heap : /\ heap[y].kind = "CLOSURE" /\ heap[y].super # Nil => Is(heap[y].super, "CLASS")
                               /\ heap[y].kind = "INSTANCE" => Is(heap[y].class, "CLASS")
    BY SoundMembers DEF ClassesInv
  <2>3. \A y \in DOMAIN heap' : /\ heap'[y].kind = "INSTANCE" => heap'[y].class # o
                                /\ heap'[y].kind = "CLOSURE" => heap'[y].super # o
    BY <1>4, <1>9, <2>2 DEF Is
  <2>4. \A g \in Globals \ {declaring'.var} : globals'[g] # o
    BY <1>3, <1>4, <1>6, <1>8
  <2>5. declaring'.stage = "header"
    BY <1>2, <1>3
  <2> QED
    BY <1>4, <2>1, <2>3, <2>4, <2>5 DEF ClassOpen
<1>11. DeclarationFits'
  <2>1. globals'[declaring'.var] = o /\ declaring' = declaring /\ frames' # <<>>
    BY <1>1, <1>3, <1>8
  <2>2. ClassOpen(globals[declaring.var], 0)'
    BY <1>10, <2>1
  <2>3. Operands' = Operands
    BY <1>3 DEF Operands, stack_top, current_frame
  <2> QED
    BY <1>2, <1>3, <1>5, <2>1, <2>2, <2>3 DEF DeclarationFits
<1>12. RequestFits'
  BY <1>3 DEF RequestFits
<1>13. current_frame.slots <= Len(evalstack') /\ \A p \in 1..current_frame.slots : evalstack'[p] = evalstack[p]
  BY <1>1, <1>3, CurrentFrame DEF stack_top, ClassesInv
<1> QED
  BY <1>1, <1>3, <1>4, <1>7, <1>11, <1>12, <1>13, HeapStep

(* The instance that a call of a class asked for is made: it takes the     *)
(* place of the class, and the initializer that runs is in the table of    *)
(* the class.                                                              *)
LEMMA MakeConstruct ==
  ASSUME ClassesInv, Make, request.then = "construct"
  PROVE  ClassesInv'
<1>1. /\ request # NoRequest /\ frames # <<>> /\ request.object \in ObjectType /\ Sound(request.object)
      /\ request.pops \in Nat
  BY MakeIs
<1>2. PICK x \in ObjectType : x = request.object
  BY <1>1
<1>3. PICK n \in Nat : n = request.pops
  BY <1>1
<1>4. PICK c : c = x.class
  OBVIOUS
<1>5. PICK f : f = heap[c].init_method
  OBVIOUS
<1>6. PICK o \in Obj \ DOMAIN heap :
        heap' = With(heap, o, x) /\ Construct(o) /\ UNCHANGED globals
  BY <1>2, MakeIs
<1>7. /\ DOMAIN heap' = DOMAIN heap \cup {o} /\ heap'[o] = x /\ o # Nil /\ o \notin Live
      /\ \A y \in DOMAIN heap : heap'[y] = heap[y]
      /\ Keeps(DOMAIN heap) /\ Roots \subseteq DOMAIN heap
      /\ DOMAIN heap' \subseteq Obj /\ \A y \in DOMAIN heap' : heap'[y] \in ObjectType
      /\ ObjectsSound' /\ Live' = Live \cup {o}
  BY <1>1, <1>2, <1>6, ObjectMade
<1>8. x.kind = "INSTANCE" /\ Operands > n /\ declaring = NotDeclaring
  BY <1>1, <1>2, <1>3 DEF ClassesInv, RequestFits
<1>9. globals' \in [Globals -> Live']
  BY <1>6, <1>7 DEF ClassesInv, RootsExist
<1>10. \/ /\ evalstack' = PutCallee(n, o) /\ request' = NoRequest /\ UNCHANGED declaring
          /\ \/ f = Nil /\ UNCHANGED frames
             \/ f # Nil /\ frames' = Append(frames, Frame(f, stack_top - n, c))
       \/ Abort
  BY <1>2, <1>3, <1>4, <1>5, <1>6 DEF Construct, PushFrame, stack_top
<1>11. CASE Abort
  BY <1>7, <1>9, <1>11, Cleared DEF Abort
<1>12. CASE /\ evalstack' = PutCallee(n, o) /\ request' = NoRequest /\ UNCHANGED declaring
            /\ \/ f = Nil /\ UNCHANGED frames
               \/ f # Nil /\ frames' = Append(frames, Frame(f, stack_top - n, c))
  <2>1. RequestFits' /\ DeclarationFits'
    BY <1>8, <1>12 DEF RequestFits, DeclarationFits
  <2>2. evalstack \in Seq(Live) /\ stack_top \in Nat /\ stack_top = Len(evalstack)
    BY <1>1, OperandTypes DEF stack_top
  <2>3. current_frame.slots \in 1..stack_top /\ Operands = stack_top - current_frame.slots
    BY <1>1, CurrentFrame DEF ClassesInv
  <2>4. stack_top - n \in 1..stack_top /\ current_frame.slots < stack_top - n
    BY <1>8, <2>2, <2>3
  <2>5. evalstack \in Seq(Live \cup {o})
    BY <2>2
  <2>6. /\ evalstack' \in Seq(Live') /\ Len(evalstack') = stack_top /\ evalstack'[stack_top - n] = o
        /\ \A p \in 1..stack_top : p # stack_top - n => evalstack'[p] = evalstack[p]
    <3>1. PICK k \in 1..stack_top : k = stack_top - n
      BY <2>4
    <3>2. evalstack' = [evalstack EXCEPT ![k] = o]
      BY <1>12, <3>1 DEF PutCallee
    <3>3. /\ evalstack' \in Seq(Live \cup {o}) /\ Len(evalstack') = stack_top /\ evalstack'[k] = o
          /\ \A p \in 1..stack_top : p # k => evalstack'[p] = evalstack[p]
      BY <2>2, <2>5, <3>1, <3>2
    <3> QED
      BY <1>7, <3>1, <3>3
  <2>7. CASE f = Nil
    <3>1. current_frame.slots <= Len(evalstack')
      BY <2>3, <2>6
    <3>2. \A p \in 1..current_frame.slots : p \in 1..stack_top /\ p # stack_top - n
      BY <2>2, <2>3, <2>4
    <3>3. \A p \in 1..current_frame.slots : evalstack'[p] = evalstack[p]
      BY <2>6, <3>2
    <3> QED
      BY <1>1, <1>7, <1>9, <1>12, <2>1, <2>6, <2>7, <3>1, <3>3, HeapStep
  <2>8. CASE f # Nil
    <3>1. Is(c, "CLASS") /\ c \in DOMAIN heap
      BY <1>1, <1>2, <1>4, <1>8 DEF Sound, Is
    <3>2. init \in DOMAIN heap[c].methods /\ f = heap[c].methods[init] /\ heap[f].is_init
      BY <1>5, <2>8, <3>1, SoundMembers DEF Sound, Is, ClassesInv
    <3>3. f \in Range(Methods(c)) /\ f \in Closures
      <4>1. f \in Range(Methods(c))
        BY <3>2 DEF Range, Methods
      <4> QED
        BY <3>1, <4>1, SoundMembers DEF Is, ClassesInv
    <3>4. f \in MethodsFor(c)
      BY <3>3, ReachRoots DEF MethodsFor, Overridden
    <3>5. f \in MethodsFor(c)'
      BY <1>7, <3>1, <3>4, MethodsForKept DEF Is, ClassesInv
    <3>6. f \in DOMAIN heap /\ heap'[f].is_init
      BY <1>7, <3>2, <3>3 DEF Closures
    <3>7. f \in Value /\ c \in Value /\ Live' \subseteq Value /\ f \in Live'
      BY <1>7, <3>1, <3>6 DEF Live, Value
    <3>8. evalstack' \in Seq(Value)
      BY <2>6, <3>7
    <3>9. Is(o, "INSTANCE")' /\ c = heap'[o].class
      BY <1>4, <1>7, <1>8 DEF Is
    <3>10. frames' = Append(frames, Frame(f, stack_top - n, c))
      BY <1>12, <2>8
    <3>11. /\ ThisFitsMethod' /\ ConstructorsFit' /\ FramesAscend'
           /\ frames' \in Seq(FrameType)
           /\ \A j \in 1..Len(frames') : frames'[j].slots <= Len(evalstack')
      BY <1>1, <1>7, <1>8, <2>6, <2>8, <3>5, <3>6, <3>7, <3>8, <3>9, <3>10, FramePushed
    <3>12. globals' \in [Globals -> Value]
      BY <1>9, <3>7
    <3>13. TypeOK'
      BY <1>7, <2>1, <3>8, <3>11, <3>12, StagesTyped DEF TypeOK, stack_top
    <3>14. ASSUME NEW j \in 1..Len(frames') PROVE frames'[j].closure \in Live'
      <4>1. frames \in Seq(FrameType)
        BY DEF ClassesInv, TypeOK
      <4>2. CASE j \in 1..Len(frames)
        <5>1. frames'[j] = frames[j]
          BY <3>10, <4>1, <4>2
        <5>2. frames[j].closure \in Live
          BY <4>2 DEF ClassesInv, RootsExist
        <5> QED
          BY <1>7, <5>1, <5>2
      <4>3. CASE j \notin 1..Len(frames)
        <5>1. frames'[j] = Frame(f, stack_top - n, c)
          BY <3>10, <4>1, <4>3
        <5> QED
          BY <3>7, <5>1 DEF Frame
      <4> QED
        BY <4>2, <4>3
    <3>15. RootsExist'
      BY <1>9, <2>6, <3>14 DEF RootsExist
    <3> QED
      BY <1>7, <2>1, <3>11, <3>13, <3>15 DEF ClassesInv
  <2> QED
    BY <2>7, <2>8
<1> QED
  BY <1>10, <1>11, <1>12

(* Making the object that an instruction asked for keeps the invariant.    *)
LEMMA MakeInv ==
  ASSUME ClassesInv, Make
  PROVE  ClassesInv'
<1>1. request.then \in {"push", "define", "construct"}
  BY MakeIs
<1> QED
  BY <1>1, MakePush, MakeDefine, MakeConstruct

-----------------------------------------------------------------------------
(* The invariant *)

(* The invariant holds at first.                                           *)
LEMMA InitInv == Init => ClassesInv
<1> SUFFICES ASSUME Init PROVE ClassesInv
  OBVIOUS
<1>1. /\ evalstack = <<>> /\ frames = <<>> /\ globals = [g \in Globals |-> Nil] /\ heap = <<>>
      /\ request = NoRequest /\ declaring = NotDeclaring
  BY DEF Init
<1>2. DOMAIN heap = {} /\ Len(frames) = 0 /\ Len(evalstack) = 0
  BY <1>1
<1>3. /\ evalstack \in Seq(Live) /\ evalstack \in Seq(Value) /\ frames \in Seq(FrameType)
      /\ globals \in [Globals -> Live] /\ globals \in [Globals -> Value]
  BY <1>1 DEF Live, Value
<1>4. TypeOK
  BY <1>1, <1>2, <1>3 DEF TypeOK, NoRequest, NotDeclaring
<1>5. RootsExist /\ ObjectsSound /\ ThisFitsMethod /\ FramesAscend /\ ConstructorsFit
  BY <1>2, <1>3 DEF RootsExist, ObjectsSound, ThisFitsMethod, FramesAscend, ConstructorsFit
<1>6. RequestFits /\ DeclarationFits
  BY <1>1 DEF RequestFits, DeclarationFits
<1> QED
  BY <1>4, <1>5, <1>6 DEF ClassesInv

(* Every step keeps the invariant.                                         *)
LEMMA NextInv == ClassesInv /\ [Next]_vars => ClassesInv'
<1> SUFFICES ASSUME ClassesInv, [Next]_vars PROVE ClassesInv'
  OBVIOUS
<1>1. CASE Run
  BY <1>1, RunInv
<1>2. CASE RuntimeError
  BY <1>2, RuntimeErrorInv
<1>3. CASE LoadThis
  BY <1>3, LoadThisInv
<1>4. CASE PopTop
  BY <1>4, PopTopInv
<1>5. CASE Return
  BY <1>5, ReturnInv
<1>6. CASE NoSuperclass
  BY <1>6, NoSuperclassInv
<1>7. CASE Inherit
  BY <1>7, InheritInv
<1>8. CASE Method
  BY <1>8, MethodInv
<1>9. CASE EndClass
  BY <1>9, EndClassInv
<1>10. CASE Collect
  BY <1>10, CollectInv
<1>11. CASE Make
  BY <1>11, MakeInv
<1>12. CASE \E g \in Globals : LoadGlobal(g) \/ DeclareClass(g)
  BY <1>12, LoadGlobalInv, DeclareClassInv
<1>13. CASE \E g \in Assigned : StoreGlobal(g)
  BY <1>13, StoreGlobalInv
<1>14. CASE \E n \in FieldNames : LoadField(n) \/ StoreProperty(n) \/ DelProperty(n)
  BY <1>14, LoadFieldInv, StorePropertyInv, DelPropertyInv
<1>15. CASE \E n \in Names : LoadMethod(n) \/ LoadNothing(n) \/ LoadSuper(n)
  BY <1>15, LoadMethodInv, LoadNothingInv, LoadSuperInv
<1>16. CASE \E k \in Arities : Call(k)
  BY <1>16, CallsInv
<1>17. CASE \E k \in Arities, n \in Names :
              MethodClosure(n, k) \/ InvokeField(k, n) \/ Invoke(k, n) \/ SuperInvoke(k, n)
  BY <1>17, MethodClosureInv, CallsInv, InvokeInv, SuperInvokeInv
<1>18. CASE UNCHANGED vars
  <2> USE <1>18 DEF vars
  <2>1. TypeOK' /\ RootsExist' /\ FramesAscend' /\ ConstructorsFit'
    BY DEF ClassesInv, TypeOK, RootsExist, FramesAscend, ConstructorsFit, stack_top, Live
  <2>2. \A c : MethodsFor(c)' = MethodsFor(c)
    BY DEF MethodsFor, Overridden, Closures, Methods
  <2>3. ThisFitsMethod'
    BY <2>2 DEF ClassesInv, ThisFitsMethod, Is
  <2>4. ObjectsSound'
    BY HeapSame DEF ClassesInv
  <2>5. Operands' = Operands /\ \A n : Peek(n)' = Peek(n)
    BY DEF Operands, Peek, current_frame, stack_top
  <2>6. RequestFits'
    <3>1. Sound(request.object)' = Sound(request.object)
      BY <2>2 DEF Sound, Is, Live
    <3>2. Held' = Held /\ Roots' = Roots /\ graph' = graph
      BY DEF Held, Roots, graph
    <3> QED
      BY <2>5, <3>1, <3>2 DEF ClassesInv, RequestFits
  <2>7. DeclarationFits'
    BY <2>5 DEF ClassesInv, DeclarationFits, ClassOpen, Is
  <2> QED
    BY <2>1, <2>3, <2>4, <2>6, <2>7 DEF ClassesInv
<1> QED
  BY <1>1, <1>2, <1>3, <1>4, <1>5, <1>6, <1>7, <1>8, <1>9, <1>10, <1>11, <1>12, <1>13, <1>14,
     <1>15, <1>16, <1>17, <1>18 DEF Next

(* Every reachable state of the machine satisfies the inductive invariant. *)
THEOREM ClassesInvariant == Spec => []ClassesInv
  BY InitInv, NextInv, PTL DEF Spec

(* Type correctness of the machine.                                        *)
THEOREM TypeCorrect == Spec => []TypeOK
<1>1. ClassesInv => TypeOK
  BY DEF ClassesInv
<1> QED
  BY <1>1, ClassesInvariant, PTL

(* However call(), INVOKE, SUPER_INVOKE, bound methods, fields and         *)
(* constructors start a method, slot 0 is an instance whose class has or   *)
(* inherits it, whatever is declared, collected or returned meanwhile.     *)
THEOREM MethodsFit == Spec => []ThisFitsMethod
<1>1. ClassesInv => ThisFitsMethod
  BY DEF ClassesInv
<1> QED
  BY <1>1, ClassesInvariant, PTL

(* The initializer that METHOD caches in a class is in its table, so that  *)
(* blacken_object(), which marks the table only, keeps it.                 *)
THEOREM InitializersTabled == Spec => []InitializerTabled
<1>1. ClassesInv => InitializerTabled
  BY DEF ClassesInv, InitializerTabled, ObjectsSound, Sound, Methods, Range
<1> QED
  BY <1>1, ClassesInvariant, PTL

(* No collection in the middle of an instruction frees what the stack, a   *)
(* global, a frame, an object or the instruction itself points to.         *)
THEOREM NothingFreed == Spec => []NothingHeldIsFreed
<1>1. ASSUME ClassesInv PROVE NothingHeldIsFreed
  <2>1. Roots \subseteq DOMAIN heap
    BY <1>1, RootsAre DEF ClassesInv
  <2>2. Held \subseteq DOMAIN heap
    <3>1. CASE request = NoRequest
      BY <3>1 DEF Held
    <3>2. CASE request # NoRequest
      <4>1. Held \subseteq Reach(Roots, graph)
        BY <1>1, <3>2 DEF ClassesInv, RequestFits
      <4> QED
        BY <4>1 DEF Reach, graph
    <3> QED
      BY <3>1, <3>2
  <2>3. \A o \in DOMAIN heap : RefsOf(heap[o]) \subseteq DOMAIN heap
    BY <1>1, SoundMembers, SoundRefs DEF ClassesInv
  <2> QED
    BY <2>1, <2>2, <2>3 DEF NothingHeldIsFreed
<1> QED
  BY <1>1, ClassesInvariant, PTL

(* What a step can do to the calls in progress.                            *)
LEMMA FramesChange ==
  ASSUME ClassesInv, [Next]_vars
  PROVE  \/ Return \/ frames' = <<>> \/ frames = <<>> \/ UNCHANGED frames
         \/ \E x : frames' = Append(frames, x)
<1>1. CASE Run \/ RuntimeError \/ LoadThis \/ PopTop \/ Return
  BY <1>1 DEF Run, RuntimeError, Abort, LoadThis, PopTop
<1>2. CASE NoSuperclass \/ Inherit \/ Method \/ EndClass \/ Collect
  BY <1>2 DEF NoSuperclass, Inherit, Abort, Method, EndClass, Collect
<1>3. CASE Make
  <2>1. PICK o : /\ request.then \in {"push", "define"} => UNCHANGED frames
                 /\ request.then = "construct" => Construct(o)
    BY <1>3, MakeIs
  <2>2. Construct(o) => UNCHANGED frames \/ frames' = <<>> \/ \E x : frames' = Append(frames, x)
    BY DEF Construct, PushFrame, Abort
  <2>3. request.then \in {"push", "define", "construct"}
    BY <1>3, MakeIs
  <2> QED
    BY <2>1, <2>2, <2>3
<1>4. CASE \E g \in Globals : LoadGlobal(g) \/ DeclareClass(g)
  BY <1>4 DEF LoadGlobal, DeclareClass
<1>5. CASE \E g \in Assigned : StoreGlobal(g)
  BY <1>5 DEF StoreGlobal
<1>6. CASE \E n \in FieldNames : LoadField(n) \/ StoreProperty(n) \/ DelProperty(n)
  BY <1>6 DEF LoadField, StoreProperty, DelProperty
<1>7. CASE \E n \in Names : LoadMethod(n) \/ LoadNothing(n) \/ LoadSuper(n)
  BY <1>7 DEF LoadMethod, LoadNothing, LoadSuper
<1>8. ASSUME NEW v, NEW n, CallValue(v, n)
      PROVE  UNCHANGED frames \/ \E x : frames' = Append(frames, x)
  BY <1>8 DEF CallValue, CallBound, CallClass, PushFrame
<1>9. CASE \E k \in Arities : Call(k)
  BY <1>8, <1>9 DEF Call
<1>10. CASE \E k \in Arities, n \in Names :
              MethodClosure(n, k) \/ InvokeField(k, n) \/ Invoke(k, n) \/ SuperInvoke(k, n)
  <2>1. PICK k \in Arities, n \in Names :
              MethodClosure(n, k) \/ InvokeField(k, n) \/ Invoke(k, n) \/ SuperInvoke(k, n)
    BY <1>10
  <2>2. CASE MethodClosure(n, k)
    BY <2>2 DEF MethodClosure
  <2>3. CASE InvokeField(k, n)
    BY <1>8, <2>3 DEF InvokeField
  <2>4. CASE Invoke(k, n) \/ SuperInvoke(k, n)
    BY <2>4 DEF Invoke, SuperInvoke, PushFrame
  <2> QED
    BY <2>1, <2>2, <2>3, <2>4
<1>11. CASE UNCHANGED vars
  BY <1>11 DEF vars
<1> QED
  BY <1>1, <1>2, <1>3, <1>4, <1>5, <1>6, <1>7, <1>9, <1>10, <1>11 DEF Next

(* A call of a class leaves an instance of that class on the stack: only   *)
(* RETURN ends a call in progress, and in an initializer it finds this.    *)
THEOREM ConstructorsYield == Spec => ConstructorYieldsInstance
<1> DEFINE Ends == frames # <<>> /\ Len(frames') < Len(frames) /\ frames' # <<>>
                   /\ current_frame.constructs # Nil
           Yields == LET o == evalstack'[Len(evalstack')]
                     IN Is(o, "INSTANCE") /\ heap[o].class = current_frame.constructs
<1>1. ASSUME ClassesInv, [Next]_vars, Ends PROVE Yields
  <2>1. frames \in Seq(FrameType) /\ frames # <<>> /\ Len(frames) \in Nat \ {0}
    BY <1>1, CurrentFrame DEF ClassesInv, TypeOK
  <2>2. Return
    <3>1. ~(\E x : frames' = Append(frames, x))
      BY <1>1, <2>1
    <3> QED
      BY <1>1, <3>1, FramesChange
  <2>3. PICK b \in Nat : b = current_frame.slots - 1 /\ b < Len(evalstack)
    BY <1>1, <2>1, CurrentFrame DEF ClassesInv, stack_top
  <2>4. Len(frames) # 1
    <3>1. frames' = SubSeq(frames, 1, Len(frames) - 1)
      BY <2>2 DEF Return
    <3> QED
      BY <1>1, <2>1, <3>1
  <2>5. PICK f : f = current_frame.closure
    OBVIOUS
  <2>6. /\ f # Nil /\ heap[f].is_init /\ heap[this].class = current_frame.constructs
        /\ Is(this, "INSTANCE")
    BY <1>1, <2>1, <2>5, CurrentFrame
       DEF ClassesInv, ConstructorsFit, ThisFitsMethod, current_frame, this
  <2>7. Results = {this}
    BY <2>5, <2>6 DEF Results, InMethod
  <2>8. evalstack' = Append(SubSeq(evalstack, 1, b), this)
    BY <2>2, <2>3, <2>4, <2>7 DEF Return
  <2>9. evalstack'[Len(evalstack')] = this
    <3>1. evalstack \in Seq(Value)
      BY <1>1 DEF ClassesInv, TypeOK
    <3>2. PICK t : t = SubSeq(evalstack, 1, b)
      OBVIOUS
    <3>3. t \in Seq(Value)
      BY <2>3, <3>1, <3>2
    <3> QED
      BY <2>8, <3>2, <3>3
  <2> QED
    BY <2>6, <2>9
<1>2. ClassesInv /\ [Next]_vars => [Ends => Yields]_vars
  BY <1>1
<1> QED
  BY <1>2, ClassesInvariant, PTL DEF Spec, ConstructorYieldsInstance

=============================================================================
