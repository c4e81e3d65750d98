------------------------------- MODULE Classes --------------------------------
(***************************************************************************)
(* Classes, instances, methods and inheritance in the virtual machine      *)
(* (vm.cpp), with the code that the compiler emits for class declarations, *)
(* this and super (compiler.cpp).                                          *)
(*                                                                         *)
(* The program is any program whose functions are methods.  A collection   *)
(* can run whenever an instruction allocates; it frees what the machine's  *)
(* roots do not reach at that moment, whatever pointers the instruction    *)
(* holds in variables of its own.  Captured variables live as module       *)
(* Closures shows; the only one that matters here, super, is a constant,   *)
(* so a closure has its value.                                             *)
(***************************************************************************)
EXTENDS Objects, Sequences, Functions

CONSTANTS
  Nil,              (* nil, for every value that is not an object           *)
  Names,            (* names of methods                                     *)
  FieldNames,       (* names that the program uses for fields as well       *)
  init,             (* constant_string_init                                 *)
  Globals,          (* the global variables, which name classes             *)
  Assigned,         (* those the program assigns other values to            *)
  Superclass,       (* the variable a class names as its superclass, or nil *)
  Arities,          (* the numbers of parameters of methods                 *)
  MAX_FRAME_SIZE,   (* the most calls in progress                           *)
  value_stack_max,  (* bound: no operand is loaded beyond this height        *)
  Addresses         (* bound: the objects there can be of each kind         *)

ASSUME ClassesAssumption ==
  /\ Nil \notin Obj /\ init \in Names /\ FieldNames \subseteq Names
  /\ Assigned \subseteq Globals /\ Superclass \in [Globals -> Globals \cup {Nil}]
  /\ \A g \in Globals : Superclass[g] # g
  /\ Arities \subseteq Nat
  /\ MAX_FRAME_SIZE \in Nat \ {0} /\ value_stack_max \in Nat
  /\ Addresses \in [Kind -> SUBSET Obj]

VARIABLES
  evalstack,   (* the values below stack_top                                *)
  frames,      (* the calls in progress                                     *)
  globals,     (* the values of the global variables                        *)
  heap,        (* the objects that exist                                    *)
  request,     (* the allocation that the present instruction has begun     *)
  declaring    (* the class declaration that is being executed              *)

vars == <<evalstack, frames, globals, heap, request, declaring>>

-----------------------------------------------------------------------------
(* Objects.  A closure has the value of super in the class that declares   *)
(* it, nil if it does not mention super.                                   *)

Value == Obj \cup {Nil}
EmptyTable == [n \in {} |-> Nil]

NewClass == [kind |-> "CLASS", methods |-> EmptyTable, init_method |-> Nil]
NewClosure(is_init, arity, super) ==
  [kind |-> "CLOSURE", is_init |-> is_init, arity |-> arity, super |-> super]
NewInstance(c) == [kind |-> "INSTANCE", class |-> c, fields |-> EmptyTable]
NewBoundMethod(r, f) == [kind |-> "BOUND_METHOD", receiver |-> r, method |-> f]

(* The pointers in the members that module Objects knows.                  *)
Pointers(x) ==
  [f \in FieldsOf(x.kind) |->
     Obj \cap CASE f = "methods"     -> Range(x.methods)
                [] f = "init_method" -> {x.init_method}
                [] f = "upvalues"    -> {x.super}
                [] f = "class"       -> {x.class}
                [] f = "fields"      -> Range(x.fields)
                [] f = "receiver"    -> {x.receiver}
                [] f = "method"      -> {x.method}
                [] OTHER             -> {}]

RefsOf(x) == Refs(x.kind, Pointers(x))
graph == [o \in DOMAIN heap |-> RefsOf(heap[o])]

Is(v, k) == v \in DOMAIN heap /\ heap[v].kind = k
Methods(c) == heap[c].methods
Fields(o) == heap[o].fields
With(t, n, v) == [x \in DOMAIN t \cup {n} |-> IF x = n THEN v ELSE t[x]]

-----------------------------------------------------------------------------
(* The machine *)

stack_top == Len(evalstack)
Peek(n) == evalstack[stack_top - n]
Pop(n) == SubSeq(evalstack, 1, stack_top - n)
Room == stack_top < value_stack_max

(* A frame: its closure (nil for the script), the position of its slot 0,  *)
(* and, for the properties, the class whose call made it.                  *)
Frame(f, k, c) == [closure |-> f, slots |-> k, constructs |-> c]
current_frame == frames[Len(frames)]
this == evalstack[current_frame.slots]
Operands == stack_top - current_frame.slots

InMethod == current_frame.closure # Nil
super == heap[current_frame.closure].super

NoRequest == [then |-> "none"]
NotDeclaring == [stage |-> "none", var |-> Nil, super |-> Nil, name |-> Nil]
Ready == frames # <<>> /\ request = NoRequest /\ declaring = NotDeclaring

(* What mark_roots() marks.                                                *)
Roots == Obj \cap (Range(evalstack) \cup Range(globals)
                   \cup {frames[j].closure : j \in 1..Len(frames)})

(* An instruction asks for an object; n operands are popped once it has    *)
(* been made, and then it is pushed, or made the value of a new global, or *)
(* takes the place of the class that is called.                            *)
Ask(x, n, then) ==
  /\ Addresses[x.kind] \ Reach(Roots, graph) # {}
  /\ request' = [then |-> then, object |-> x, pops |-> n, collected |-> FALSE]

(* The session clears the machine after a run-time error.                  *)
Abort == evalstack' = <<>> /\ frames' = <<>> /\ request' = NoRequest
         /\ declaring' = NotDeclaring

Run ==
  /\ frames = <<>>
  /\ evalstack' = <<Nil>> /\ frames' = <<Frame(Nil, 1, Nil)>>
  /\ UNCHANGED <<globals, heap, request, declaring>>

RuntimeError ==
  /\ Ready
  /\ Abort
  /\ UNCHANGED <<globals, heap>>

-----------------------------------------------------------------------------
(* Variables *)

LoadGlobal(g) ==
  /\ Ready /\ Room
  /\ evalstack' = Append(evalstack, globals[g])
  /\ UNCHANGED <<frames, globals, heap, request, declaring>>

(* STORE_GLOBAL; the value stays on the stack.                             *)
StoreGlobal(g) ==
  /\ Ready /\ Operands > 0
  /\ globals' = [globals EXCEPT ![g] = Peek(0)]
  /\ UNCHANGED <<evalstack, frames, heap, request, declaring>>

LoadThis ==
  /\ Ready /\ InMethod /\ Room
  /\ evalstack' = Append(evalstack, this)
  /\ UNCHANGED <<frames, globals, heap, request, declaring>>

PopTop ==
  /\ Ready /\ Operands > 0
  /\ evalstack' = Pop(1)
  /\ UNCHANGED <<frames, globals, heap, request, declaring>>

-----------------------------------------------------------------------------
(* A class declaration *)

(* CLASS, and the definition of the global variable g.  A declaration is a *)
(* statement: there are no operands on the stack.                          *)
DeclareClass(g) ==
  /\ Ready /\ Operands = 0
  /\ Ask(NewClass, 0, "define")
  /\ declaring' = [NotDeclaring EXCEPT !.stage = "header", !.var = g]
  /\ UNCHANGED <<evalstack, frames, globals, heap>>

(* INHERIT copies the superclass's table of methods.  The superclass stays *)
(* on the stack as the variable super.                                     *)
Inherited(c, s) == [heap EXCEPT ![c].methods = Methods(s)]

Inherit ==
  /\ declaring.stage = "header" /\ request = NoRequest
  /\ Superclass[declaring.var] # Nil
  /\ LET s == globals[Superclass[declaring.var]]
         c == globals[declaring.var]
     IN IF Is(s, "CLASS")
          THEN /\ heap' = Inherited(c, s)
               /\ evalstack' = evalstack \o <<s, c>>
               /\ declaring' = [declaring EXCEPT !.stage = "body", !.super = s]
               /\ UNCHANGED <<frames, request>>
          ELSE Abort /\ UNCHANGED heap
  /\ UNCHANGED globals

NoSuperclass ==
  /\ declaring.stage = "header" /\ request = NoRequest
  /\ Superclass[declaring.var] = Nil
  /\ evalstack' = Append(evalstack, globals[declaring.var])
  /\ declaring' = [declaring EXCEPT !.stage = "body"]
  /\ UNCHANGED <<frames, globals, heap, request>>

(* CLOSURE for the method, which may mention super.                        *)
MethodClosure(n, arity) ==
  /\ declaring.stage = "body"
  /\ \E s \in {Nil, declaring.super} : Ask(NewClosure(n = init, arity, s), 0, "push")
  /\ declaring' = [declaring EXCEPT !.stage = "method", !.name = n]
  /\ UNCHANGED <<evalstack, frames, globals, heap>>

(* Mutant: a method that is there already, inherited or not, stays.        *)
WithMethodIfNew(x, n, f) ==
  [x EXCEPT !.methods = IF n \in DOMAIN @ THEN @ ELSE With(@, n, f),
            !.init_method = IF n = init THEN f ELSE @]

WithMethod(x, n, f) ==
  [x EXCEPT !.methods = With(@, n, f),
            !.init_method = IF n = init THEN f ELSE @]

(* METHOD *)
Method ==
  /\ declaring.stage = "method" /\ request = NoRequest
  /\ heap' = [heap EXCEPT ![Peek(1)] = WithMethod(@, declaring.name, Peek(0))]
  /\ evalstack' = Pop(1)
  /\ declaring' = [declaring EXCEPT !.stage = "body", !.name = Nil]
  /\ UNCHANGED <<frames, globals, request>>

EndClass ==
  /\ declaring.stage = "body"
  /\ evalstack' = Pop(IF declaring.super = Nil THEN 1 ELSE 2)
  /\ declaring' = NotDeclaring
  /\ UNCHANGED <<frames, globals, heap, request>>

-----------------------------------------------------------------------------
(* Properties of instances.  A field hides a method of the same name.      *)

(* LOAD_PROPERTY, LOAD_PROPERTY_SAFE and get_property() of a field.        *)
LoadField(n) ==
  /\ Ready /\ Operands > 0
  /\ Is(Peek(0), "INSTANCE") /\ n \in DOMAIN Fields(Peek(0))
  /\ evalstack' = Append(Pop(1), Fields(Peek(0))[n])
  /\ UNCHANGED <<frames, globals, heap, request, declaring>>

FindsMethod(o, n) ==
  /\ Is(o, "INSTANCE") /\ n \notin DOMAIN Fields(o)
  /\ n \in DOMAIN Methods(heap[o].class)
MethodOf(o, n) == Methods(heap[o].class)[n]

(* Mutant: the instance is popped before the allocation.                   *)
LoadMethodPopped(n) ==
  /\ Ready /\ Operands > 0
  /\ FindsMethod(Peek(0), n)
  /\ Ask(NewBoundMethod(Peek(0), MethodOf(Peek(0), n)), 0, "push")
  /\ evalstack' = Pop(1)
  /\ UNCHANGED <<frames, globals, heap, declaring>>

(* LOAD_PROPERTY and LOAD_PROPERTY_SAFE of a method.  The instance stays   *)
(* on the stack until the bound method exists.                             *)
LoadMethod(n) ==
  /\ Ready /\ Operands > 0
  /\ FindsMethod(Peek(0), n)
  /\ Ask(NewBoundMethod(Peek(0), MethodOf(Peek(0), n)), 1, "push")
  /\ UNCHANGED <<evalstack, frames, globals, heap, declaring>>

(* LOAD_PROPERTY_SAFE of what has no such property.                        *)
LoadNothing(n) ==
  /\ Ready /\ Operands > 0
  /\ ~FindsMethod(Peek(0), n)
  /\ Is(Peek(0), "INSTANCE") => n \notin DOMAIN Fields(Peek(0))
  /\ evalstack' = Append(Pop(1), Nil)
  /\ UNCHANGED <<frames, globals, heap, request, declaring>>

(* STORE_PROPERTY leaves the value on the stack; set_property() gives nil. *)
StoreProperty(n) ==
  /\ Ready /\ Operands > 1
  /\ Is(Peek(1), "INSTANCE")
  /\ heap' = [heap EXCEPT ![Peek(1)].fields = With(@, n, Peek(0))]
  /\ \E result \in {Peek(0), Nil} : evalstack' = Append(Pop(2), result)
  /\ UNCHANGED <<frames, globals, request, declaring>>

(* del_property(), whether there is such a field or not.                   *)
DelProperty(n) ==
  /\ Ready /\ Operands > 0
  /\ Is(Peek(0), "INSTANCE")
  /\ heap' = [heap EXCEPT ![Peek(0)].fields = Restrict(@, DOMAIN @ \ {n})]
  /\ evalstack' = Append(Pop(1), Nil)
  /\ UNCHANGED <<frames, globals, request, declaring>>

-----------------------------------------------------------------------------
(* Calls.  What cannot be called, or not with n arguments, or when there   *)
(* are too many frames, is an error.                                       *)

CanCall(f, n) == heap[f].arity = n /\ Len(frames) < MAX_FRAME_SIZE

(* Mutant: slot 0 is the first argument, or beyond the top.                *)
PushFrameAbove(s, f, n, c) == frames' = Append(frames, Frame(f, Len(s) - n + 1, c))

(* call(): slot 0 is the value below the n arguments in the stack s.       *)
PushFrame(s, f, n, c) == frames' = Append(frames, Frame(f, Len(s) - n, c))
PutCallee(n, v) == [evalstack EXCEPT ![stack_top - n] = v]

(* Mutant: the bound method stays in slot 0.                               *)
ReceiverForgotten(v) == v

(* Slot 0 of a call of the bound method v.                                 *)
Receiver(v) == heap[v].receiver

(* call_value() of the value v, which replaces the callee.                 *)
CallBound(v, n) ==
  /\ Is(v, "BOUND_METHOD") /\ CanCall(heap[v].method, n)
  /\ evalstack' = PutCallee(n, Receiver(v))
  /\ PushFrame(evalstack, heap[v].method, n, Nil)
  /\ UNCHANGED request

CallClass(v, n) ==
  /\ Is(v, "CLASS")
  /\ evalstack' = PutCallee(n, v)
  /\ Ask(NewInstance(v), n, "construct")
  /\ UNCHANGED frames

CallValue(v, n) == CallBound(v, n) \/ CallClass(v, n)

(* CALL *)
Call(n) ==
  /\ Ready /\ Operands > n
  /\ CallValue(Peek(n), n)
  /\ UNCHANGED <<globals, heap, declaring>>

(* INVOKE *)
InvokeField(n, name) ==
  /\ Ready /\ Operands > n
  /\ Is(Peek(n), "INSTANCE") /\ name \in DOMAIN Fields(Peek(n))
  /\ CallValue(Fields(Peek(n))[name], n)
  /\ UNCHANGED <<globals, heap, declaring>>

Invoke(n, name) ==
  /\ Ready /\ Operands > n
  /\ FindsMethod(Peek(n), name)
  /\ CanCall(MethodOf(Peek(n), name), n)
  /\ PushFrame(evalstack, MethodOf(Peek(n), name), n, Nil)
  /\ UNCHANGED <<evalstack, globals, heap, request, declaring>>

(* A method of the superclass; this and super are loaded for it, and super *)
(* is popped at once.                                                      *)
CanSuper(name) == InMethod /\ super # Nil /\ name \in DOMAIN Methods(super)

(* LOAD_SUPER *)
LoadSuper(name) ==
  /\ Ready /\ Room
  /\ CanSuper(name)
  /\ evalstack' = Append(evalstack, this)
  /\ Ask(NewBoundMethod(this, Methods(super)[name]), 1, "push")
  /\ UNCHANGED <<frames, globals, heap, declaring>>

(* SUPER_INVOKE: this has been pushed before the arguments.                *)
SuperInvoke(n, name) ==
  /\ Ready /\ Operands > n
  /\ CanSuper(name) /\ Peek(n) = this
  /\ CanCall(Methods(super)[name], n)
  /\ PushFrame(evalstack, Methods(super)[name], n, Nil)
  /\ UNCHANGED <<evalstack, globals, heap, request, declaring>>

(* Mutant: an initializer returns what another method would.               *)
ResultsAsWritten ==
  {Nil} \cup IF Operands > 0 THEN {Peek(0)} ELSE {}

(* What RETURN can find on the top of the stack: nil, or the value of an   *)
(* expression; in an initializer only this.                                *)
Results ==
  IF InMethod /\ heap[current_frame.closure].is_init THEN {this}
  ELSE {Nil} \cup IF Operands > 0 THEN {Peek(0)} ELSE {}

(* RETURN *)
Return ==
  /\ Ready
  /\ frames' = SubSeq(frames, 1, Len(frames) - 1)
  /\ LET below == SubSeq(evalstack, 1, current_frame.slots - 1)
     IN evalstack' \in IF Len(frames) = 1 THEN {below} ELSE {Append(below, v) : v \in Results}
  /\ UNCHANGED <<globals, heap, request, declaring>>

-----------------------------------------------------------------------------
(* Allocation *)

(* A collection, at any of the points where an allocation can start one.   *)
Collect ==
  /\ request # NoRequest /\ ~request.collected
  /\ LET marks == [o \in DOMAIN heap |-> Blacken(heap[o].kind, Pointers(heap[o]))]
     IN heap' = Restrict(heap, Reach(Roots, marks))
  /\ request' = [request EXCEPT !.collected = TRUE]
  /\ UNCHANGED <<evalstack, frames, globals, declaring>>

Construct(o) ==
  LET f == heap[request.object.class].init_method
      n == request.pops
  IN IF IF f = Nil THEN n = 0 ELSE CanCall(f, n)
       THEN /\ evalstack' = PutCallee(n, o)
            /\ IF f = Nil THEN UNCHANGED frames
                          ELSE PushFrame(evalstack, f, n, request.object.class)
            /\ request' = NoRequest
            /\ UNCHANGED declaring
       ELSE Abort

(* The object is made, and the instruction goes on.                        *)
Make ==
  /\ request # NoRequest
  /\ Addresses[request.object.kind] \ DOMAIN heap # {}
  /\ LET o == CHOOSE x \in Addresses[request.object.kind] \ DOMAIN heap : TRUE
     IN
       /\ heap' = With(heap, o, request.object)
       /\ CASE request.then = "push" ->
                 /\ evalstack' = Append(Pop(request.pops), o)
                 /\ request' = NoRequest
                 /\ UNCHANGED <<frames, globals, declaring>>
            [] request.then = "define" ->
                 /\ globals' = [globals EXCEPT ![declaring.var] = o]
                 /\ request' = NoRequest
                 /\ UNCHANGED <<evalstack, frames, declaring>>
            [] request.then = "construct" ->
                 Construct(o) /\ UNCHANGED globals

-----------------------------------------------------------------------------
Init ==
  /\ evalstack = <<>> /\ frames = <<>>
  /\ globals = [g \in Globals |-> Nil]
  /\ heap = <<>>
  /\ request = NoRequest /\ declaring = NotDeclaring

Next ==
  \/ Run \/ RuntimeError \/ LoadThis \/ PopTop \/ Return
  \/ NoSuperclass \/ Inherit \/ Method \/ EndClass \/ Collect \/ Make
  \/ \E g \in Globals : LoadGlobal(g) \/ DeclareClass(g)
  \/ \E g \in Assigned : StoreGlobal(g)
  \/ \E n \in FieldNames : LoadField(n) \/ StoreProperty(n) \/ DelProperty(n)
  \/ \E n \in Names : LoadMethod(n) \/ LoadNothing(n) \/ LoadSuper(n)
  \/ \E k \in Arities : Call(k)
  \/ \E k \in Arities, n \in Names :
       MethodClosure(n, k) \/ InvokeField(k, n) \/ Invoke(k, n) \/ SuperInvoke(k, n)

Spec == Init /\ [][Next]_vars

-----------------------------------------------------------------------------
(* Properties *)

Table(V) == UNION {[D -> V] : D \in SUBSET Names}
ObjectType ==
  [kind : {"CLASS"}, methods : Table(Obj), init_method : Value]
  \cup [kind : {"CLOSURE"}, is_init : BOOLEAN, arity : Arities, super : Value]
  \cup [kind : {"INSTANCE"}, class : Obj, fields : Table(Value)]
  \cup [kind : {"BOUND_METHOD"}, receiver : Obj, method : Obj]
FrameType == [closure : Value, slots : Nat \ {0}, constructs : Value]

(* Type invariant of the machine.                                          *)
TypeOK ==
  /\ evalstack \in Seq(Value) /\ globals \in [Globals -> Value]
  /\ frames \in Seq(FrameType)
  /\ \A j \in 1..Len(frames) : frames[j].slots <= stack_top
  /\ DOMAIN heap \subseteq Obj /\ \A o \in DOMAIN heap : heap[o] \in ObjectType
  /\ request.then \in {"none", "push", "define", "construct"}
  /\ request # NoRequest => request.object \in ObjectType /\ request.pops \in Nat
  /\ declaring.stage \in {"none", "header", "body", "method"}

(* The methods an instance of class c can run: those of its class, and, by *)
(* way of super, those that these override.                                *)
Closures == {o \in DOMAIN heap : heap[o].kind = "CLOSURE"}
Overridden ==
  [f \in Closures |-> IF heap[f].super = Nil THEN {} ELSE Range(Methods(heap[f].super))]
MethodsFor(c) == Reach(Range(Methods(c)), Overridden)

(* Wherever a method runs, whichever way it was called, slot 0, which it   *)
(* takes for this without a check, is an instance whose class has or       *)
(* inherits that very method.                                              *)
ThisFitsMethod ==
  \A j \in 1..Len(frames) : frames[j].closure # Nil =>
    LET o == evalstack[frames[j].slots]
    IN Is(o, "INSTANCE") /\ frames[j].closure \in MethodsFor(heap[o].class)

(* The cached initializer of a class is in its table of methods.  The      *)
(* collector marks the table only (see HeapInv in module Heap).            *)
InitializerTabled ==
  \A o \in DOMAIN heap : heap[o].kind = "CLASS" /\ heap[o].init_method # Nil =>
    heap[o].init_method \in Range(Methods(o))

(* A class that has a method init, its own or an inherited one, calls it   *)
(* when an instance is made.                                               *)
InitializerCalled ==
  \A o \in DOMAIN heap :
    heap[o].kind = "CLASS" /\ declaring = NotDeclaring /\ init \in DOMAIN Methods(o) =>
      heap[o].init_method = Methods(o)[init]

(* A call of a class leaves an instance of that class on the stack, even   *)
(* if its initializer ran.                                                 *)
ConstructorYieldsInstance ==
  [][frames # <<>> /\ Len(frames') < Len(frames) /\ frames' # <<>>
     /\ current_frame.constructs # Nil =>
       LET o == evalstack'[Len(evalstack')]
       IN Is(o, "INSTANCE") /\ heap[o].class = current_frame.constructs]_vars

(* The objects that the instruction in progress has pointers to.           *)
Held == IF request = NoRequest THEN {} ELSE RefsOf(request.object)

(* Each instruction keeps what it holds reachable from the roots while it  *)
(* allocates: no collection frees an object that the machine, an object or *)
(* the instruction in progress points to.                                  *)
NothingHeldIsFreed ==
  /\ Roots \cup Held \subseteq DOMAIN heap
  /\ \A o \in DOMAIN heap : RefsOf(heap[o]) \subseteq DOMAIN heap

-----------------------------------------------------------------------------
(* The inductive invariant, on which the proofs in ClassesProofs rest.     *)

(* What is on the stack, in a global or runs, exists.                      *)
Live == DOMAIN heap \cup {Nil}
RootsExist ==
  /\ evalstack \in Seq(Live) /\ globals \in [Globals -> Live]
  /\ \A j \in 1..Len(frames) : frames[j].closure \in Live

(* The members of object x are what the code takes them for without a      *)
(* check.  A class calls as its initializer the method in its table under  *)
(* that name; a bound method fits its receiver.                            *)
Sound(x) ==
  /\ x.kind = "CLASS" =>
       /\ \A n \in DOMAIN x.methods : Is(x.methods[n], "CLOSURE")
       /\ x.init_method # Nil =>
            /\ init \in DOMAIN x.methods /\ x.init_method = x.methods[init]
            /\ heap[x.init_method].is_init
  /\ x.kind = "CLOSURE" => x.super = Nil \/ Is(x.super, "CLASS")
  /\ x.kind = "INSTANCE" =>
       Is(x.class, "CLASS") /\ \A n \in DOMAIN x.fields : x.fields[n] \in Live
  /\ x.kind = "BOUND_METHOD" =>
       Is(x.receiver, "INSTANCE") /\ x.method \in MethodsFor(heap[x.receiver].class)

ObjectsSound == \A o \in DOMAIN heap : Sound(heap[o])

(* Frames ascend, and a frame that a constructor call made runs an         *)
(* initializer on an instance of the class.                                *)
FramesAscend ==
  \A j, k \in 1..Len(frames) : j < k => frames[j].slots < frames[k].slots

ConstructorsFit ==
  \A j \in 1..Len(frames) : frames[j].constructs # Nil =>
    /\ frames[j].closure # Nil /\ heap[frames[j].closure].is_init
    /\ heap[evalstack[frames[j].slots]].class = frames[j].constructs

(* An allocation in progress, what it was asked for by, and what is on the *)
(* stack meanwhile.  What it holds can be reached from the roots.          *)
RequestFits ==
  request # NoRequest =>
    /\ frames # <<>>
    /\ request \in [then : {"push", "define", "construct"}, object : ObjectType,
                    pops : Nat, collected : BOOLEAN]
    /\ \/ /\ request.then = "push" /\ request.object.kind = "BOUND_METHOD"
          /\ request.pops = 1 /\ Operands > 0 /\ declaring = NotDeclaring
       \/ /\ request.then = "push" /\ request.object.kind = "CLOSURE"
          /\ request.pops = 0 /\ declaring.stage = "method"
          /\ request.object.is_init = (declaring.name = init)
          /\ request.object.super \in {Nil, declaring.super}
       \/ /\ request.then = "define" /\ request.object = NewClass
          /\ request.pops = 0 /\ declaring.stage = "header"
       \/ /\ request.then = "construct" /\ request.object.kind = "INSTANCE"
          /\ Operands > request.pops /\ Peek(request.pops) = request.object.class
          /\ request.object.fields = EmptyTable /\ declaring = NotDeclaring
    /\ Sound(request.object) /\ Held \subseteq Reach(Roots, graph)

(* The class c that is being declared has no instances yet and is no       *)
(* superclass, so its table can still change; it and its superclass are on *)
(* the stack, below the n methods that are not yet in the table.           *)
ClassOpen(c, n) ==
  /\ Is(c, "CLASS")
  /\ \A o \in DOMAIN heap :
       /\ heap[o].kind = "INSTANCE" => heap[o].class # c
       /\ heap[o].kind = "CLOSURE" => heap[o].super # c
  /\ declaring.stage = "header" =>
       heap[c] = NewClass /\ \A g \in Globals \ {declaring.var} : globals[g] # c
  /\ declaring.stage # "header" =>
       /\ Peek(n) = c /\ Operands = n + IF declaring.super = Nil THEN 1 ELSE 2
       /\ declaring.super # Nil =>
            Peek(n + 1) = declaring.super /\ Is(declaring.super, "CLASS") /\ declaring.super # c

DeclarationFits ==
  \/ declaring = NotDeclaring
  \/ /\ declaring \in [stage : {"header", "body", "method"}, var : Globals, super : Value,
                       name : Names \cup {Nil}]
     /\ frames # <<>>
     /\ declaring.stage = "header" => Operands = 0 /\ declaring.super = Nil /\ declaring.name = Nil
     /\ declaring.stage = "body" => request = NoRequest
     /\ declaring.stage = "method" => declaring.name \in Names
     /\ request = NoRequest \/ declaring.stage # "header" =>
          ClassOpen(globals[declaring.var],
                    IF declaring.stage = "method" /\ request = NoRequest THEN 1 ELSE 0)
     /\ declaring.stage = "method" /\ request = NoRequest =>
          Is(Peek(0), "CLOSURE") /\ heap[Peek(0)].is_init = (declaring.name = init)

ClassesInv ==
  /\ TypeOK /\ RootsExist /\ ObjectsSound /\ ThisFitsMethod
  /\ FramesAscend /\ ConstructorsFit /\ RequestFits /\ DeclarationFits
=============================================================================
