------------------------------- MODULE Closures -------------------------------
(***************************************************************************)
(* Local variables, calls and closures: the evaluation stack, the call     *)
(* frames and the upvalues of the virtual machine (vm.cpp), run by the     *)
(* instructions that the compiler emits for variables and scopes           *)
(* (compiler.cpp).                                                         *)
(*                                                                         *)
(* The program is any program.  Which slots of the stack hold variables,   *)
(* and which of these some nested function mentions, is known only to the  *)
(* compiler (its vector of locals); each slot carries that knowledge here, *)
(* together with the identity of the variable, which exists only in the    *)
(* model.  Memory is reclaimed as module Heap shows.                       *)
(***************************************************************************)
EXTENDS Integers, Sequences, FiniteSetsExt, SequencesExt

CONSTANTS
  Vals,             (* values that are not closures                         *)
  Nil,              (* nil, one of them                                     *)
  Closure,          (* the addresses of closures                            *)
  Upvalue,          (* the addresses of upvalues                            *)
  Script,           (* the closure of a script, which captures nothing      *)
  Arities,          (* the numbers of parameters of functions               *)
  MAX_FRAME_SIZE,   (* the most calls in progress                           *)
  value_stack_max,  (* bound: no push beyond this height                    *)
  MaxCaptures,      (* bound: the most upvalues of a closure                *)
  UnsafeErrors,     (* run-time errors occur with upvalues open too         *)
  UnsafeContinue    (* continue leaves captured variables too               *)

ASSUME BoundsAssumption ==
  /\ MAX_FRAME_SIZE \in Nat \ {0} /\ value_stack_max \in Nat /\ MaxCaptures \in Nat
  /\ Arities \subseteq Nat
  /\ UnsafeErrors \in BOOLEAN /\ UnsafeContinue \in BOOLEAN
ASSUME ValuesAssumption ==
  /\ Nil \in Vals /\ Script \notin Vals
  /\ Script \notin Closure /\ Closure \cap Vals = {}

VARIABLES
  evalstack,      (* the slots below stack_top                              *)
  frames,         (* the calls in progress: closure, position of slot 0     *)
  open_upvalues,  (* the linked list of open upvalues, from its head        *)
  upvalues,       (* the upvalues that exist                                *)
  closures,       (* the closures that exist                                *)
  capturing       (* CLOSURE is filling in the upvalues of the closure      *)

vars == <<evalstack, frames, open_upvalues, upvalues, closures, capturing>>

-----------------------------------------------------------------------------
Value == Vals \cup Closure \cup {Script}

(* A slot: a temporary of an expression, or variable number cell.          *)
Temp(v) == [val |-> v, cell |-> 0, is_captured |-> FALSE]
Var(v, c, captured) == [val |-> v, cell |-> c, is_captured |-> captured]
IsVar(p) == evalstack[p].cell # 0

stack_top == Len(evalstack)
TopValue == evalstack[stack_top].val
Pop(n) == SubSeq(evalstack, 1, stack_top - n)

(* A closure: its function's numbers of parameters and of upvalues, and    *)
(* the upvalues filled in so far.                                          *)
Made(arity, n) == [arity |-> arity, upvalue_count |-> n, upvalues |-> <<>>]
ScriptFn == Made(0, 0)

current_frame == frames[Len(frames)]
slots == current_frame.slots
Fn(f) == IF f = Script THEN ScriptFn ELSE closures[f]
current == Fn(current_frame.closure)

(* An instruction can be executed.                                         *)
Ready == frames # <<>> /\ ~capturing

(* The variables of the present call, and those of its inner scopes: the   *)
(* parameters are not in a scope that ends before the call.                *)
Locals == {p \in (slots + 1)..stack_top : IsVar(p)}
ScopedFrom(p) == p > slots + current.arity /\ \A q \in p..stack_top : IsVar(q)

UsedCells == {evalstack[p].cell : p \in 1..stack_top}
             \cup {upvalues[u].cell : u \in DOMAIN upvalues}

(* n different numbers that name no variable.                              *)
FreshCells(n) ==
  CHOOSE cells \in [1..n -> 1..(Cardinality(UsedCells) + n) \ UsedCells] :
    IsInjective(cells)
FreshCell == FreshCells(1)[1]

-----------------------------------------------------------------------------
(* Upvalues *)

(* get(): an open upvalue points to a slot, a closed one to itself.        *)
Open(u) == upvalues[u].location # 0
Deref(u) == IF Open(u) THEN evalstack[upvalues[u].location].val ELSE upvalues[u].closed

(* How many upvalues at the head of the list satisfy P.                    *)
Leading(P(_)) ==
  Max({n \in 0..Len(open_upvalues) : \A j \in 1..n : P(upvalues[open_upvalues[j]].location)})

(* Mutants: the slot's value is not copied; the slot below last is closed  *)
(* as well.                                                                *)
CloseUpvaluesUncopied(last) ==
  LET n == Leading(LAMBDA loc : loc >= last)
      closing == {open_upvalues[j] : j \in 1..n}
  IN /\ open_upvalues' = SubSeq(open_upvalues, n + 1, Len(open_upvalues))
     /\ upvalues' = [u \in DOMAIN upvalues |->
                       [upvalues[u] EXCEPT !.location = IF u \in closing THEN 0 ELSE @]]
CloseUpvaluesBelow(last) ==
  LET n == Leading(LAMBDA loc : loc >= last - 1)
      closing == {open_upvalues[j] : j \in 1..n}
  IN /\ open_upvalues' = SubSeq(open_upvalues, n + 1, Len(open_upvalues))
     /\ upvalues' = [u \in DOMAIN upvalues |->
                       IF u \in closing
                         THEN [upvalues[u] EXCEPT !.location = 0, !.closed = Deref(u)]
                         ELSE upvalues[u]]

(* close_upvalues(last): from the head of the list, as long as they point  *)
(* to slot last or above, upvalues take over the slot's value.             *)
CloseUpvalues(last) ==
  LET n == Leading(LAMBDA loc : loc >= last)
      closing == {open_upvalues[j] : j \in 1..n}
  IN /\ open_upvalues' = SubSeq(open_upvalues, n + 1, Len(open_upvalues))
     /\ upvalues' = [u \in DOMAIN upvalues |->
                       IF u \in closing
                         THEN [upvalues[u] EXCEPT !.location = 0, !.closed = Deref(u)]
                         ELSE upvalues[u]]

(* The closure under construction gets one more upvalue (add_upvalue() of  *)
(* the compiler does not list a variable twice).                           *)
AddUpvalue(u) ==
  /\ u \notin ToSet(closures[TopValue].upvalues)
  /\ closures' = [closures EXCEPT ![TopValue].upvalues = Append(@, u)]
  /\ UNCHANGED capturing

(* Mutant: a variable is captured again without a look at the list.        *)
CaptureSearchNone(p) == 0

(* capture_upvalue(): how many upvalues of the list point above slot p.    *)
CaptureSearch(p) == Leading(LAMBDA loc : loc > p)

(* Mutant: a variable that is captured already gets a second upvalue.      *)
NeverOpen(p, n) == FALSE

AlreadyOpen(p, n) ==
  n < Len(open_upvalues) /\ upvalues[open_upvalues[n + 1]].location = p

CaptureExisting(p) ==
  LET n == CaptureSearch(p)
  IN /\ AlreadyOpen(p, n)
     /\ AddUpvalue(open_upvalues[n + 1])
     /\ UNCHANGED <<evalstack, frames, open_upvalues, upvalues>>

CaptureNew(p) ==
  LET n == CaptureSearch(p)
  IN /\ ~AlreadyOpen(p, n)
     /\ \E u \in Upvalue \ DOMAIN upvalues :
          /\ upvalues' = [x \in DOMAIN upvalues \cup {u} |->
                            IF x = u THEN [location |-> p, closed |-> Nil,
                                           cell |-> evalstack[p].cell]
                                     ELSE upvalues[x]]
          /\ open_upvalues' = InsertAt(open_upvalues, n + 1, u)
          /\ AddUpvalue(u)
     /\ UNCHANGED <<evalstack, frames>>

-----------------------------------------------------------------------------
(* Instructions *)

(* An expression leaves a value: a constant, or a global (which may hold   *)
(* any closure).                                                           *)
Push(v) ==
  /\ Ready
  /\ stack_top < value_stack_max
  /\ evalstack' = Append(evalstack, Temp(v))
  /\ UNCHANGED <<frames, open_upvalues, upvalues, closures, capturing>>

(* POP_TOP of a temporary *)
PopTemp ==
  /\ Ready
  /\ stack_top > slots /\ ~IsVar(stack_top)
  /\ evalstack' = Pop(1)
  /\ UNCHANGED <<frames, open_upvalues, upvalues, closures, capturing>>

(* A declaration emits no code: the value of its initializer becomes the   *)
(* variable, at the position that the compiler gives to it.                *)
DefineLocal(captured) ==
  /\ Ready
  /\ stack_top > slots /\ ~IsVar(stack_top)
  /\ \A p \in (slots + 1)..(stack_top - 1) : IsVar(p)
  /\ evalstack' = [evalstack EXCEPT ![stack_top] = Var(TopValue, FreshCell, captured)]
  /\ UNCHANGED <<frames, open_upvalues, upvalues, closures, capturing>>

LoadLocal(p) ==
  /\ Ready /\ p \in Locals
  /\ stack_top < value_stack_max
  /\ evalstack' = Append(evalstack, Temp(evalstack[p].val))
  /\ UNCHANGED <<frames, open_upvalues, upvalues, closures, capturing>>

StoreLocal(p) ==
  /\ Ready /\ p \in Locals
  /\ ~IsVar(stack_top)
  /\ evalstack' = [evalstack EXCEPT ![p].val = TopValue]
  /\ UNCHANGED <<frames, open_upvalues, upvalues, closures, capturing>>

LoadUpvalue(j) ==
  /\ Ready /\ j \in DOMAIN current.upvalues
  /\ stack_top < value_stack_max
  /\ evalstack' = Append(evalstack, Temp(Deref(current.upvalues[j])))
  /\ UNCHANGED <<frames, open_upvalues, upvalues, closures, capturing>>

StoreUpvalue(j) ==
  /\ Ready /\ j \in DOMAIN current.upvalues
  /\ stack_top > slots /\ ~IsVar(stack_top)
  /\ LET u == current.upvalues[j]
     IN IF Open(u)
          THEN /\ evalstack' = [evalstack EXCEPT ![upvalues[u].location].val = TopValue]
               /\ UNCHANGED upvalues
          ELSE /\ upvalues' = [upvalues EXCEPT ![u].closed = TopValue]
               /\ UNCHANGED evalstack
  /\ UNCHANGED <<frames, open_upvalues, closures, capturing>>

(* Mutant: POP_TOP for a captured variable too.                            *)
EndScopePops ==
  /\ Ready
  /\ ScopedFrom(stack_top)
  /\ evalstack' = Pop(1)
  /\ UNCHANGED <<frames, open_upvalues, upvalues, closures, capturing>>

(* end_scope() for one variable: CLOSE_UPVALUE for a captured one, POP_TOP *)
(* for another.                                                            *)
EndScope ==
  /\ Ready
  /\ ScopedFrom(stack_top)
  /\ evalstack' = Pop(1)
  /\ IF evalstack[stack_top].is_captured THEN CloseUpvalues(stack_top)
                                         ELSE UNCHANGED <<open_upvalues, upvalues>>
  /\ UNCHANGED <<frames, closures, capturing>>

(* continue: POP_TOP for each variable of the loop's body, from slot p on. *)
Continue(p) ==
  /\ Ready
  /\ ScopedFrom(p)
  /\ UnsafeContinue \/ \A q \in p..stack_top : ~evalstack[q].is_captured
  /\ evalstack' = SubSeq(evalstack, 1, p - 1)
  /\ UNCHANGED <<frames, open_upvalues, upvalues, closures, capturing>>

(* CLOSURE: the new closure is pushed, then its n upvalues are filled in,  *)
(* from variables of the present call or from upvalues of its closure.  If *)
(* a fun statement declares it, the new closure's slot already is the      *)
(* variable, which the function may mention.                               *)
NewClosure(f, arity, n) ==
  /\ Ready
  /\ stack_top < value_stack_max
  /\ Cardinality(Upvalue \ DOMAIN upvalues) >= n
  /\ closures' = [x \in DOMAIN closures \cup {f} |->
                    IF x = f THEN Made(arity, n) ELSE closures[x]]
  /\ \/ evalstack' = Append(evalstack, Temp(f))
     \/ /\ \A p \in (slots + 1)..stack_top : IsVar(p)
        /\ \E captured \in BOOLEAN :
             evalstack' = Append(evalstack, Var(f, FreshCell, captured))
  /\ n <= Len(current.upvalues)
          + Cardinality({p \in (slots + 1)..Len(evalstack') : evalstack'[p].is_captured})
  /\ capturing' = TRUE
  /\ UNCHANGED <<frames, open_upvalues, upvalues>>

(* Mutant: one upvalue too many.                                           *)
UnfilledOffByOne ==
  capturing /\ Len(closures[TopValue].upvalues) <= closures[TopValue].upvalue_count

Unfilled == capturing /\ Len(closures[TopValue].upvalues) < closures[TopValue].upvalue_count

CaptureLocal(p) ==
  /\ Unfilled
  /\ p \in Locals /\ evalstack[p].is_captured
  /\ CaptureExisting(p) \/ CaptureNew(p)

CaptureUpvalue(j) ==
  /\ Unfilled
  /\ j \in DOMAIN current.upvalues
  /\ AddUpvalue(current.upvalues[j])
  /\ UNCHANGED <<evalstack, frames, open_upvalues, upvalues>>

ClosureDone ==
  /\ capturing /\ ~Unfilled
  /\ capturing' = FALSE
  /\ UNCHANGED <<evalstack, frames, open_upvalues, upvalues, closures>>

-----------------------------------------------------------------------------
(* Calls *)

(* run(): the script is pushed and called.                                 *)
Run ==
  /\ frames = <<>>
  /\ evalstack' = Append(evalstack, Temp(Script))
  /\ frames' = <<[closure |-> Script, slots |-> stack_top + 1]>>
  /\ UNCHANGED <<open_upvalues, upvalues, closures, capturing>>

(* The arguments of a call become variables of the function: the i-th gets *)
(* the i-th cell.                                                          *)
Parameters(n, cells, captured) ==
  [p \in 1..stack_top |->
     IF p <= stack_top - n THEN evalstack[p]
     ELSE Var(evalstack[p].val, cells[p - stack_top + n], captured[p - stack_top + n])]

(* CALL of a closure with n arguments.  Bound: there is room for a result. *)
Call(n) ==
  /\ Ready
  /\ stack_top < value_stack_max
  /\ stack_top - n > slots /\ \A p \in (stack_top - n)..stack_top : ~IsVar(p)
  /\ LET f == evalstack[stack_top - n].val
     IN /\ f \in DOMAIN closures /\ n = closures[f].arity
        /\ Len(frames) < MAX_FRAME_SIZE
        /\ frames' = Append(frames, [closure |-> f, slots |-> stack_top - n])
  /\ \E captured \in [1..n -> BOOLEAN] :
       evalstack' = Parameters(n, FreshCells(n), captured)
  /\ UNCHANGED <<open_upvalues, upvalues, closures, capturing>>

(* RETURN *)
Return ==
  /\ Ready
  /\ stack_top > slots /\ ~IsVar(stack_top)
  /\ CloseUpvalues(slots)
  /\ frames' = SubSeq(frames, 1, Len(frames) - 1)
  /\ evalstack' = IF Len(frames) = 1 THEN SubSeq(evalstack, 1, slots - 1)
                                     ELSE Append(SubSeq(evalstack, 1, slots - 1), Temp(TopValue))
  /\ UNCHANGED <<closures, capturing>>

(* A run-time error; the interactive session then clears the stack and the *)
(* frames, and goes on with the next line.                                 *)
RuntimeError ==
  /\ Ready
  /\ UnsafeErrors \/ open_upvalues = <<>>
  /\ evalstack' = <<>> /\ frames' = <<>>
  /\ UNCHANGED <<open_upvalues, upvalues, closures, capturing>>

(* Mutant: the collector does not look at the evaluation stack.            *)
InUseOffStack(f) ==
  \/ \E j \in 1..Len(frames) : frames[j].closure = f
  \/ \E u \in DOMAIN upvalues : upvalues[u].closed = f

(* The garbage collector frees a closure that nothing points to (unless a  *)
(* global does), and the upvalues that no closure has and that are closed. *)
(* It may run between any two steps, and so in the middle of CLOSURE,      *)
(* which allocates an upvalue when the closure has only some of them.      *)
InUse(f) ==
  \/ \E p \in 1..stack_top : evalstack[p].val = f
  \/ \E j \in 1..Len(frames) : frames[j].closure = f
  \/ \E u \in DOMAIN upvalues : upvalues[u].closed = f

Collect ==
  /\ \E f \in DOMAIN closures :
       /\ ~InUse(f)
       /\ LET left == [x \in DOMAIN closures \ {f} |-> closures[x]]
              used == {u \in DOMAIN upvalues :
                         Open(u) \/ \E x \in DOMAIN left : u \in ToSet(left[x].upvalues)}
          IN /\ closures' = left
             /\ upvalues' = [u \in used |-> upvalues[u]]
  /\ UNCHANGED <<evalstack, frames, open_upvalues, capturing>>

-----------------------------------------------------------------------------
Init ==
  /\ evalstack = <<>> /\ frames = <<>> /\ open_upvalues = <<>>
  /\ upvalues = <<>> /\ closures = <<>>
  /\ capturing = FALSE

Next ==
  \/ Run \/ PopTemp \/ EndScope \/ Return \/ RuntimeError \/ ClosureDone \/ Collect
  \/ \E v \in Vals \cup DOMAIN closures : Push(v)
  \/ \E captured \in BOOLEAN : DefineLocal(captured)
  \/ \E p \in 1..stack_top : LoadLocal(p) \/ StoreLocal(p) \/ Continue(p) \/ CaptureLocal(p)
  \/ \E j \in 1..MaxCaptures : LoadUpvalue(j) \/ StoreUpvalue(j) \/ CaptureUpvalue(j)
  \/ \E f \in Closure \ DOMAIN closures, arity \in Arities, n \in 0..MaxCaptures :
       NewClosure(f, arity, n)
  \/ \E n \in Arities : Call(n)

Spec == Init /\ [][Next]_vars

-----------------------------------------------------------------------------
(* Properties *)

SlotType == [val : Value, cell : Nat, is_captured : BOOLEAN]
UpvalueType == [location : Nat, closed : Value, cell : Nat \ {0}]
ClosureType == [arity : Arities, upvalue_count : 0..MaxCaptures, upvalues : Seq(Upvalue)]
FrameType == [closure : Closure \cup {Script}, slots : Nat \ {0}]

(* Type invariant of the virtual machine.                                  *)
TypeOK ==
  /\ evalstack \in Seq(SlotType) /\ frames \in Seq(FrameType)
  /\ open_upvalues \in Seq(Upvalue)
  /\ DOMAIN upvalues \subseteq Upvalue
  /\ \A u \in DOMAIN upvalues : upvalues[u] \in UpvalueType
  /\ DOMAIN closures \subseteq Closure
  /\ \A f \in DOMAIN closures :
       /\ closures[f] \in ClosureType
       /\ Len(closures[f].upvalues) <= closures[f].upvalue_count
  /\ capturing \in BOOLEAN

(* The frames are nested, and a frame's slot 0 holds the closure that runs *)
(* in it, below the values the frame uses.                                 *)
FramesNested ==
  /\ \A j \in 1..Len(frames) :
       /\ frames[j].slots <= stack_top
       /\ j > 1 => frames[j - 1].slots < frames[j].slots
       /\ evalstack[frames[j].slots] = Temp(frames[j].closure)
  /\ frames = <<>> => evalstack = <<>>

(* The list has exactly the open upvalues, and the one whose slot is the   *)
(* closest to the top of the stack comes first: capture_upvalue() stops    *)
(* its search, and close_upvalues() its loop, on that understanding.       *)
OpenListSorted ==
  /\ ToSet(open_upvalues) = {u \in DOMAIN upvalues : Open(u)}
  /\ \A j \in 1..(Len(open_upvalues) - 1) :
       upvalues[open_upvalues[j]].location > upvalues[open_upvalues[j + 1]].location

(* An open upvalue points to a slot that is in use and still holds the     *)
(* variable that it was made for.                                          *)
OpenUpvaluesOnStack ==
  \A u \in ToSet(open_upvalues) :
    LET p == upvalues[u].location
    IN p \in 1..stack_top /\ evalstack[p].cell = upvalues[u].cell

(* A variable has at most one upvalue, so that the closures which share it *)
(* still do after it has left the stack.                                   *)
OneUpvaluePerVariable ==
  \A u, w \in DOMAIN upvalues : upvalues[u].cell = upvalues[w].cell => u = w

-----------------------------------------------------------------------------
(* Variables in the abstract: the cells of the slots, in the order of the  *)
(* stack, and of the upvalues.                                             *)

CellsOf(us) == [j \in DOMAIN us |-> upvalues[us[j]].cell]

(* The variables of frame j are in the first slots above its slot 0 (see   *)
(* LocalsFirst below).                                                     *)
LastSlot(j) == IF j = Len(frames) THEN stack_top ELSE frames[j + 1].slots - 1
FrameCells(j) ==
  [p \in {q \in 1..(LastSlot(j) - frames[j].slots) : IsVar(frames[j].slots + q)} |->
     evalstack[frames[j].slots + p].cell]

AbstractFrames ==
  [j \in 1..Len(frames) |-> [locals |-> FrameCells(j),
                             captured |-> CellsOf(Fn(frames[j].closure).upvalues)]]

AbstractClosures ==
  LET under_way == IF capturing THEN {TopValue} ELSE {}
  IN [f \in DOMAIN closures \ under_way |-> CellsOf(closures[f].upvalues)]

ValueOf(c) ==
  IF \E p \in 1..stack_top : evalstack[p].cell = c
    THEN evalstack[CHOOSE p \in 1..stack_top : evalstack[p].cell = c].val
    ELSE upvalues[CHOOSE u \in DOMAIN upvalues : upvalues[u].cell = c].closed

NamedCells ==
  (UNION {ToSet(AbstractFrames[j].locals) \cup ToSet(AbstractFrames[j].captured) :
            j \in 1..Len(frames)})
  \cup (UNION {ToSet(AbstractClosures[f]) : f \in DOMAIN AbstractClosures})

AbstractStore == [c \in NamedCells |-> ValueOf(c)]

Abstract == INSTANCE LexicalScoping
  WITH frames <- AbstractFrames, closures <- AbstractClosures, store <- AbstractStore

(* Stack slots and upvalues implement lexical scoping: every activation    *)
(* has its own variables, closures share the variables they mention, and   *)
(* these keep their last value after the activation has returned.          *)
ImplementsLexicalScoping == Abstract!Spec

(* What is read through an upvalue is the value of the variable.           *)
ReadsTheVariable == \A u \in DOMAIN upvalues : Deref(u) = ValueOf(upvalues[u].cell)

-----------------------------------------------------------------------------
(* The inductive invariant, on which the proofs in ClosuresProofs rest.    *)

(* Frames and list are ordered, not only next to next, and a script starts *)
(* at the bottom of the stack.                                             *)
FramesAscend ==
  /\ \A i, j \in 1..Len(frames) : i < j => frames[i].slots < frames[j].slots
  /\ frames # <<>> => frames[1].slots = 1
ListDescends ==
  \A i, j \in 1..Len(open_upvalues) :
    i < j => upvalues[open_upvalues[i]].location > upvalues[open_upvalues[j]].location

(* No two slots hold the same variable.                                    *)
CellsDistinct ==
  \A p, q \in 1..stack_top : IsVar(p) /\ evalstack[p].cell = evalstack[q].cell => p = q

(* A slot without a variable is a temporary.                               *)
TempsPlain == \A p \in 1..stack_top : ~IsVar(p) => evalstack[p] = Temp(evalstack[p].val)

(* In each frame the variables come before the temporaries.                *)
LocalsFirst ==
  \A j \in 1..Len(frames) : \A p, q \in (frames[j].slots + 1)..LastSlot(j) :
    q < p /\ IsVar(p) => IsVar(q)

(* Only a variable that the compiler knows to be captured is; so the end   *)
(* of its scope closes it.                                                 *)
CapturedKnown ==
  \A u \in ToSet(open_upvalues) : evalstack[upvalues[u].location].is_captured

(* A variable with a closed upvalue has left the stack.                    *)
ClosedLeftStack ==
  \A u \in DOMAIN upvalues : ~Open(u) =>
    \A p \in 1..stack_top : evalstack[p].cell # upvalues[u].cell

(* The closures that run, and the upvalues of every closure, exist.        *)
NothingFreed ==
  /\ \A j \in 1..Len(frames) : frames[j].closure \in DOMAIN closures \cup {Script}
  /\ \A f \in DOMAIN closures : ToSet(closures[f].upvalues) \subseteq DOMAIN upvalues

(* The closure under construction is on the top of the stack.  It does not *)
(* run, and it captures variables that its maker can name.                 *)
Nameable ==
  {evalstack[p].cell : p \in Locals} \cup {upvalues[u].cell : u \in ToSet(current.upvalues)}
UnderConstruction ==
  capturing =>
    /\ frames # <<>> /\ TopValue \in DOMAIN closures
    /\ \A j \in 1..Len(frames) : frames[j].closure # TopValue
    /\ \A u \in ToSet(closures[TopValue].upvalues) : upvalues[u].cell \in Nameable

(* The frames are nested, and no collection takes what the machine works   *)
(* on: the closures of its frames, the closure that CLOSURE is filling in, *)
(* and the upvalues of every closure, finished or not.                     *)
MachineIntact ==
  /\ FramesNested /\ NothingFreed
  /\ capturing => TopValue \in DOMAIN closures

StackInv ==
  /\ FramesNested /\ FramesAscend /\ LocalsFirst /\ CellsDistinct /\ TempsPlain
  /\ OpenListSorted /\ ListDescends
  /\ OpenUpvaluesOnStack /\ CapturedKnown /\ ClosedLeftStack
  /\ OneUpvaluePerVariable
ClosuresInv ==
  /\ TypeOK /\ IsFiniteSet(DOMAIN upvalues)
  /\ StackInv /\ NothingFreed /\ UnderConstruction
=============================================================================
