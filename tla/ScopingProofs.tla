---------------------------- MODULE ScopingProofs ----------------------------
(***************************************************************************)
(* Stack slots and upvalues implement lexical scoping: every step of the   *)
(* virtual machine is a step of LexicalScoping, or leaves its variables    *)
(* alone.                                                                  *)
(***************************************************************************)
EXTENDS ClosuresProofs

-----------------------------------------------------------------------------
(* The values of the variables *)

(* Every variable that can be named is in a slot or in a closed upvalue,   *)
(* and has the value that is there.                                        *)
InSlot(c) == \E p \in 1..stack_top : IsVar(p) /\ evalstack[p].cell = c
InUpvalue(c) == \E u \in DOMAIN upvalues : ~Open(u) /\ upvalues[u].cell = c
Faithful ==
  /\ \A c \in NamedCells : InSlot(c) \/ InUpvalue(c)
  /\ \A p \in 1..stack_top : IsVar(p) => ValueOf(evalstack[p].cell) = evalstack[p].val
  /\ \A u \in DOMAIN upvalues : ~Open(u) => ValueOf(upvalues[u].cell) = upvalues[u].closed

(* The cells of a frame are those of slots above its slot 0.               *)
LEMMA FrameCellsInSlots ==
  ASSUME ClosuresInv, NEW j \in 1..Len(frames), NEW p \in DOMAIN FrameCells(j)
  PROVE  LET q == frames[j].slots + p
         IN /\ p \in Nat \ {0} /\ p <= LastSlot(j) - frames[j].slots
            /\ q \in 1..stack_top /\ IsVar(q) /\ FrameCells(j)[p] = evalstack[q].cell
<1>1. /\ p \in 1..(LastSlot(j) - frames[j].slots) /\ IsVar(frames[j].slots + p)
      /\ FrameCells(j)[p] = evalstack[frames[j].slots + p].cell
  BY DEF FrameCells
<1>2. /\ frames[j].slots \in Nat \ {0} /\ LastSlot(j) \in Int /\ LastSlot(j) <= stack_top
      /\ stack_top \in Nat
  <2>1. /\ \A i \in 1..Len(frames) : frames[i].slots \in Nat \ {0} /\ frames[i].slots <= stack_top
        /\ Len(frames) \in Nat /\ stack_top \in Nat
    <3>1. \A i \in 1..Len(frames) : frames[i] \in FrameType /\ Len(frames) \in Nat
      BY DEF ClosuresInv, TypeOK
    <3>2. Len(frames) \in Nat
      BY DEF ClosuresInv, TypeOK
    <3>3. \A i \in 1..Len(frames) : frames[i].slots <= stack_top
      BY DEF ClosuresInv, StackInv, FramesNested
    <3> QED
      BY <3>1, <3>2, <3>3, SlotTypes DEF ClosuresInv, FrameType
  <2>2. j # Len(frames) => j + 1 \in 1..Len(frames)
    BY <2>1
  <2>3. CASE j = Len(frames)
    BY <2>1, <2>3 DEF LastSlot
  <2>4. CASE j # Len(frames)
    BY <2>1, <2>2, <2>4 DEF LastSlot
  <2> QED
    BY <2>3, <2>4
<1> QED
  BY <1>1, <1>2

(* An upvalue's variable is in a slot or in the upvalue.                   *)
LEMMA UpvalueHeld ==
  ASSUME ClosuresInv, NEW u \in DOMAIN upvalues
  PROVE  InSlot(upvalues[u].cell) \/ InUpvalue(upvalues[u].cell)
<1>1. CASE Open(u)
  BY <1>1, OpenPointsToVariable DEF Open, InSlot, ClosuresInv
<1>2. CASE ~Open(u)
  BY <1>2 DEF InUpvalue
<1> QED
  BY <1>1, <1>2

(* Every variable that can be named is in a slot or in a closed upvalue,   *)
(* and all places that have it agree on its value.                         *)
LEMMA FaithfulInv == ClosuresInv => Faithful
<1> SUFFICES ASSUME ClosuresInv PROVE Faithful
  OBVIOUS
<1>1. ASSUME NEW j \in 1..Len(frames), NEW c \in ToSet(FrameCells(j))
      PROVE  InSlot(c)
  <2>1. PICK p \in DOMAIN FrameCells(j) : c = FrameCells(j)[p]
    BY DEF ToSet
  <2> QED
    BY <2>1, FrameCellsInSlots DEF InSlot
<1>2. ASSUME NEW us, ToSet(us) \subseteq DOMAIN upvalues, NEW c \in ToSet(CellsOf(us))
      PROVE  InSlot(c) \/ InUpvalue(c)
  <2>1. PICK i \in DOMAIN us : c = upvalues[us[i]].cell
    BY DEF ToSet, CellsOf
  <2>2. us[i] \in DOMAIN upvalues
    BY <1>2 DEF ToSet
  <2> QED
    BY <2>1, <2>2, UpvalueHeld
<1>3. ASSUME NEW f \in DOMAIN closures \cup {Script}
      PROVE  ToSet(Fn(f).upvalues) \subseteq DOMAIN upvalues
  BY DEF Fn, ScriptFn, Made, ToSet, ClosuresInv, NothingFreed
<1>4. ASSUME NEW c \in NamedCells
      PROVE  InSlot(c) \/ InUpvalue(c)
  <2>1. CASE \E j \in 1..Len(frames) : c \in ToSet(FrameCells(j))
    BY <1>1, <2>1
  <2>2. CASE \E j \in 1..Len(frames) : c \in ToSet(CellsOf(Fn(frames[j].closure).upvalues))
    <3>1. PICK j \in 1..Len(frames) : c \in ToSet(CellsOf(Fn(frames[j].closure).upvalues))
      BY <2>2
    <3>2. frames[j].closure \in DOMAIN closures \cup {Script}
      BY DEF ClosuresInv, NothingFreed
    <3> QED
      BY <1>2, <1>3, <3>1, <3>2
  <2>3. CASE \E f \in DOMAIN closures : c \in ToSet(CellsOf(closures[f].upvalues))
    BY <1>2, <2>3 DEF ClosuresInv, NothingFreed
  <2>4. \/ \E j \in 1..Len(frames) :
             c \in ToSet(AbstractFrames[j].locals) \cup ToSet(AbstractFrames[j].captured)
        \/ \E f \in DOMAIN AbstractClosures : c \in ToSet(AbstractClosures[f])
    <3> DEFINE A(j) == ToSet(AbstractFrames[j].locals) \cup ToSet(AbstractFrames[j].captured)
               B(f) == ToSet(AbstractClosures[f])
    <3>1. c \in UNION {A(j) : j \in 1..Len(frames)}
          \/ c \in UNION {B(f) : f \in DOMAIN AbstractClosures}
      BY DEF NamedCells
    <3>2. CASE c \in UNION {A(j) : j \in 1..Len(frames)}
      <4>1. PICK T \in {A(j) : j \in 1..Len(frames)} : c \in T
        BY <3>2
      <4> QED
        BY <4>1
    <3>3. CASE c \in UNION {B(f) : f \in DOMAIN AbstractClosures}
      <4>1. PICK T \in {B(f) : f \in DOMAIN AbstractClosures} : c \in T
        BY <3>3
      <4> QED
        BY <4>1
    <3> QED
      BY <3>1, <3>2, <3>3
  <2>5. \A j \in 1..Len(frames) :
          /\ AbstractFrames[j].locals = FrameCells(j)
          /\ AbstractFrames[j].captured = CellsOf(Fn(frames[j].closure).upvalues)
    BY DEF AbstractFrames
  <2>6. \A f \in DOMAIN AbstractClosures :
          f \in DOMAIN closures /\ AbstractClosures[f] = CellsOf(closures[f].upvalues)
    BY DEF AbstractClosures
  <2>7. CASE \E j \in 1..Len(frames) :
               c \in ToSet(AbstractFrames[j].locals) \cup ToSet(AbstractFrames[j].captured)
    BY <2>1, <2>2, <2>5, <2>7
  <2>8. CASE \E f \in DOMAIN AbstractClosures : c \in ToSet(AbstractClosures[f])
    BY <2>3, <2>6, <2>8
  <2> QED
    BY <2>4, <2>7, <2>8
<1>5. \A p \in 1..stack_top : IsVar(p) => ValueOf(evalstack[p].cell) = evalstack[p].val
  BY ValueOnStack
<1>6. \A u \in DOMAIN upvalues : ~Open(u) => ValueOf(upvalues[u].cell) = upvalues[u].closed
  BY ValueInUpvalue
<1> QED
  BY <1>4, <1>5, <1>6 DEF Faithful

(* A step that assigns only to variables in X, if any, leaves the others   *)
(* their values: a slot that is kept keeps its value, one that holds a new *)
(* variable has a number that nobody used, and an upvalue that is closed   *)
(* has taken over the value.                                               *)
SlotValuesKept(X) ==
  \A p \in 1..stack_top' : IsVar(p)' =>
    \/ /\ p \in 1..stack_top /\ evalstack'[p].cell = evalstack[p].cell
       /\ evalstack'[p].val = evalstack[p].val \/ evalstack[p].cell \in X
    \/ evalstack'[p].cell \notin UsedCells
UpvalueValuesKept(X) ==
  \A u \in DOMAIN upvalues' : ~Open(u)' =>
    /\ u \in DOMAIN upvalues /\ upvalues'[u].cell = upvalues[u].cell
    /\ upvalues'[u].closed = Deref(u) \/ upvalues[u].cell \in X

(* A variable not in X that slots and upvalues keep has the value it had.  *)
LEMMA ValuesKept ==
  ASSUME ClosuresInv, ClosuresInv', NEW X, SlotValuesKept(X), UpvalueValuesKept(X),
         NEW c \in NamedCells, c \in NamedCells', c \notin X
  PROVE  ValueOf(c)' = ValueOf(c)
<1>1. Faithful
  BY FaithfulInv
<1>2. Faithful'
  <2>1. ClosuresInv' => Faithful'
    BY FaithfulInv, PTL
  <2> QED
    BY <2>1
<1>3. c \in UsedCells
  BY <1>1 DEF Faithful, InSlot, InUpvalue, UsedCells
<1>4. CASE InSlot(c)'
  <2>1. PICK p \in 1..stack_top' : IsVar(p)' /\ evalstack'[p].cell = c
    BY <1>4 DEF InSlot
  <2>2. ValueOf(c)' = evalstack'[p].val
    BY <1>2, <2>1 DEF Faithful
  <2>3. p \in 1..stack_top /\ evalstack[p].cell = c /\ evalstack'[p].val = evalstack[p].val
    BY <1>3, <2>1 DEF SlotValuesKept
  <2>4. IsVar(p)
    BY <2>1, <2>3 DEF IsVar
  <2>5. ValueOf(c) = evalstack[p].val
    BY <1>1, <2>3, <2>4 DEF Faithful
  <2> QED
    BY <2>2, <2>3, <2>5
<1>5. CASE InUpvalue(c)'
  <2>1. PICK u \in DOMAIN upvalues' : ~Open(u)' /\ upvalues'[u].cell = c
    BY <1>5 DEF InUpvalue
  <2>2. ValueOf(c)' = upvalues'[u].closed
    BY <1>2, <2>1 DEF Faithful
  <2>3. u \in DOMAIN upvalues /\ upvalues[u].cell = c /\ upvalues'[u].closed = Deref(u)
    BY <2>1 DEF UpvalueValuesKept
  <2>4. Deref(u) = ValueOf(c)
    BY <2>3, UpvalueReadsVariable
  <2> QED
    BY <2>2, <2>3, <2>4
<1> QED
  BY <1>2, <1>4, <1>5 DEF Faithful

(* The store has the variables that can be named.                          *)
LEMMA StoreDomain ==
  /\ DOMAIN AbstractStore = NamedCells
  /\ Abstract!Named(AbstractFrames, AbstractClosures) = NamedCells
<1>1. DOMAIN AbstractFrames = 1..Len(frames)
  BY DEF AbstractFrames
<1> QED
  BY <1>1 DEF AbstractStore, Abstract!Named, Abstract!InSeq, NamedCells, ToSet

(* If slots and upvalues keep all values, so does the abstract store.      *)
LEMMA StoreKept ==
  ASSUME ClosuresInv, ClosuresInv', SlotValuesKept({}), UpvalueValuesKept({})
  PROVE  Abstract!Kept
<1>1. /\ DOMAIN AbstractStore = NamedCells
      /\ \A c \in NamedCells : AbstractStore[c] = ValueOf(c)
  BY DEF AbstractStore
<1>2. /\ (DOMAIN AbstractStore)' = NamedCells'
      /\ \A c \in NamedCells' : AbstractStore'[c] = ValueOf(c)'
      /\ Abstract!Named(AbstractFrames, AbstractClosures)' = NamedCells'
  <2>1. (Abstract!Named(AbstractFrames, AbstractClosures) = NamedCells)'
    BY StoreDomain, PTL
  <2>2. (DOMAIN AbstractStore)' = NamedCells' /\ \A c \in NamedCells' : AbstractStore'[c] = ValueOf(c)'
    BY DEF AbstractStore
  <2> QED
    BY <2>1, <2>2
<1>3. \A c \in NamedCells \cap NamedCells' : AbstractStore'[c] = AbstractStore[c]
  BY <1>1, <1>2, ValuesKept
<1> QED
  BY <1>1, <1>2, <1>3 DEF Abstract!Kept

-----------------------------------------------------------------------------
(* The activations and the closures *)

(* The variables that a closure has captured.                              *)
Captures(f) == CellsOf(Fn(f).upvalues)

(* An activation is a frame.                                               *)
LEMMA Activations ==
  ASSUME TypeOK
  PROVE  /\ Len(frames) \in Nat /\ Len(AbstractFrames) = Len(frames)
         /\ DOMAIN AbstractFrames = 1..Len(frames)
         /\ \A j \in 1..Len(frames) :
              AbstractFrames[j] = [locals |-> FrameCells(j),
                                   captured |-> Captures(frames[j].closure)]
<1>1. Len(frames) \in Nat
  BY DEF TypeOK
<1>2. /\ DOMAIN AbstractFrames = 1..Len(frames)
      /\ \A j \in 1..Len(frames) :
           AbstractFrames[j] = [locals |-> FrameCells(j),
                                captured |-> Captures(frames[j].closure)]
  BY DEF AbstractFrames, Captures
<1>3. Len(AbstractFrames) = Len(frames)
  <2> DEFINE S == {AbstractFrames[j] : j \in 1..Len(frames)}
  <2>1. AbstractFrames = [j \in 1..Len(frames) |-> AbstractFrames[j]]
    BY DEF AbstractFrames
  <2>2. AbstractFrames \in [1..Len(frames) -> S]
    BY <2>1
  <2> HIDE DEF S
  <2>3. AbstractFrames \in Seq(S)
    BY <1>1, <2>2
  <2> QED
    BY <1>1, <1>2, <2>3
<1> QED
  BY <1>1, <1>2, <1>3

(* A closure that keeps its upvalues, and they their variables, captures   *)
(* what it did.                                                            *)
LEMMA CapturesKept ==
  ASSUME ClosuresInv, NEW f \in DOMAIN closures \cup {Script},
         f \in DOMAIN closures => closures'[f].upvalues = closures[f].upvalues,
         \A u \in ToSet(Fn(f).upvalues) : upvalues'[u].cell = upvalues[u].cell
  PROVE  Captures(f)' = Captures(f)
<1> DEFINE us == Fn(f).upvalues
<1>1. us' = us
  BY DEF Fn, ScriptFn, Made
<1>2. \A j \in DOMAIN us : upvalues'[us[j]].cell = upvalues[us[j]].cell
  BY DEF ToSet
<1>3. Captures(f)' = [j \in DOMAIN us' |-> upvalues'[us'[j]].cell]
  BY DEF Captures, CellsOf
<1>4. Captures(f) = [j \in DOMAIN us |-> upvalues[us[j]].cell]
  BY DEF Captures, CellsOf
<1> HIDE DEF us
<1> QED
  BY <1>1, <1>2, <1>3, <1>4

(* A frame whose slots keep their variables has the variables it had.      *)
LEMMA FrameCellsKept ==
  ASSUME NEW j, frames'[j] = frames[j], frames[j].slots \in Nat,
         LastSlot(j) \in Int, LastSlot(j)' \in Int,
         \A q \in (frames[j].slots + 1)..LastSlot(j) :
           IsVar(q) => q <= LastSlot(j)' /\ evalstack'[q].cell = evalstack[q].cell,
         \A q \in (frames[j].slots + 1)..LastSlot(j)' :
           evalstack'[q].cell # 0 => q <= LastSlot(j) /\ evalstack'[q].cell = evalstack[q].cell
  PROVE  FrameCells(j)' = FrameCells(j)
<1> DEFINE base == frames[j].slots
           last == LastSlot(j)
           A == {q \in 1..(last - base) : IsVar(base + q)}
           B == {q \in 1..(last' - base) : evalstack'[base + q].cell # 0}
<1>1. ASSUME NEW q \in A PROVE q \in B /\ evalstack'[base + q].cell = evalstack[base + q].cell
  <2>1. base + q \in (base + 1)..last /\ IsVar(base + q)
    OBVIOUS
  <2> QED
    BY <2>1 DEF IsVar
<1>2. ASSUME NEW q \in B PROVE q \in A
  <2>1. base + q \in (base + 1)..last' /\ evalstack'[base + q].cell # 0
    OBVIOUS
  <2> QED
    BY <2>1 DEF IsVar
<1>3. A = B
  BY <1>1, <1>2
<1>4. FrameCells(j) = [q \in A |-> evalstack[base + q].cell]
  BY DEF FrameCells
<1>5. FrameCells(j)' = [q \in B |-> evalstack'[base + q].cell]
  BY DEF FrameCells, IsVar
<1> HIDE DEF A, B
<1> QED
  BY <1>1, <1>3, <1>4, <1>5

(* Frames that keep variables and captures are the same activations.       *)
LEMMA ActivationsKept ==
  ASSUME Len(frames') = Len(frames),
         \A j \in 1..Len(frames) :
           /\ FrameCells(j)' = FrameCells(j)
           /\ Captures(frames[j].closure)' = Captures(frames[j].closure)
  PROVE  AbstractFrames' = AbstractFrames
  BY DEF AbstractFrames, Captures

(* If only the variables of the last frame change, its activation gets     *)
(* other local variables.                                                  *)
LEMMA LocalsChanged ==
  ASSUME TypeOK, frames # <<>>, Len(frames') = Len(frames),
         \A j \in 1..(Len(frames) - 1) : FrameCells(j)' = FrameCells(j),
         \A j \in 1..Len(frames) : Captures(frames[j].closure)' = Captures(frames[j].closure)
  PROVE  /\ AbstractFrames' = Abstract!WithLocals(FrameCells(Len(frames))')
         /\ Abstract!Current.locals = FrameCells(Len(frames))
         /\ AbstractFrames # <<>>
<1> DEFINE n == Len(frames)
           ls == FrameCells(n)'
<1>1. n \in Nat \ {0} /\ Len(AbstractFrames) = n
  BY Activations DEF TypeOK
<1>2. AbstractFrames' = [j \in 1..n |-> [locals |-> FrameCells(j)',
                                         captured |-> Captures(frames[j].closure)']]
  BY DEF AbstractFrames, Captures
<1>3. /\ DOMAIN AbstractFrames = 1..n
      /\ \A j \in 1..n : AbstractFrames[j] = [locals |-> FrameCells(j),
                                              captured |-> Captures(frames[j].closure)]
  BY Activations
<1>4. Abstract!WithLocals(ls) = [AbstractFrames EXCEPT ![n].locals = ls]
  BY <1>1 DEF Abstract!WithLocals
<1>5. Abstract!Current.locals = FrameCells(n) /\ AbstractFrames # <<>>
  BY <1>1, <1>3 DEF Abstract!Current
<1> DEFINE F == AbstractFrames
           G == [F EXCEPT ![n].locals = ls]
<1>6. ASSUME NEW j \in 1..n
      PROVE  G[j] = [locals |-> FrameCells(j)', captured |-> Captures(frames[j].closure)']
  <2>1. CASE j = n
    <3>1. G[j] = [F[n] EXCEPT !.locals = ls]
      BY <1>1, <1>3, <2>1
    <3>2. F[n] = [locals |-> FrameCells(n), captured |-> Captures(frames[n].closure)]
      BY <1>1, <1>3
    <3>3. [F[n] EXCEPT !.locals = ls] = [locals |-> ls, captured |-> Captures(frames[n].closure)]
      BY <3>2
    <3> QED
      BY <2>1, <3>1, <3>3
  <2>2. CASE j # n
    BY <1>1, <1>3, <2>2
  <2> QED
    BY <2>1, <2>2
<1>7. DOMAIN G = 1..n /\ G = [j \in 1..n |-> G[j]]
  BY <1>3
<1>8. G = AbstractFrames'
  <2> HIDE DEF G
  <2> QED
    BY <1>2, <1>6, <1>7
<1> QED
  BY <1>4, <1>5, <1>8

(* Closures that are not under construction, and are left alone as their   *)
(* upvalues' variables are, capture what they did.                         *)
LEMMA ClosuresKept ==
  ASSUME ClosuresInv, ~capturing, UNCHANGED <<closures, capturing>>,
         \A u \in DOMAIN upvalues : upvalues'[u].cell = upvalues[u].cell
  PROVE  /\ AbstractClosures' = AbstractClosures
         /\ \A j \in 1..Len(frames) : frames'[j] = frames[j] =>
              Captures(frames[j].closure)' = Captures(frames[j].closure)
         /\ AbstractClosures = [f \in DOMAIN closures |-> Captures(f)]
<1>1. ASSUME NEW f \in DOMAIN closures \cup {Script}
      PROVE  Captures(f)' = Captures(f)
  <2>1. ToSet(Fn(f).upvalues) \subseteq DOMAIN upvalues
    BY DEF Fn, ScriptFn, Made, ToSet, ClosuresInv, NothingFreed
  <2> QED
    BY <2>1, CapturesKept
<1>2. Script \notin DOMAIN closures
  BY ValuesAssumption DEF ClosuresInv, TypeOK
<1>3. AbstractClosures = [f \in DOMAIN closures |-> Captures(f)]
  BY <1>2 DEF AbstractClosures, Captures, Fn
<1>4. AbstractClosures' = [f \in DOMAIN closures |-> Captures(f)']
  BY <1>2 DEF AbstractClosures, Captures, Fn
<1>5. \A j \in 1..Len(frames) : frames[j].closure \in DOMAIN closures \cup {Script}
  BY DEF ClosuresInv, NothingFreed
<1>6. ASSUME NEW j \in 1..Len(frames), frames'[j] = frames[j]
      PROVE  Captures(frames[j].closure)' = Captures(frames[j].closure)
  <2>1. PICK f \in DOMAIN closures \cup {Script} : frames[j].closure = f
    BY <1>5
  <2>2. Captures(frames[j].closure)' = Captures(f)' /\ Captures(frames[j].closure) = Captures(f)
    BY <1>6, <2>1 DEF Captures
  <2> QED
    BY <1>1, <2>2
<1> QED
  BY <1>1, <1>3, <1>4, <1>6

(* The numbers that delimit the frames.                                    *)
LEMMA FrameLimits ==
  ASSUME ClosuresInv, NEW j \in 1..Len(frames)
  PROVE  /\ Len(frames) \in Nat /\ stack_top \in Nat
         /\ frames[j].slots \in Nat \ {0} /\ frames[j].slots <= LastSlot(j)
         /\ LastSlot(j) \in Nat /\ LastSlot(j) <= stack_top
         /\ j = Len(frames) => LastSlot(j) = stack_top
         /\ j # Len(frames) => LastSlot(j) = frames[j + 1].slots - 1
<1>1. Len(frames) \in Nat /\ \A i \in 1..Len(frames) : frames[i] \in FrameType
  BY DEF ClosuresInv, TypeOK
<1>2. \A i \in 1..Len(frames) : frames[i].slots \in Nat \ {0}
  BY <1>1 DEF FrameType
<1>3. stack_top \in Nat /\ \A i \in 1..Len(frames) : frames[i].slots <= stack_top
  BY SlotTypes DEF ClosuresInv, StackInv, FramesNested
<1>4. CASE j = Len(frames)
  BY <1>1, <1>2, <1>3, <1>4 DEF LastSlot
<1>5. CASE j # Len(frames)
  <2>1. j + 1 \in 1..Len(frames) /\ j < j + 1
    BY <1>1, <1>5
  <2>2. frames[j].slots < frames[j + 1].slots
    BY <2>1 DEF ClosuresInv, StackInv, FramesAscend
  <2>3. LastSlot(j) = frames[j + 1].slots - 1
    BY <1>5 DEF LastSlot
  <2> QED
    BY <1>1, <1>2, <1>3, <1>5, <2>1, <2>2, <2>3
<1> QED
  BY <1>4, <1>5

(* The slots with variables are the same as before.                        *)
VarsKept ==
  /\ \A q \in 1..stack_top : IsVar(q) => q <= stack_top' /\ evalstack'[q].cell = evalstack[q].cell
  /\ \A q \in 1..stack_top' : evalstack'[q].cell # 0 =>
       q <= stack_top /\ evalstack'[q].cell = evalstack[q].cell

(* Frame j of the same frames keeps its variables if the slots up to the   *)
(* end of the frame keep theirs.                                           *)
LEMMA LowerFrames ==
  ASSUME ClosuresInv, ClosuresInv', UNCHANGED frames, NEW j \in 1..(Len(frames) - 1),
         \A q \in 1..slots : evalstack'[q].cell = evalstack[q].cell
  PROVE  FrameCells(j)' = FrameCells(j)
<1> DEFINE last == LastSlot(j)
<1>1. j \in 1..Len(frames) /\ j + 1 \in 1..Len(frames) /\ j # Len(frames) /\ frames # <<>>
  BY DEF ClosuresInv, TypeOK
<1>2. frames[j].slots \in Nat /\ last \in Nat /\ last = frames[j + 1].slots - 1
  BY <1>1, FrameLimits
<1>3. last' = last
  BY <1>1 DEF LastSlot
<1>4. frames[j + 1].slots \in 1..slots /\ slots \in Nat
  BY <1>1, FrameBases, CurrentFrame DEF ClosuresInv, StackInv
<1>5. \A q \in (frames[j].slots + 1)..last : q \in 1..slots
  BY <1>2, <1>4
<1>6. \A q \in (frames[j].slots + 1)..last : q <= last /\ evalstack'[q].cell = evalstack[q].cell
  BY <1>2, <1>5
<1> HIDE DEF last
<1> QED
  BY <1>2, <1>3, <1>6, FrameCellsKept DEF last

(* If no slot gets or loses a variable, every frame has the variables it   *)
(* had.                                                                    *)
LEMMA AllFrames ==
  ASSUME ClosuresInv, ClosuresInv', UNCHANGED frames, NEW j \in 1..Len(frames), VarsKept
  PROVE  FrameCells(j)' = FrameCells(j)
<1>1. /\ frames[j].slots \in Nat \ {0} /\ LastSlot(j) \in Nat /\ LastSlot(j) <= stack_top
      /\ Len(frames) \in Nat /\ stack_top \in Nat
  BY FrameLimits
<1>2. stack_top' \in Nat
  <2>1. (stack_top \in Nat)'
    BY DEF ClosuresInv, TypeOK, stack_top
  <2> QED
    BY <2>1
<1>3. \A q \in 1..stack_top : ~IsVar(q) /\ q <= stack_top' => evalstack'[q].cell = evalstack[q].cell
  BY <1>1, <1>2 DEF VarsKept, IsVar
<1>4. CASE j = Len(frames)
  <2>1. LastSlot(j) = stack_top /\ LastSlot(j)' = stack_top'
    BY <1>4 DEF LastSlot
  <2>2. \A q \in (frames[j].slots + 1)..stack_top : q \in 1..stack_top
    BY <1>1
  <2>3. \A q \in (frames[j].slots + 1)..stack_top' : q \in 1..stack_top'
    BY <1>1, <1>2
  <2>4. frames'[j] = frames[j] /\ frames[j].slots \in Nat /\ LastSlot(j) \in Int /\ LastSlot(j)' \in Int
    BY <1>1, <1>2, <2>1
  <2> QED
    BY <2>1, <2>2, <2>3, <2>4, FrameCellsKept DEF VarsKept
<1>5. CASE j # Len(frames)
  <2>1. j \in 1..(Len(frames) - 1) /\ frames # <<>>
    BY <1>1, <1>5
  <2>2. slots \in Nat /\ slots <= stack_top /\ slots <= stack_top'
    <3>1. slots \in Nat /\ slots <= stack_top /\ Len(frames) \in 1..Len(frames)
      BY <1>1, <2>1, CurrentFrame DEF ClosuresInv, StackInv
    <3>2. \A i \in 1..Len(frames') : frames'[i].slots <= stack_top'
      BY DEF ClosuresInv, StackInv, FramesNested
    <3> QED
      BY <3>1, <3>2 DEF slots, current_frame
  <2>3. ASSUME NEW q \in 1..slots PROVE evalstack'[q].cell = evalstack[q].cell
    <3>1. q \in 1..stack_top /\ q <= stack_top'
      BY <1>1, <1>2, <2>2
    <3> QED
      BY <1>3, <3>1 DEF VarsKept
  <2> QED
    BY <2>1, <2>3, LowerFrames
<1> QED
  BY <1>4, <1>5

(* A step that lets every name and every value be is none of the abstract  *)
(* specification.                                                          *)
LEMMA Unseen ==
  ASSUME ClosuresInv, ClosuresInv', UNCHANGED <<AbstractFrames, AbstractClosures>>,
         SlotValuesKept({}), UpvalueValuesKept({})
  PROVE  UNCHANGED <<AbstractFrames, AbstractClosures, AbstractStore>>
<1>1. NamedCells = Abstract!Named(AbstractFrames, AbstractClosures)
  BY StoreDomain
<1>2. NamedCells' = Abstract!Named(AbstractFrames', AbstractClosures')
  <2>1. (Abstract!Named(AbstractFrames, AbstractClosures) = NamedCells)'
    BY StoreDomain, PTL
  <2> QED
    BY <2>1
<1>3. NamedCells' = NamedCells
  BY <1>1, <1>2
<1>4. AbstractStore' = [c \in NamedCells' |-> ValueOf(c)']
  BY DEF AbstractStore
<1>5. \A c \in NamedCells : ValueOf(c)' = ValueOf(c)
  BY <1>3, ValuesKept
<1> QED
  BY <1>3, <1>4, <1>5 DEF AbstractStore

(* Upvalues that are left alone keep their values.                         *)
LEMMA UpvaluesAlone ==
  ASSUME UNCHANGED upvalues, NEW X
  PROVE  UpvalueValuesKept(X)
  BY DEF UpvalueValuesKept, Open, Deref

-----------------------------------------------------------------------------
(* Expressions *)

(* A slot on the top of the stack.                                         *)
LEMMA Pushed ==
  ASSUME ClosuresInv, NEW s \in SlotType, evalstack' = Append(evalstack, s)
  PROVE  /\ stack_top \in Nat /\ stack_top' = stack_top + 1
         /\ \A p \in 1..stack_top : evalstack'[p] = evalstack[p]
         /\ evalstack'[stack_top + 1] = s
         /\ \A p \in 1..stack_top' : p \in 1..stack_top \/ p = stack_top + 1
<1>1. /\ Len(evalstack') = stack_top + 1
      /\ \A p \in 1..stack_top : evalstack'[p] = evalstack[p]
      /\ evalstack'[stack_top + 1] = s
  BY AppendProperties DEF ClosuresInv, TypeOK, stack_top
<1>2. stack_top \in Nat
  BY SlotTypes DEF ClosuresInv
<1>3. stack_top' = Len(evalstack')
  BY DEF stack_top
<1> QED
  BY <1>1, <1>2, <1>3

(* The slots above slot n are removed.                                     *)
LEMMA Cut ==
  ASSUME ClosuresInv, NEW n \in 0..stack_top, evalstack' = SubSeq(evalstack, 1, n)
  PROVE  stack_top' = n /\ \A p \in 1..n : evalstack'[p] = evalstack[p]
<1>1. n \in Nat /\ \A p \in 1..n : evalstack[p] \in SlotType
  BY SlotTypes DEF ClosuresInv
<1>2. /\ Len(evalstack') = IF 1 <= n THEN n - 1 + 1 ELSE 0
      /\ \A p \in 1..(n - 1 + 1) : evalstack'[p] = evalstack[1 + p - 1]
  BY <1>1, SubSeqProperties
<1>3. stack_top' = Len(evalstack')
  BY DEF stack_top
<1> QED
  BY <1>1, <1>2, <1>3

(* If the slots with variables are the same, with the same values, and     *)
(* nothing else happens, the abstract specification sees nothing.          *)
LEMMA OnlyTemporaries ==
  ASSUME ClosuresInv, ClosuresInv', ~capturing,
         UNCHANGED <<frames, open_upvalues, upvalues, closures, capturing>>,
         VarsKept, SlotValuesKept({})
  PROVE  UNCHANGED <<AbstractFrames, AbstractClosures, AbstractStore>>
<1>1. /\ AbstractClosures' = AbstractClosures
      /\ \A j \in 1..Len(frames) : Captures(frames[j].closure)' = Captures(frames[j].closure)
  BY ClosuresKept
<1>2. \A j \in 1..Len(frames) : FrameCells(j)' = FrameCells(j)
  BY AllFrames
<1>3. AbstractFrames' = AbstractFrames
  BY <1>1, <1>2, ActivationsKept
<1> QED
  BY <1>1, <1>3, Unseen, UpvaluesAlone

(* Pushing a temporary changes no variable.                                *)
LEMMA TempPushed ==
  ASSUME ClosuresInv, NEW v \in Value, evalstack' = Append(evalstack, Temp(v))
  PROVE  VarsKept /\ SlotValuesKept({})
<1>1. /\ stack_top \in Nat /\ stack_top' = stack_top + 1
      /\ \A p \in 1..stack_top : evalstack'[p] = evalstack[p]
      /\ evalstack'[stack_top + 1] = Temp(v)
      /\ \A p \in 1..stack_top' : p \in 1..stack_top \/ p = stack_top + 1
  BY TempType, Pushed
<1>2. Temp(v).cell = 0
  BY DEF Temp
<1>3. \A p \in 1..stack_top' : evalstack'[p].cell # 0 => p \in 1..stack_top
  BY <1>1, <1>2
<1>4. VarsKept
  <2>1. stack_top \in Nat /\ stack_top' = stack_top + 1
    BY <1>1
  <2>2. \A p \in 1..stack_top : p <= stack_top' /\ p <= stack_top
    BY <2>1
  <2> QED
    BY <1>1, <1>3, <2>2 DEF VarsKept
<1>5. SlotValuesKept({})
  BY <1>1, <1>3 DEF SlotValuesKept, IsVar
<1> QED
  BY <1>4, <1>5

(* Pushing a value is no step of the abstract specification.               *)
LEMMA PushStep ==
  ASSUME ClosuresInv, ClosuresInv', NEW v \in Vals \cup DOMAIN closures, Push(v)
  PROVE  UNCHANGED <<AbstractFrames, AbstractClosures, AbstractStore>>
<1>1. v \in Value
  BY DEF ClosuresInv, TypeOK, Value
<1> QED
  BY <1>1, TempPushed, OnlyTemporaries DEF Push, Ready

(* LOAD_LOCAL is no step of the abstract specification.                    *)
LEMMA LoadLocalStep ==
  ASSUME ClosuresInv, ClosuresInv', NEW p \in 1..stack_top, LoadLocal(p)
  PROVE  UNCHANGED <<AbstractFrames, AbstractClosures, AbstractStore>>
<1>1. evalstack[p].val \in Value
  BY SlotTypes DEF ClosuresInv
<1> QED
  BY <1>1, TempPushed, OnlyTemporaries DEF LoadLocal, Ready

(* LOAD_UPVALUE is no step of the abstract specification.                  *)
LEMMA LoadUpvalueStep ==
  ASSUME ClosuresInv, ClosuresInv', NEW j, LoadUpvalue(j)
  PROVE  UNCHANGED <<AbstractFrames, AbstractClosures, AbstractStore>>
<1>1. Deref(current.upvalues[j]) \in Value
  BY CurrentUpvalue, DerefType DEF LoadUpvalue, Ready
<1> QED
  BY <1>1, TempPushed, OnlyTemporaries DEF LoadUpvalue, Ready

(* Popping a temporary is no step of the abstract specification.           *)
LEMMA PopTempStep ==
  ASSUME ClosuresInv, ClosuresInv', PopTemp
  PROVE  UNCHANGED <<AbstractFrames, AbstractClosures, AbstractStore>>
<1> DEFINE n == stack_top - 1
<1>1. /\ frames # <<>> /\ ~capturing /\ stack_top > slots /\ ~IsVar(stack_top)
      /\ evalstack' = SubSeq(evalstack, 1, n)
      /\ UNCHANGED <<frames, open_upvalues, upvalues, closures, capturing>>
  BY DEF PopTemp, Ready, Pop
<1>2. stack_top \in Nat /\ n \in 0..stack_top /\ n < stack_top
      /\ (\A p \in 1..stack_top : p \in 1..n \/ p = stack_top)
      /\ \A p \in 1..n : p \in 1..stack_top /\ p <= n
  BY <1>1, CurrentFrame DEF ClosuresInv, StackInv
<1>3. stack_top' = n /\ \A p \in 1..n : evalstack'[p] = evalstack[p]
  <2> HIDE DEF n
  <2> QED
    BY <1>1, <1>2, Cut
<1> HIDE DEF n
<1>4. \A p \in 1..stack_top : IsVar(p) => p \in 1..n
  BY <1>1, <1>2
<1>5. VarsKept
  <2>1. \A p \in 1..n : p <= stack_top /\ p <= n /\ evalstack'[p] = evalstack[p]
    BY <1>2, <1>3
  <2> QED
    BY <1>3, <1>4, <2>1 DEF VarsKept
<1>6. SlotValuesKept({})
  BY <1>2, <1>3 DEF SlotValuesKept
<1> QED
  BY <1>1, <1>5, <1>6, OnlyTemporaries

-----------------------------------------------------------------------------
(* Assignments *)

(* What the compiler lets a function name, its activation can see.         *)
LEMMA NameableVisible ==
  ASSUME ClosuresInv, frames # <<>>
  PROVE  Nameable \subseteq Abstract!Visible /\ AbstractFrames # <<>>
<1> DEFINE n == Len(frames)
<1>1. n \in Nat \ {0} /\ n \in 1..n /\ Len(AbstractFrames) = n
  BY Activations DEF ClosuresInv, TypeOK
<1>2. AbstractFrames[n] = [locals |-> FrameCells(n), captured |-> Captures(frames[n].closure)]
  BY <1>1, Activations DEF ClosuresInv
<1>3. /\ Abstract!Current.locals = FrameCells(n)
      /\ Abstract!Current.captured = Captures(frames[n].closure)
      /\ AbstractFrames # <<>>
  BY <1>1, <1>2 DEF Abstract!Current
<1>4. slots = frames[n].slots /\ LastSlot(n) = stack_top /\ slots \in Nat /\ stack_top \in Nat
  BY CurrentFrame DEF slots, current_frame, LastSlot, ClosuresInv, StackInv
<1>5. ASSUME NEW p \in Locals
      PROVE  evalstack[p].cell \in ToSet(FrameCells(n))
  <2> DEFINE q == p - slots
  <2>1. p \in (slots + 1)..stack_top /\ IsVar(p)
    BY DEF Locals
  <2>2. q \in 1..(stack_top - slots) /\ slots + q = p
    BY <1>4, <2>1
  <2> HIDE DEF q
  <2>3. q \in DOMAIN FrameCells(n) /\ FrameCells(n)[q] = evalstack[p].cell
    BY <1>4, <2>1, <2>2 DEF FrameCells
  <2> QED
    BY <2>3 DEF ToSet
<1>6. ASSUME NEW u \in ToSet(current.upvalues)
      PROVE  upvalues[u].cell \in ToSet(Captures(frames[n].closure))
  BY DEF current, current_frame, Captures, CellsOf, ToSet
<1>7. \A c \in Nameable : c \in ToSet(FrameCells(n)) \/ c \in ToSet(Captures(frames[n].closure))
  BY <1>5, <1>6 DEF Nameable
<1> QED
  BY <1>3, <1>7 DEF Abstract!Visible, Abstract!InSeq, ToSet

(* A step that gives another value to variable v, and to no other.         *)
LEMMA Assigned ==
  ASSUME ClosuresInv, ClosuresInv', frames # <<>>, NEW v \in Nameable,
         UNCHANGED <<AbstractFrames, AbstractClosures>>,
         SlotValuesKept({v}), UpvalueValuesKept({v})
  PROVE  Abstract!Assign
<1>1. NamedCells = Abstract!Named(AbstractFrames, AbstractClosures)
  BY StoreDomain
<1>2. NamedCells' = Abstract!Named(AbstractFrames', AbstractClosures')
  <2>1. (Abstract!Named(AbstractFrames, AbstractClosures) = NamedCells)'
    BY StoreDomain, PTL
  <2> QED
    BY <2>1
<1>3. NamedCells' = NamedCells
  BY <1>1, <1>2
<1>4. AbstractStore' = [c \in NamedCells' |-> ValueOf(c)']
  BY DEF AbstractStore
<1>5. \A c \in NamedCells : c # v => ValueOf(c)' = ValueOf(c)
  BY <1>3, ValuesKept
<1>6. /\ DOMAIN AbstractStore' = DOMAIN AbstractStore
      /\ \A w \in DOMAIN AbstractStore : w # v => AbstractStore'[w] = AbstractStore[w]
  BY <1>3, <1>4, <1>5 DEF AbstractStore
<1>7. v \in Abstract!Visible /\ AbstractFrames # <<>>
  BY NameableVisible
<1> QED
  BY <1>6, <1>7 DEF Abstract!Assign

(* The value of the variable in slot p changes.                            *)
LEMMA SlotStored ==
  ASSUME ClosuresInv, NEW p \in 1..stack_top, NEW v \in Value,
         evalstack' = [evalstack EXCEPT ![p].val = v]
  PROVE  VarsKept /\ SlotValuesKept({evalstack[p].cell})
<1> DEFINE s == [evalstack[p] EXCEPT !.val = v]
<1>1. ASSUME NEW r \in SlotType
      PROVE  LET t == [r EXCEPT !.val = v] IN t \in SlotType /\ t.cell = r.cell
  BY DEF SlotType
<1>2. evalstack[p] \in SlotType /\ stack_top \in Nat
  BY SlotTypes DEF ClosuresInv
<1>3. s \in SlotType /\ s.cell = evalstack[p].cell
  BY <1>1, <1>2
<1>4. evalstack' = [evalstack EXCEPT ![p] = s]
  OBVIOUS
<1> HIDE DEF s
<1>5. /\ Len(evalstack') = stack_top
      /\ \A q \in 1..stack_top : evalstack'[q] = IF q = p THEN s ELSE evalstack[q]
  <2>1. evalstack \in Seq(SlotType) /\ p \in 1..Len(evalstack) /\ s \in SlotType
    BY <1>3 DEF ClosuresInv, TypeOK, stack_top
  <2> QED
    BY <1>4, <2>1, ExceptSeq DEF stack_top
<1>6. stack_top' = stack_top /\ \A q \in 1..stack_top : q <= stack_top
  BY <1>2, <1>5 DEF stack_top
<1>7. \A q \in 1..stack_top : evalstack'[q].cell = evalstack[q].cell
                              /\ (q # p => evalstack'[q].val = evalstack[q].val)
  BY <1>3, <1>5
<1>8. VarsKept
  BY <1>6, <1>7 DEF VarsKept
<1>9. SlotValuesKept({evalstack[p].cell})
  BY <1>6, <1>7 DEF SlotValuesKept
<1> QED
  BY <1>8, <1>9

(* Frames, closures and captures are the same when the slots with          *)
(* variables, and the upvalues' variables, are.                            *)
LEMMA NamesKept ==
  ASSUME ClosuresInv, ClosuresInv', ~capturing, UNCHANGED <<frames, closures, capturing>>,
         VarsKept, \A u \in DOMAIN upvalues : upvalues'[u].cell = upvalues[u].cell
  PROVE  UNCHANGED <<AbstractFrames, AbstractClosures>>
<1>1. /\ AbstractClosures' = AbstractClosures
      /\ \A j \in 1..Len(frames) : Captures(frames[j].closure)' = Captures(frames[j].closure)
  BY ClosuresKept
<1>2. \A j \in 1..Len(frames) : FrameCells(j)' = FrameCells(j)
  BY AllFrames
<1>3. AbstractFrames' = AbstractFrames
  BY <1>1, <1>2, ActivationsKept
<1> QED
  BY <1>1, <1>3

(* STORE_LOCAL assigns to a visible variable.                              *)
LEMMA StoreLocalStep ==
  ASSUME ClosuresInv, ClosuresInv', NEW p \in 1..stack_top, StoreLocal(p)
  PROVE  Abstract!Assign
<1>1. /\ frames # <<>> /\ ~capturing /\ p \in Locals
      /\ evalstack' = [evalstack EXCEPT ![p].val = TopValue]
      /\ UNCHANGED <<frames, open_upvalues, upvalues, closures, capturing>>
  BY DEF StoreLocal, Ready
<1>2. VarsKept /\ SlotValuesKept({evalstack[p].cell})
  BY <1>1, TopValueType, SlotStored
<1>3. UNCHANGED <<AbstractFrames, AbstractClosures>>
  BY <1>1, <1>2, NamesKept
<1>4. evalstack[p].cell \in Nameable
  BY <1>1 DEF Nameable
<1> QED
  BY <1>1, <1>2, <1>3, <1>4, UpvaluesAlone, Assigned

(* STORE_UPVALUE assigns to a visible variable, wherever it lives.         *)
LEMMA StoreUpvalueStep ==
  ASSUME ClosuresInv, ClosuresInv', NEW j, StoreUpvalue(j)
  PROVE  Abstract!Assign
<1> DEFINE u == current.upvalues[j]
           c == upvalues[u].cell
<1>1. /\ frames # <<>> /\ ~capturing /\ j \in DOMAIN current.upvalues
      /\ UNCHANGED <<frames, open_upvalues, closures, capturing>>
  BY DEF StoreUpvalue, Ready
<1>2. u \in DOMAIN upvalues /\ TopValue \in Value /\ c \in Nameable
  <2>1. u \in ToSet(current.upvalues)
    BY <1>1 DEF ToSet
  <2> QED
    BY <1>1, <2>1, CurrentUpvalue, TopValueType DEF Nameable
<1>3. CASE Open(u)
  <2> DEFINE p == upvalues[u].location
  <2>1. evalstack' = [evalstack EXCEPT ![p].val = TopValue] /\ UNCHANGED upvalues
    BY <1>3 DEF StoreUpvalue
  <2>2. p \in 1..stack_top /\ evalstack[p].cell = c
    BY <1>2, <1>3, OpenPointsToVariable DEF ClosuresInv, Open
  <2> HIDE DEF u, p
  <2>3. VarsKept /\ SlotValuesKept({c})
    BY <1>2, <2>1, <2>2, SlotStored
  <2>4. UNCHANGED <<AbstractFrames, AbstractClosures>>
    BY <1>1, <2>1, <2>3, NamesKept
  <2> QED
    BY <1>1, <1>2, <2>1, <2>3, <2>4, UpvaluesAlone, Assigned
<1>4. CASE ~Open(u)
  <2>1. upvalues' = [upvalues EXCEPT ![u].closed = TopValue] /\ UNCHANGED evalstack
    BY <1>4 DEF StoreUpvalue
  <2> HIDE DEF u
  <2>2. ASSUME NEW r \in UpvalueType, NEW v \in Value
        PROVE  LET t == [r EXCEPT !.closed = v] IN t.cell = r.cell /\ t.location = r.location
    BY DEF UpvalueType
  <2>3. DOMAIN upvalues' = DOMAIN upvalues
    BY <2>1
  <2>4. ASSUME NEW w \in DOMAIN upvalues
        PROVE  /\ upvalues'[w].cell = upvalues[w].cell
               /\ upvalues'[w].location = upvalues[w].location
               /\ w # u => upvalues'[w] = upvalues[w]
    <3>1. upvalues[w] \in UpvalueType
      BY DEF ClosuresInv, TypeOK
    <3>2. CASE w = u
      <4>1. upvalues'[w] = [upvalues[w] EXCEPT !.closed = TopValue]
        BY <1>2, <2>1, <3>2
      <4> QED
        BY <1>2, <2>2, <3>1, <3>2, <4>1
    <3>3. CASE w # u
      BY <2>1, <3>3
    <3> QED
      BY <3>2, <3>3
  <2>5. VarsKept /\ SlotValuesKept({c})
    <3>1. \A q \in 1..stack_top : q <= stack_top
      BY SlotTypes DEF ClosuresInv
    <3> QED
      BY <2>1, <3>1 DEF VarsKept, SlotValuesKept, stack_top
  <2>6. UpvalueValuesKept({c})
    BY <2>3, <2>4 DEF UpvalueValuesKept, Open, Deref
  <2>7. UNCHANGED <<AbstractFrames, AbstractClosures>>
    BY <1>1, <2>4, <2>5, NamesKept
  <2> QED
    BY <1>1, <1>2, <2>5, <2>6, <2>7, Assigned
<1> QED
  BY <1>3, <1>4

-----------------------------------------------------------------------------
(* Declarations and scopes *)

(* If the first k slots of a frame are its variables, its activation has k *)
(* local variables.                                                        *)
LEMMA FirstCells ==
  ASSUME NEW st, NEW base \in Nat, NEW last \in Nat, NEW k \in Nat, base + k <= last,
         \A q \in (base + 1)..(base + k) : st[q].cell # 0,
         \A q \in (base + k + 1)..last : st[q].cell = 0
  PROVE  [p \in {q \in 1..(last - base) : st[base + q].cell # 0} |-> st[base + p].cell]
           = [p \in 1..k |-> st[base + p].cell]
<1> DEFINE A == {q \in 1..(last - base) : st[base + q].cell # 0}
<1>1. ASSUME NEW q \in A PROVE q \in 1..k
  <2>1. q \in 1..(last - base) /\ st[base + q].cell # 0
    OBVIOUS
  <2>2. ~(base + q \in (base + k + 1)..last)
    BY <2>1
  <2> QED
    BY <2>1, <2>2
<1>2. ASSUME NEW q \in 1..k PROVE q \in A
  <2>1. base + q \in (base + 1)..(base + k) /\ q \in 1..(last - base)
    OBVIOUS
  <2> QED
    BY <2>1
<1>3. A = 1..k
  BY <1>1, <1>2
<1> HIDE DEF A
<1>4. [p \in A |-> st[base + p].cell] = [p \in 1..k |-> st[base + p].cell]
  BY <1>3
<1> QED
  BY <1>4 DEF A

(* A longer sequence is the shorter one with an element appended.          *)
LEMMA OneMore ==
  ASSUME NEW S, NEW k \in Nat, NEW s \in [1..k -> S], NEW t \in [1..(k + 1) -> S],
         \A q \in 1..k : t[q] = s[q]
  PROVE  t = Append(s, t[k + 1])
<1>1. s \in Seq(S) /\ Len(s) = k
  OBVIOUS
<1>2. t[k + 1] \in S
  OBVIOUS
<1> DEFINE a == Append(s, t[k + 1])
<1>3. /\ a \in Seq(S) /\ Len(a) = k + 1
      /\ \A q \in 1..k : a[q] = s[q]
      /\ a[k + 1] = t[k + 1]
  BY <1>1, <1>2, AppendProperties
<1>4. DOMAIN a = 1..(k + 1) /\ a = [q \in DOMAIN a |-> a[q]]
  BY <1>3
<1> HIDE DEF a
<1>5. \A q \in 1..(k + 1) : a[q] = t[q]
  <2>1. \A q \in 1..(k + 1) : q \in 1..k \/ q = k + 1
    OBVIOUS
  <2> QED
    BY <1>3, <2>1
<1>6. a = t
  BY <1>4, <1>5
<1> QED
  BY <1>6 DEF a

(* The first k elements of a sequence.                                     *)
LEMMA FewerCells ==
  ASSUME NEW S, NEW k \in Nat, NEW m \in Nat, k <= m,
         NEW s \in [1..k -> S], NEW t \in [1..m -> S], \A q \in 1..k : t[q] = s[q]
  PROVE  s = SubSeq(t, 1, k) /\ Len(t) = m
<1>1. t \in Seq(S) /\ Len(t) = m
  OBVIOUS
<1> DEFINE a == SubSeq(t, 1, k)
<1>2. \A q \in 1..k : t[q] \in S
  OBVIOUS
<1>3. /\ a \in Seq(S) /\ Len(a) = IF 1 <= k THEN k - 1 + 1 ELSE 0
      /\ \A q \in 1..(k - 1 + 1) : a[q] = t[1 + q - 1]
  BY <1>2, SubSeqProperties
<1>4. Len(a) = k /\ \A q \in 1..k : a[q] = t[q]
  BY <1>3
<1>5. DOMAIN a = 1..k /\ a = [q \in DOMAIN a |-> a[q]]
  BY <1>3, <1>4
<1> HIDE DEF a
<1>6. a = s
  BY <1>4, <1>5
<1> QED
  BY <1>1, <1>6 DEF a

(* The local variables of every activation can be named.                   *)
LEMMA LocalsNamed ==
  \A j \in 1..Len(frames) : ToSet(FrameCells(j)) \subseteq NamedCells
<1> SUFFICES ASSUME NEW j \in 1..Len(frames), NEW c \in ToSet(FrameCells(j))
             PROVE  c \in NamedCells
  OBVIOUS
<1>1. AbstractFrames[j].locals = FrameCells(j)
  BY DEF AbstractFrames
<1>2. c \in ToSet(AbstractFrames[j].locals) \cup ToSet(AbstractFrames[j].captured)
  BY <1>1
<1> QED
  BY <1>2 DEF NamedCells

(* The variables that can be named are in use.                             *)
LEMMA NamedAreUsed ==
  ASSUME ClosuresInv
  PROVE  NamedCells \subseteq UsedCells
  BY FaithfulInv DEF Faithful, InSlot, InUpvalue, UsedCells

(* Above last, the last slot with a variable of the running function, a    *)
(* slot becomes a new variable.                                            *)
LEMMA Declared ==
  ASSUME ClosuresInv, ClosuresInv', frames # <<>>, UNCHANGED <<frames, upvalues>>,
         AbstractClosures' = AbstractClosures,
         \A j \in 1..Len(frames) : Captures(frames[j].closure)' = Captures(frames[j].closure),
         NEW last \in slots..stack_top,
         \A q \in (slots + 1)..last : IsVar(q),
         \A q \in (last + 1)..stack_top : ~IsVar(q),
         stack_top' = last + 1, \A q \in 1..last : evalstack'[q] = evalstack[q],
         evalstack'[last + 1].cell # 0, evalstack'[last + 1].cell \notin UsedCells
  PROVE  Abstract!Declare
<1> DEFINE n == Len(frames)
           k == last - slots
           c == evalstack'[last + 1].cell
           s == FrameCells(n)
           t == FrameCells(n)'
<1>1. /\ slots \in Nat \ {0} /\ last \in Nat /\ stack_top \in Nat /\ k \in Nat
      /\ n \in Nat \ {0} /\ n \in 1..n
      /\ slots + k = last /\ slots + k + 1 = last + 1 /\ slots + (k + 1) = last + 1
  BY CurrentFrame DEF ClosuresInv, StackInv
<1>2. frames[n].slots = slots /\ frames'[n].slots = slots /\ LastSlot(n) = stack_top
      /\ LastSlot(n)' = last + 1
  BY DEF slots, current_frame, LastSlot
<1>3. s = [p \in 1..k |-> evalstack[slots + p].cell]
  <2>1. s = [p \in {q \in 1..(stack_top - slots) : evalstack[slots + q].cell # 0} |->
               evalstack[slots + p].cell]
    BY <1>2 DEF FrameCells, IsVar
  <2>2. /\ slots + k <= stack_top
        /\ \A q \in (slots + 1)..(slots + k) : evalstack[q].cell # 0
        /\ \A q \in (slots + k + 1)..stack_top : evalstack[q].cell = 0
    BY <1>1 DEF IsVar
  <2>3. slots \in Nat /\ stack_top \in Nat /\ k \in Nat
    BY <1>1
  <2> HIDE DEF k, s
  <2>4. [p \in {q \in 1..(stack_top - slots) : evalstack[slots + q].cell # 0} |->
           evalstack[slots + p].cell]
          = [p \in 1..k |-> evalstack[slots + p].cell]
    BY <2>2, <2>3, FirstCells
  <2> QED
    BY <2>1, <2>4
<1>4. t = [p \in 1..(k + 1) |-> evalstack'[slots + p].cell]
  <2> DEFINE b == frames'[n].slots
             l == LastSlot(n)'
  <2>1. t = [p \in {q \in 1..(l - b) : evalstack'[b + q].cell # 0} |-> evalstack'[b + p].cell]
    BY DEF FrameCells, IsVar
  <2>2. b = slots /\ l = last + 1
    BY <1>2
  <2>3. \A q \in (slots + 1)..(last + 1) : q = last + 1 \/ (q \in (slots + 1)..last /\ q \in 1..last)
    BY <1>1
  <2> HIDE DEF b, l, t
  <2>4. \A q \in (b + 1)..(b + (k + 1)) : evalstack'[q].cell # 0
    BY <1>1, <2>2, <2>3 DEF IsVar
  <2>5. b \in Nat /\ l \in Nat /\ k + 1 \in Nat /\ b + (k + 1) <= l
    BY <1>1, <2>2
  <2>6. \A q \in (b + (k + 1) + 1)..l : evalstack'[q].cell = 0
    BY <1>1, <2>2
  <2> HIDE DEF k
  <2>7. [p \in {q \in 1..(l - b) : evalstack'[b + q].cell # 0} |-> evalstack'[b + p].cell]
          = [p \in 1..(k + 1) |-> evalstack'[b + p].cell]
    BY <2>4, <2>5, <2>6, FirstCells
  <2>8. t = [p \in 1..(k + 1) |-> evalstack'[b + p].cell]
    BY <2>1, <2>7
  <2> QED
    BY <2>2, <2>8
<1>5. t = Append(s, c)
  <2> DEFINE S == {s[q] : q \in 1..k} \cup {t[q] : q \in 1..(k + 1)}
  <2>1. \A q \in 1..k : t[q] = s[q]
    <3>1. \A q \in 1..k : q \in 1..(k + 1) /\ slots + q \in 1..last
      BY <1>1
    <3> HIDE DEF k, s, t
    <3> QED
      BY <1>3, <1>4, <3>1
  <2>2. s \in [1..k -> S] /\ t \in [1..(k + 1) -> S]
    <3> HIDE DEF k
    <3> QED
      BY <1>3, <1>4
  <2>3. t[k + 1] = c
    <3>1. k + 1 \in 1..(k + 1)
      BY <1>1
    <3> HIDE DEF k, s, t
    <3> QED
      BY <1>1, <1>4, <3>1
  <2> HIDE DEF k, s, t, S
  <2> QED
    BY <1>1, <2>1, <2>2, <2>3, OneMore
<1>6. /\ AbstractFrames' = Abstract!WithLocals(t)
      /\ Abstract!Current.locals = s /\ AbstractFrames # <<>>
  <2>1. ASSUME NEW j \in 1..(n - 1) PROVE FrameCells(j)' = FrameCells(j)
    <3>1. \A q \in 1..slots : evalstack'[q].cell = evalstack[q].cell
      BY <1>1, SMTT(30)
    <3> QED
      BY <3>1, LowerFrames
  <2> QED
    BY <2>1, LocalsChanged DEF ClosuresInv
<1>7. c \in NamedCells' /\ c \notin NamedCells
  <2>1. (\A j \in 1..Len(frames) : ToSet(FrameCells(j)) \subseteq NamedCells)'
    BY LocalsNamed, PTL
  <2>2. ToSet(t) \subseteq NamedCells'
    BY <1>1, <2>1
  <2>3. k + 1 \in 1..(k + 1) /\ slots + (k + 1) = last + 1
    BY <1>1
  <2>4. k + 1 \in DOMAIN t /\ t[k + 1] = c
    <3> HIDE DEF k, t
    <3> QED
      BY <1>4, <2>3
  <2>5. c \in ToSet(t)
    <3> HIDE DEF k, t
    <3> QED
      BY <2>4 DEF ToSet
  <2> QED
    BY <2>2, <2>5, NamedAreUsed
<1>8. SlotValuesKept({})
  <2>1. \A q \in 1..(last + 1) : q = last + 1 \/ (q \in 1..last /\ q \in 1..stack_top)
    BY <1>1
  <2> QED
    BY <2>1 DEF SlotValuesKept
<1>9. Abstract!Kept
  BY <1>8, UpvaluesAlone, StoreKept
<1>10. c \in DOMAIN AbstractStore' /\ c \notin DOMAIN AbstractStore
  BY <1>7 DEF AbstractStore
<1>11. AbstractFrames' = Abstract!WithLocals(Append(Abstract!Current.locals, c))
  BY <1>5, <1>6
<1> HIDE DEF c
<1> QED
  BY <1>6, <1>9, <1>10, <1>11 DEF Abstract!Declare

(* The initial value on the top of the stack becomes a variable.           *)
LEMMA DefineLocalStep ==
  ASSUME ClosuresInv, ClosuresInv', NEW captured \in BOOLEAN, DefineLocal(captured)
  PROVE  Abstract!Declare
<1> DEFINE s == Var(TopValue, FreshCell, captured)
           last == stack_top - 1
<1>1. /\ frames # <<>> /\ ~capturing /\ stack_top > slots /\ ~IsVar(stack_top)
      /\ \A p \in (slots + 1)..last : IsVar(p)
      /\ evalstack' = [evalstack EXCEPT ![stack_top] = s]
      /\ UNCHANGED <<frames, open_upvalues, upvalues, closures, capturing>>
  BY DEF DefineLocal, Ready
<1>2. slots \in Nat \ {0} /\ stack_top \in Nat /\ last \in slots..stack_top /\ last + 1 = stack_top
  BY <1>1, CurrentFrame DEF ClosuresInv, StackInv
<1>3. s \in SlotType /\ s.cell # 0 /\ s.cell \notin UsedCells
  BY <1>1, FreshCellIsNew, TopValueType DEF Var, SlotType
<1> HIDE DEF s
<1>4. /\ Len(evalstack') = stack_top
      /\ \A q \in 1..stack_top : evalstack'[q] = IF q = stack_top THEN s ELSE evalstack[q]
  <2>1. evalstack \in Seq(SlotType) /\ stack_top \in 1..Len(evalstack) /\ s \in SlotType
    BY <1>1, <1>3, TopValueType DEF ClosuresInv, TypeOK, stack_top
  <2> QED
    BY <1>1, <2>1, ExceptSeq DEF stack_top
<1>5. stack_top' = last + 1
  BY <1>2, <1>4 DEF stack_top
<1>6. \A q \in 1..last : evalstack'[q] = evalstack[q]
  BY <1>2, <1>4
<1>7. evalstack'[last + 1] = s
  BY <1>2, <1>4
<1>8. \A q \in (last + 1)..stack_top : ~IsVar(q)
  <2>1. \A q \in (last + 1)..stack_top : q = stack_top
    BY <1>2
  <2> QED
    BY <1>1, <2>1
<1>9. /\ AbstractClosures' = AbstractClosures
      /\ \A j \in 1..Len(frames) : Captures(frames[j].closure)' = Captures(frames[j].closure)
  BY <1>1, ClosuresKept
<1> HIDE DEF last
<1> QED
  BY <1>1, <1>2, <1>3, <1>5, <1>6, <1>7, <1>8, <1>9, Declared

(* The slots above slot m, all of them variables, are removed.             *)
LEMMA Left ==
  ASSUME ClosuresInv, ClosuresInv', frames # <<>>, ~capturing,
         UNCHANGED <<frames, closures, capturing>>,
         NEW m \in slots..(stack_top - 1), \A q \in (slots + 1)..stack_top : IsVar(q),
         stack_top' = m, \A q \in 1..m : evalstack'[q] = evalstack[q],
         \A u \in DOMAIN upvalues : upvalues'[u].cell = upvalues[u].cell,
         UpvalueValuesKept({})
  PROVE  Abstract!Leave
<1> DEFINE n == Len(frames)
           k == stack_top - slots
           h == m - slots
           s == FrameCells(n)
           t == FrameCells(n)'
<1>1. /\ slots \in Nat \ {0} /\ stack_top \in Nat /\ m \in Nat /\ m <= stack_top
      /\ k \in Nat /\ h \in Nat /\ h \in 0..(k - 1) /\ h <= k
      /\ n \in Nat \ {0} /\ n \in 1..n
      /\ slots + k = stack_top /\ slots + h = m
  BY CurrentFrame DEF ClosuresInv, StackInv
<1>2. frames[n].slots = slots /\ frames'[n].slots = slots /\ LastSlot(n) = stack_top
      /\ LastSlot(n)' = m
  BY DEF slots, current_frame, LastSlot
<1>3. s = [p \in 1..k |-> evalstack[slots + p].cell]
  <2>1. s = [p \in {q \in 1..(stack_top - slots) : evalstack[slots + q].cell # 0} |->
               evalstack[slots + p].cell]
    BY <1>2 DEF FrameCells, IsVar
  <2>2. /\ slots + k <= stack_top
        /\ \A q \in (slots + 1)..(slots + k) : evalstack[q].cell # 0
        /\ \A q \in (slots + k + 1)..stack_top : evalstack[q].cell = 0
    BY <1>1 DEF IsVar
  <2>3. slots \in Nat /\ stack_top \in Nat /\ k \in Nat
    BY <1>1
  <2> HIDE DEF k, s
  <2>4. [p \in {q \in 1..(stack_top - slots) : evalstack[slots + q].cell # 0} |->
           evalstack[slots + p].cell]
          = [p \in 1..k |-> evalstack[slots + p].cell]
    BY <2>2, <2>3, FirstCells
  <2> QED
    BY <2>1, <2>4
<1>4. t = [p \in 1..h |-> evalstack'[slots + p].cell]
  <2> DEFINE b == frames'[n].slots
             l == LastSlot(n)'
  <2>1. t = [p \in {q \in 1..(l - b) : evalstack'[b + q].cell # 0} |-> evalstack'[b + p].cell]
    BY DEF FrameCells, IsVar
  <2>2. b = slots /\ l = m
    BY <1>2
  <2>3. \A q \in (slots + 1)..m : q \in (slots + 1)..stack_top /\ q \in 1..m
    BY <1>1
  <2> HIDE DEF b, l, t
  <2>4. \A q \in (b + 1)..(b + h) : evalstack'[q].cell # 0
    BY <1>1, <2>2, <2>3 DEF IsVar
  <2>5. b \in Nat /\ l \in Nat /\ h \in Nat /\ b + h <= l
    BY <1>1, <2>2
  <2>6. \A q \in (b + h + 1)..l : evalstack'[q].cell = 0
    BY <1>1, <2>2
  <2> HIDE DEF h
  <2>7. [p \in {q \in 1..(l - b) : evalstack'[b + q].cell # 0} |-> evalstack'[b + p].cell]
          = [p \in 1..h |-> evalstack'[b + p].cell]
    BY <2>4, <2>5, <2>6, FirstCells
  <2>8. t = [p \in 1..h |-> evalstack'[b + p].cell]
    BY <2>1, <2>7
  <2> QED
    BY <2>2, <2>8
<1>5. t = SubSeq(s, 1, h) /\ Len(s) = k
  <2> DEFINE S == {s[q] : q \in 1..k} \cup {t[q] : q \in 1..h}
  <2>1. \A q \in 1..h : s[q] = t[q]
    <3>1. \A q \in 1..h : q \in 1..k /\ slots + q \in 1..m
      BY <1>1
    <3> HIDE DEF h, k, s, t
    <3> QED
      BY <1>3, <1>4, <3>1
  <2>2. s \in [1..k -> S] /\ t \in [1..h -> S]
    <3> HIDE DEF h, k
    <3> QED
      BY <1>3, <1>4
  <2> HIDE DEF h, k, s, t, S
  <2> QED
    BY <1>1, <2>1, <2>2, FewerCells
<1>6. /\ AbstractClosures' = AbstractClosures
      /\ \A j \in 1..Len(frames) : Captures(frames[j].closure)' = Captures(frames[j].closure)
  BY ClosuresKept
<1>7. /\ AbstractFrames' = Abstract!WithLocals(t)
      /\ Abstract!Current.locals = s /\ AbstractFrames # <<>>
  <2>1. ASSUME NEW j \in 1..(n - 1) PROVE FrameCells(j)' = FrameCells(j)
    <3>1. \A q \in 1..slots : q \in 1..m
      BY <1>1
    <3>2. \A q \in 1..slots : evalstack'[q].cell = evalstack[q].cell
      BY <3>1
    <3> QED
      BY <3>2, LowerFrames
  <2> QED
    BY <1>6, <2>1, LocalsChanged DEF ClosuresInv
<1>8. SlotValuesKept({})
  <2>1. \A q \in 1..m : q \in 1..stack_top
    BY <1>1
  <2> QED
    BY <2>1 DEF SlotValuesKept
<1>9. Abstract!Kept
  BY <1>8, StoreKept
<1>10. h \in 0..(Len(Abstract!Current.locals) - 1)
  BY <1>1, <1>5, <1>7
<1>11. AbstractFrames' = Abstract!WithLocals(SubSeq(Abstract!Current.locals, 1, h))
  BY <1>5, <1>7
<1> HIDE DEF h
<1> QED
  BY <1>6, <1>7, <1>9, <1>10, <1>11 DEF Abstract!Leave

(* Where a scope can end, all slots of the running function above its slot *)
(* 0 are variables.                                                        *)
LEMMA OnlyVariables ==
  ASSUME ClosuresInv, frames # <<>>, NEW p \in 1..stack_top, ScopedFrom(p)
  PROVE  p - 1 \in slots..(stack_top - 1) /\ \A q \in (slots + 1)..stack_top : IsVar(q)
<1>1. slots \in Nat \ {0} /\ stack_top \in Nat /\ current.arity \in Nat
  BY CurrentFrame, CurrentClosure DEF ClosuresInv, StackInv
<1>2. p > slots + current.arity /\ IsVar(stack_top)
  BY <1>1 DEF ScopedFrom
<1>3. \A q \in (slots + 1)..stack_top : q = stack_top \/ (q < stack_top /\ stack_top \in (slots + 1)..stack_top)
  BY <1>1
<1>4. \A q, r \in (slots + 1)..stack_top : q < r /\ IsVar(r) => IsVar(q)
  <2>1. Len(frames) \in 1..Len(frames) /\ LastSlot(Len(frames)) = stack_top
        /\ frames[Len(frames)].slots = slots
    BY CurrentFrame DEF ClosuresInv, StackInv, LastSlot, slots, current_frame
  <2> QED
    BY <2>1 DEF ClosuresInv, StackInv, LocalsFirst
<1> QED
  BY <1>1, <1>2, <1>3, <1>4

(* close_upvalues(): upvalues take over the values of their variables.     *)
LEMMA UpvaluesTakeOver ==
  ASSUME ClosuresInv, NEW last \in Nat \ {0}, CloseUpvalues(last)
  PROVE  /\ DOMAIN upvalues' = DOMAIN upvalues
         /\ \A u \in DOMAIN upvalues : upvalues'[u].cell = upvalues[u].cell
         /\ UpvalueValuesKept({})
<1>1. /\ DOMAIN upvalues' = DOMAIN upvalues
      /\ \A u \in DOMAIN upvalues :
           /\ upvalues'[u].cell = upvalues[u].cell
           /\ upvalues[u].location < last => upvalues'[u] = upvalues[u]
           /\ upvalues[u].location >= last =>
                upvalues'[u].closed = evalstack[upvalues[u].location].val
  BY CloseUpvaluesEffect DEF ClosuresInv, StackInv
<1>2. \A u \in DOMAIN upvalues : upvalues[u].location \in Nat
  BY ListElements DEF ClosuresInv, StackInv
<1>3. ASSUME NEW u \in DOMAIN upvalues, upvalues'[u].location = 0
      PROVE  upvalues'[u].closed = Deref(u)
  <2>1. CASE upvalues[u].location < last
    BY <1>1, <1>3, <2>1 DEF Deref, Open
  <2>2. CASE upvalues[u].location >= last
    <3>1. upvalues[u].location # 0
      BY <1>2, <2>2
    <3> QED
      BY <1>1, <2>2, <3>1 DEF Deref, Open
  <2> QED
    BY <1>2, <2>1, <2>2
<1> QED
  BY <1>1, <1>3 DEF UpvalueValuesKept, Open

(* The end of a scope takes the last variable from the activation;         *)
(* closures that captured it keep it, with its value.                      *)
LEMMA EndScopeStep ==
  ASSUME ClosuresInv, ClosuresInv', EndScope
  PROVE  Abstract!Leave
<1> DEFINE m == stack_top - 1
<1>1. /\ frames # <<>> /\ ~capturing /\ evalstack' = SubSeq(evalstack, 1, m)
      /\ ScopedFrom(stack_top)
      /\ UNCHANGED <<frames, closures, capturing>>
  BY DEF EndScope, Ready, Pop
<1>2. slots \in Nat \ {0} /\ stack_top \in Nat /\ stack_top \in 1..stack_top
  BY <1>1, CurrentFrame, TopValueType DEF ClosuresInv, StackInv
<1>3. m \in slots..(stack_top - 1) /\ \A q \in (slots + 1)..stack_top : IsVar(q)
  BY <1>1, <1>2, OnlyVariables
<1>4. m \in 0..stack_top
  BY <1>2, <1>3
<1>5. stack_top' = m /\ \A p \in 1..m : evalstack'[p] = evalstack[p]
  <2> HIDE DEF m
  <2> QED
    BY <1>1, <1>4, Cut
<1>6. (\A u \in DOMAIN upvalues : upvalues'[u].cell = upvalues[u].cell) /\ UpvalueValuesKept({})
  <2>1. CASE evalstack[stack_top].is_captured
    <3>1. CloseUpvalues(stack_top) /\ stack_top \in Nat \ {0}
      BY <1>2, <2>1 DEF EndScope
    <3>2. UpvalueValuesKept({}) /\ \A u \in DOMAIN upvalues : upvalues'[u].cell = upvalues[u].cell
      BY <3>1, UpvaluesTakeOver
    <3> QED
      BY <3>2
  <2>2. CASE ~evalstack[stack_top].is_captured
    <3>1. UNCHANGED upvalues
      BY <2>2 DEF EndScope
    <3> QED
      BY <3>1, UpvaluesAlone
  <2> QED
    BY <2>1, <2>2
<1> HIDE DEF m
<1> QED
  BY <1>1, <1>3, <1>5, <1>6, Left

(* A continue takes the variables of the loop body from the activation.    *)
LEMMA ContinueStep ==
  ASSUME ClosuresInv, ClosuresInv', NEW p \in 1..stack_top, Continue(p)
  PROVE  Abstract!Leave
<1> DEFINE m == p - 1
<1>1. /\ frames # <<>> /\ ~capturing /\ evalstack' = SubSeq(evalstack, 1, m)
      /\ ScopedFrom(p)
      /\ UNCHANGED <<frames, open_upvalues, upvalues, closures, capturing>>
  BY DEF Continue, Ready
<1>2. m \in slots..(stack_top - 1) /\ \A q \in (slots + 1)..stack_top : IsVar(q)
  BY <1>1, OnlyVariables
<1>3. m \in 0..stack_top
  BY SlotTypes DEF ClosuresInv
<1>4. stack_top' = m /\ \A q \in 1..m : evalstack'[q] = evalstack[q]
  <2> HIDE DEF m
  <2> QED
    BY <1>1, <1>3, Cut
<1> HIDE DEF m
<1> QED
  BY <1>1, <1>2, <1>4, UpvaluesAlone, Left

-----------------------------------------------------------------------------
(* Closures *)

(* Nothing happens on the stack.                                           *)
LEMMA StackAlone ==
  ASSUME ClosuresInv, UNCHANGED evalstack
  PROVE  VarsKept /\ SlotValuesKept({})
<1>1. \A q \in 1..stack_top : q <= stack_top
  BY SlotTypes DEF ClosuresInv
<1> QED
  BY <1>1 DEF VarsKept, SlotValuesKept, stack_top

(* Closures other than f, and the functions that run, none of them f, keep *)
(* their upvalues.                                                         *)
LEMMA OthersKept ==
  ASSUME ClosuresInv, UNCHANGED frames, NEW f, \A j \in 1..Len(frames) : frames[j].closure # f,
         \A x \in DOMAIN closures \ {f} : closures'[x].upvalues = closures[x].upvalues,
         \A u \in DOMAIN upvalues : upvalues'[u].cell = upvalues[u].cell
  PROVE  /\ \A x \in DOMAIN closures \ {f} : CellsOf(closures[x].upvalues)' = CellsOf(closures[x].upvalues)
         /\ \A j \in 1..Len(frames) : Captures(frames[j].closure)' = Captures(frames[j].closure)
<1>0. Script \notin DOMAIN closures
  BY ValuesAssumption DEF ClosuresInv, TypeOK
<1>1. ASSUME NEW x \in (DOMAIN closures \ {f}) \cup {Script}
      PROVE  Captures(x)' = Captures(x)
  <2>1. ToSet(Fn(x).upvalues) \subseteq DOMAIN upvalues
    BY DEF Fn, ScriptFn, Made, ToSet, ClosuresInv, NothingFreed
  <2>2. x \in DOMAIN closures => closures'[x].upvalues = closures[x].upvalues
    BY <1>0
  <2> QED
    BY <2>1, <2>2, CapturesKept
<1>2. ASSUME NEW j \in 1..Len(frames)
      PROVE  Captures(frames[j].closure)' = Captures(frames[j].closure)
  <2>1. PICK x \in (DOMAIN closures \ {f}) \cup {Script} : frames[j].closure = x
    BY DEF ClosuresInv, NothingFreed
  <2>2. Captures(frames[j].closure)' = Captures(x)' /\ Captures(frames[j].closure) = Captures(x)
    BY <2>1 DEF Captures
  <2> QED
    BY <1>1, <2>2
<1>3. ASSUME NEW x \in DOMAIN closures \ {f}
      PROVE  CellsOf(closures[x].upvalues)' = CellsOf(closures[x].upvalues)
  <2>1. x # Script
    BY <1>0
  <2>2. Captures(x)' = CellsOf(closures[x].upvalues)' /\ Captures(x) = CellsOf(closures[x].upvalues)
    BY <2>1 DEF Captures, Fn
  <2> QED
    BY <1>1, <2>2
<1> QED
  BY <1>2, <1>3

(* A local function declares its variable before its closure is complete;  *)
(* any other closure is not seen until it is.                              *)
LEMMA NewClosureStep ==
  ASSUME ClosuresInv, ClosuresInv', NEW f \in Closure \ DOMAIN closures, NEW arity \in Arities,
         NEW n \in 0..MaxCaptures, NewClosure(f, arity, n)
  PROVE  Abstract!Declare \/ UNCHANGED <<AbstractFrames, AbstractClosures, AbstractStore>>
<1>1. /\ frames # <<>> /\ ~capturing /\ capturing' = TRUE
      /\ UNCHANGED <<frames, open_upvalues, upvalues>>
      /\ closures' = [x \in DOMAIN closures \cup {f} |->
                        IF x = f THEN Made(arity, n) ELSE closures[x]]
  BY DEF NewClosure, Ready
<1>2. f \in Value /\ \A j \in 1..Len(frames) : frames[j].closure # f
  BY ValuesAssumption DEF Value, ClosuresInv, NothingFreed
<1>3. DOMAIN closures' = DOMAIN closures \cup {f}
      /\ \A x \in DOMAIN closures \ {f} : closures'[x].upvalues = closures[x].upvalues
  BY <1>1
<1>4. /\ \A x \in DOMAIN closures : CellsOf(closures[x].upvalues)' = CellsOf(closures[x].upvalues)
      /\ \A j \in 1..Len(frames) : Captures(frames[j].closure)' = Captures(frames[j].closure)
  BY <1>1, <1>2, <1>3, OthersKept
<1>5. ASSUME TopValue' = f
      PROVE  AbstractClosures' = AbstractClosures
  <2>1. AbstractClosures = [x \in DOMAIN closures |-> CellsOf(closures[x].upvalues)]
    BY <1>1 DEF AbstractClosures
  <2>2. AbstractClosures' = [x \in DOMAIN closures' \ {f} |-> CellsOf(closures[x].upvalues)']
    BY <1>1, <1>5 DEF AbstractClosures
  <2>3. DOMAIN closures' \ {f} = DOMAIN closures
    BY <1>3
  <2> QED
    BY <1>4, <2>1, <2>2, <2>3
<1>6. CASE evalstack' = Append(evalstack, Temp(f))
  <2>1. stack_top' = stack_top + 1 /\ evalstack'[stack_top + 1] = Temp(f)
    BY <1>2, <1>6, TempType, Pushed
  <2>2. TopValue' = f
    BY <2>1 DEF TopValue, Temp
  <2>3. VarsKept /\ SlotValuesKept({})
    BY <1>2, <1>6, TempPushed
  <2>4. \A j \in 1..Len(frames) : FrameCells(j)' = FrameCells(j)
    BY <1>1, <2>3, AllFrames
  <2>5. AbstractFrames' = AbstractFrames
    BY <1>1, <1>4, <2>4, ActivationsKept
  <2> QED
    BY <1>1, <1>5, <2>2, <2>3, <2>5, UpvaluesAlone, Unseen
<1>7. ASSUME NEW captured \in BOOLEAN, \A p \in (slots + 1)..stack_top : IsVar(p),
             evalstack' = Append(evalstack, Var(f, FreshCell, captured))
      PROVE  Abstract!Declare
  <2> DEFINE s == Var(f, FreshCell, captured)
  <2>1. s \in SlotType /\ s.val = f /\ s.cell # 0 /\ s.cell \notin UsedCells
    BY <1>2, FreshCellIsNew DEF Var, SlotType
  <2> HIDE DEF s
  <2>2. evalstack' = Append(evalstack, s)
    BY <1>7 DEF s
  <2>3. /\ stack_top \in Nat /\ stack_top' = stack_top + 1
        /\ \A p \in 1..stack_top : evalstack'[p] = evalstack[p]
        /\ evalstack'[stack_top + 1] = s
    BY <2>1, <2>2, Pushed
  <2>4. TopValue' = f
    BY <2>1, <2>3 DEF TopValue
  <2>5. stack_top \in slots..stack_top /\ (stack_top + 1)..stack_top = {}
    BY <1>1, <2>3, CurrentFrame DEF ClosuresInv, StackInv
  <2> QED
    BY <1>1, <1>4, <1>5, <1>7, <2>1, <2>3, <2>4, <2>5, Declared
<1> QED
  BY <1>6, <1>7 DEF NewClosure

(* The closure under construction gets an upvalue; it is not yet a closure *)
(* of the abstract specification.                                          *)
LEMMA AddUpvalueStep ==
  ASSUME ClosuresInv, ClosuresInv', Unfilled, NEW u, AddUpvalue(u),
         UNCHANGED <<evalstack, frames>>,
         \A w \in DOMAIN upvalues : upvalues'[w].cell = upvalues[w].cell,
         UpvalueValuesKept({})
  PROVE  UNCHANGED <<AbstractFrames, AbstractClosures, AbstractStore>>
<1> DEFINE f == TopValue
<1>1. /\ capturing /\ capturing' /\ f \in DOMAIN closures
      /\ \A j \in 1..Len(frames) : frames[j].closure # f
      /\ closures' = [closures EXCEPT ![f].upvalues = Append(@, u)]
  BY DEF Unfilled, AddUpvalue, ClosuresInv, UnderConstruction
<1>2. f' = f
  BY DEF TopValue, stack_top
<1> HIDE DEF f
<1>3. DOMAIN closures' = DOMAIN closures
      /\ \A x \in DOMAIN closures \ {f} : closures'[x].upvalues = closures[x].upvalues
  BY <1>1
<1>4. /\ \A x \in DOMAIN closures \ {f} : CellsOf(closures[x].upvalues)' = CellsOf(closures[x].upvalues)
      /\ \A j \in 1..Len(frames) : Captures(frames[j].closure)' = Captures(frames[j].closure)
  BY <1>1, <1>3, OthersKept
<1>5. AbstractClosures' = AbstractClosures
  <2>1. AbstractClosures = [x \in DOMAIN closures \ {f} |-> CellsOf(closures[x].upvalues)]
    BY <1>1 DEF AbstractClosures, f
  <2>2. AbstractClosures' = [x \in DOMAIN closures' \ {f'} |-> CellsOf(closures[x].upvalues)']
    BY <1>1 DEF AbstractClosures, f
  <2> QED
    BY <1>2, <1>3, <1>4, <2>1, <2>2
<1>6. VarsKept /\ SlotValuesKept({})
  BY StackAlone
<1>7. \A j \in 1..Len(frames) : FrameCells(j)' = FrameCells(j)
  BY <1>6, AllFrames
<1>8. AbstractFrames' = AbstractFrames
  BY <1>4, <1>7, ActivationsKept
<1> QED
  BY <1>5, <1>6, <1>8, Unseen

(* Capturing a local variable is no step of the abstract specification.    *)
LEMMA CaptureStep ==
  ASSUME ClosuresInv, ClosuresInv', NEW p \in 1..stack_top, CaptureLocal(p)
  PROVE  UNCHANGED <<AbstractFrames, AbstractClosures, AbstractStore>>
<1>1. Unfilled
  BY DEF CaptureLocal
<1>2. CASE CaptureExisting(p)
  <2>1. \E u : AddUpvalue(u) /\ UNCHANGED <<evalstack, frames, upvalues>>
    BY <1>2 DEF CaptureExisting
  <2> QED
    BY <1>1, <2>1, UpvaluesAlone, AddUpvalueStep
<1>3. CASE CaptureNew(p)
  <2>1. PICK u \in Upvalue \ DOMAIN upvalues :
          /\ upvalues' = [x \in DOMAIN upvalues \cup {u} |->
                            IF x = u THEN [location |-> p, closed |-> Nil, cell |-> evalstack[p].cell]
                                     ELSE upvalues[x]]
          /\ AddUpvalue(u) /\ UNCHANGED <<evalstack, frames>>
    BY <1>3 DEF CaptureNew
  <2>2. p # 0
    BY SlotTypes DEF ClosuresInv
  <2>3. /\ DOMAIN upvalues' = DOMAIN upvalues \cup {u}
        /\ \A w \in DOMAIN upvalues : upvalues'[w] = upvalues[w]
        /\ upvalues'[u].location = p
    BY <2>1
  <2>4. UpvalueValuesKept({})
    BY <2>2, <2>3 DEF UpvalueValuesKept, Open, Deref
  <2> QED
    BY <1>1, <2>1, <2>3, <2>4, AddUpvalueStep
<1> QED
  BY <1>2, <1>3 DEF CaptureLocal

(* Taking over an upvalue is no step of the abstract specification.        *)
LEMMA CaptureUpvalueStep ==
  ASSUME ClosuresInv, ClosuresInv', NEW j, CaptureUpvalue(j)
  PROVE  UNCHANGED <<AbstractFrames, AbstractClosures, AbstractStore>>
  BY UpvaluesAlone, AddUpvalueStep DEF CaptureUpvalue

(* The finished closure has captured what its maker can see.               *)
LEMMA ClosureDoneStep ==
  ASSUME ClosuresInv, ClosuresInv', ClosureDone
  PROVE  Abstract!MakeClosure
<1> DEFINE f == TopValue
<1>1. /\ capturing /\ ~capturing' /\ frames # <<>> /\ f \in DOMAIN closures
      /\ \A u \in ToSet(closures[f].upvalues) : upvalues[u].cell \in Nameable
      /\ UNCHANGED <<evalstack, frames, open_upvalues, upvalues, closures>>
  BY DEF ClosureDone, ClosuresInv, UnderConstruction
<1>2. AbstractFrames' = AbstractFrames
  <2>1. /\ \A j \in 1..Len(frames) : frames[j].closure # f
        /\ \A x \in DOMAIN closures \ {f} : closures'[x].upvalues = closures[x].upvalues
    BY <1>1 DEF ClosuresInv, UnderConstruction
  <2> HIDE DEF f
  <2>2. \A j \in 1..Len(frames) : Captures(frames[j].closure)' = Captures(frames[j].closure)
    BY <1>1, <2>1, OthersKept
  <2>3. \A j \in 1..Len(frames) : FrameCells(j)' = FrameCells(j)
    BY <1>1, StackAlone, AllFrames
  <2> QED
    BY <1>1, <2>2, <2>3, ActivationsKept
<1>3. Abstract!Kept
  BY <1>1, StackAlone, UpvaluesAlone, StoreKept
<1>4. AbstractClosures = [x \in DOMAIN closures \ {f} |-> CellsOf(closures[x].upvalues)]
  BY <1>1 DEF AbstractClosures
<1>5. AbstractClosures' = [x \in DOMAIN closures |-> CellsOf(closures[x].upvalues)]
  BY <1>1 DEF AbstractClosures, CellsOf
<1> HIDE DEF f
<1>6. /\ f \in DOMAIN AbstractClosures' \ DOMAIN AbstractClosures
      /\ DOMAIN AbstractClosures' = DOMAIN AbstractClosures \cup {f}
      /\ \A x \in DOMAIN AbstractClosures : AbstractClosures'[x] = AbstractClosures[x]
  BY <1>1, <1>4, <1>5
<1>7. Abstract!InSeq(AbstractClosures'[f]) \subseteq Abstract!Visible
  <2>1. AbstractClosures'[f] = CellsOf(closures[f].upvalues)
    BY <1>1, <1>5
  <2>2. \A c \in Abstract!InSeq(CellsOf(closures[f].upvalues)) : c \in Nameable
    BY <1>1 DEF Abstract!InSeq, CellsOf, ToSet
  <2> QED
    BY <1>1, <2>1, <2>2, NameableVisible
<1>8. AbstractFrames # <<>>
  BY <1>1, NameableVisible
<1> QED
  BY <1>2, <1>3, <1>6, <1>7, <1>8 DEF Abstract!MakeClosure

(* The garbage collector takes a closure that nobody has.                  *)
LEMMA CollectStep ==
  ASSUME ClosuresInv, ClosuresInv', Collect
  PROVE  Abstract!Forget
<1>1. PICK f \in DOMAIN closures :
        /\ ~InUse(f)
        /\ closures' = [x \in DOMAIN closures \ {f} |-> closures[x]]
        /\ LET left == [x \in DOMAIN closures \ {f} |-> closures[x]]
               used == {u \in DOMAIN upvalues :
                          Open(u) \/ \E x \in DOMAIN left : u \in ToSet(left[x].upvalues)}
           IN upvalues' = [u \in used |-> upvalues[u]]
  BY DEF Collect
<1>2. UNCHANGED <<evalstack, frames, open_upvalues, capturing>>
  BY DEF Collect
<1>3. /\ DOMAIN upvalues' \subseteq DOMAIN upvalues
      /\ \A u \in DOMAIN upvalues' : upvalues'[u] = upvalues[u]
      /\ \A u \in DOMAIN upvalues : \A x \in DOMAIN closures \ {f} :
           u \in ToSet(closures[x].upvalues) => u \in DOMAIN upvalues'
  BY <1>1
<1>4. /\ \A j \in 1..Len(frames) : frames[j].closure \in (DOMAIN closures \ {f}) \cup {Script}
      /\ Script \notin DOMAIN closures
  BY <1>1, ValuesAssumption DEF InUse, ClosuresInv, NothingFreed, TypeOK
<1>5. ASSUME NEW x \in (DOMAIN closures \ {f}) \cup {Script}
      PROVE  Captures(x)' = Captures(x)
  <2>1. ToSet(Fn(x).upvalues) \subseteq DOMAIN upvalues'
    BY <1>3 DEF Fn, ScriptFn, Made, ToSet, ClosuresInv, NothingFreed
  <2>2. x \in DOMAIN closures => closures'[x].upvalues = closures[x].upvalues
    BY <1>1, <1>4
  <2>3. \A u \in ToSet(Fn(x).upvalues) : upvalues'[u].cell = upvalues[u].cell
    BY <1>3, <2>1
  <2> QED
    BY <2>2, <2>3, CapturesKept
<1>6. AbstractFrames' = AbstractFrames
  <2>1. ASSUME NEW j \in 1..Len(frames)
        PROVE  Captures(frames[j].closure)' = Captures(frames[j].closure)
    <3>1. PICK x \in (DOMAIN closures \ {f}) \cup {Script} : frames[j].closure = x
      BY <1>4
    <3>2. Captures(frames[j].closure)' = Captures(x)' /\ Captures(frames[j].closure) = Captures(x)
      BY <1>2, <3>1 DEF Captures
    <3> QED
      BY <1>5, <3>2
  <2>2. \A j \in 1..Len(frames) : FrameCells(j)' = FrameCells(j)
    BY <1>2, StackAlone, AllFrames
  <2> QED
    BY <1>2, <2>1, <2>2, ActivationsKept
<1>7. AbstractClosures' = [x \in DOMAIN AbstractClosures' |-> AbstractClosures[x]]
      /\ DOMAIN AbstractClosures' \subseteq DOMAIN AbstractClosures
  <2> DEFINE under_way == IF capturing THEN {TopValue} ELSE {}
  <2>0. under_way' = under_way
    BY <1>2 DEF TopValue, stack_top
  <2>1. AbstractClosures =
          [x \in DOMAIN closures \ under_way |-> CellsOf(closures[x].upvalues)]
    BY DEF AbstractClosures
  <2>2. AbstractClosures' =
          [x \in DOMAIN closures' \ under_way |-> CellsOf(closures[x].upvalues)']
    BY <2>0 DEF AbstractClosures
  <2>3. DOMAIN closures' = DOMAIN closures \ {f}
    BY <1>1
  <2>4. \A x \in DOMAIN closures \ {f} :
          CellsOf(closures[x].upvalues)' = CellsOf(closures[x].upvalues)
    BY <1>4, <1>5 DEF Captures, Fn
  <2> QED
    BY <2>1, <2>2, <2>3, <2>4
<1>8. Abstract!Kept
  <2>1. UpvalueValuesKept({})
    BY <1>2, <1>3 DEF UpvalueValuesKept, Open, Deref
  <2> QED
    BY <1>2, <2>1, StackAlone, StoreKept
<1> QED
  BY <1>6, <1>7, <1>8 DEF Abstract!Forget

-----------------------------------------------------------------------------
(* Calls *)

(* Activations, in a form that holds of the next state too.                *)
LEMMA ActivationCount ==
  ClosuresInv =>
    /\ Len(frames) \in Nat /\ Len(AbstractFrames) = Len(frames)
    /\ DOMAIN AbstractFrames = 1..Len(frames)
    /\ AbstractFrames = [j \in 1..Len(frames) |-> AbstractFrames[j]]
<1> SUFFICES ASSUME ClosuresInv
             PROVE  /\ Len(frames) \in Nat /\ Len(AbstractFrames) = Len(frames)
                    /\ DOMAIN AbstractFrames = 1..Len(frames)
                    /\ AbstractFrames = [j \in 1..Len(frames) |-> AbstractFrames[j]]
  OBVIOUS
<1>1. AbstractFrames = [j \in 1..Len(frames) |-> AbstractFrames[j]]
  BY DEF AbstractFrames
<1> QED
  BY <1>1, Activations DEF ClosuresInv

(* The same of the next state.                                             *)
LEMMA NextActivationCount ==
  ASSUME ClosuresInv'
  PROVE  /\ Len(frames') \in Nat /\ Len(AbstractFrames') = Len(frames')
         /\ DOMAIN AbstractFrames' = 1..Len(frames')
         /\ AbstractFrames' = [j \in 1..Len(frames') |-> AbstractFrames'[j]]
<1>1. ClosuresInv' =>
        (/\ Len(frames) \in Nat /\ Len(AbstractFrames) = Len(frames)
         /\ DOMAIN AbstractFrames = 1..Len(frames)
         /\ AbstractFrames = [j \in 1..Len(frames) |-> AbstractFrames[j]])'
  BY ActivationCount, PTL
<1> QED
  BY <1>1

(* Nothing runs: there is no activation.                                   *)
LEMMA NoActivation ==
  ASSUME ClosuresInv', frames' = <<>>
  PROVE  AbstractFrames' = <<>>
<1>1. DOMAIN AbstractFrames' = {} /\ AbstractFrames' = [j \in {} |-> AbstractFrames'[j]]
  <2>1. Len(frames') = 0
    OBVIOUS
  <2>2. 1..0 = {}
    OBVIOUS
  <2> QED
    BY <2>1, <2>2, NextActivationCount
<1> QED
  BY <1>1

(* An error ends all activations.                                          *)
LEMMA RuntimeErrorStep ==
  ASSUME ClosuresInv, ClosuresInv', RuntimeError
  PROVE  Abstract!Return
<1>1. /\ frames # <<>> /\ ~capturing /\ evalstack' = <<>> /\ frames' = <<>>
      /\ UNCHANGED <<open_upvalues, upvalues, closures, capturing>>
  BY DEF RuntimeError, Ready
<1>2. AbstractFrames' = <<>> /\ AbstractFrames # <<>>
  BY <1>1, NoActivation, NameableVisible
<1>3. AbstractClosures' = AbstractClosures
  BY <1>1, ClosuresKept
<1>4. SlotValuesKept({})
  <2>1. stack_top' = 0
    BY <1>1 DEF stack_top
  <2> QED
    BY <2>1 DEF SlotValuesKept
<1>5. Abstract!Kept
  BY <1>1, <1>4, UpvaluesAlone, StoreKept
<1> QED
  BY <1>2, <1>3, <1>5 DEF Abstract!Return

(* The activation that returns goes; its caller has the variables it had,  *)
(* and one more temporary.                                                 *)
LEMMA ReturnStep ==
  ASSUME ClosuresInv, ClosuresInv', Return
  PROVE  Abstract!Return
<1> DEFINE n == Len(frames)
           m == n - 1
           below == SubSeq(evalstack, 1, slots - 1)
<1>1. /\ frames # <<>> /\ ~capturing /\ CloseUpvalues(slots)
      /\ frames' = SubSeq(frames, 1, m)
      /\ evalstack' = IF n = 1 THEN below ELSE Append(below, Temp(TopValue))
      /\ UNCHANGED <<closures, capturing>>
  BY DEF Return, Ready
<1>2. /\ slots \in Nat \ {0} /\ stack_top \in Nat /\ slots <= stack_top
      /\ n \in Nat \ {0} /\ slots = frames[n].slots /\ m \in Nat /\ m <= n
      /\ slots - 1 \in Nat /\ slots - 1 + 1 = slots
  BY <1>1, CurrentFrame DEF ClosuresInv, StackInv, slots, current_frame
<1>3. below \in Seq(SlotType) /\ Len(below) = slots - 1
      /\ \A p \in 1..(slots - 1) : below[p] = evalstack[p]
  <2> DEFINE h == slots - 1
  <2>1. h \in Nat /\ \A p \in 1..h : evalstack[p] \in SlotType
    BY <1>2, SlotTypes DEF ClosuresInv
  <2> HIDE DEF h
  <2>2. /\ SubSeq(evalstack, 1, h) \in Seq(SlotType)
        /\ Len(SubSeq(evalstack, 1, h)) = IF 1 <= h THEN h - 1 + 1 ELSE 0
        /\ \A p \in 1..(h - 1 + 1) : SubSeq(evalstack, 1, h)[p] = evalstack[1 + p - 1]
    BY <2>1, SubSeqProperties
  <2>3. /\ SubSeq(evalstack, 1, h) \in Seq(SlotType) /\ Len(SubSeq(evalstack, 1, h)) = h
        /\ \A p \in 1..h : SubSeq(evalstack, 1, h)[p] = evalstack[p]
    BY <2>1, <2>2
  <2> QED
    BY <2>3 DEF h
<1> HIDE DEF below
<1>4. /\ n = 1 => stack_top' = slots - 1
      /\ n # 1 => stack_top' = slots /\ evalstack'[slots].cell = 0
      /\ \A p \in 1..(slots - 1) : evalstack'[p] = evalstack[p]
  <2>1. CASE n = 1
    BY <1>1, <1>3, <2>1 DEF stack_top
  <2>2. CASE n # 1
    <3>1. Temp(TopValue) \in SlotType /\ Temp(TopValue).cell = 0
      BY <1>1, TempType, TopValueType
    <3>2. /\ Len(evalstack') = slots
          /\ \A p \in 1..(slots - 1) : evalstack'[p] = below[p]
          /\ evalstack'[slots] = Temp(TopValue)
      BY <1>1, <1>2, <1>3, <2>2, <3>1, AppendProperties, SMTT(30)
    <3> QED
      BY <1>3, <2>2, <3>1, <3>2 DEF stack_top
  <2> QED
    BY <2>1, <2>2
<1>5. /\ \A u \in DOMAIN upvalues : upvalues'[u].cell = upvalues[u].cell
      /\ UpvalueValuesKept({})
  BY <1>1, <1>2, UpvaluesTakeOver
<1>6. Len(frames') = m /\ \A j \in 1..m : frames'[j] = frames[j]
  <2>1. m \in Nat /\ \A p \in 1..m : frames[p] \in FrameType
    BY <1>2 DEF ClosuresInv, TypeOK
  <2> HIDE DEF m
  <2>2. /\ Len(frames') = IF 1 <= m THEN m - 1 + 1 ELSE 0
        /\ \A p \in 1..(m - 1 + 1) : frames'[p] = frames[1 + p - 1]
    BY <1>1, <2>1, SubSeqProperties
  <2> QED
    BY <2>1, <2>2
<1>7. /\ AbstractClosures' = AbstractClosures
      /\ \A j \in 1..m : Captures(frames[j].closure)' = Captures(frames[j].closure)
  <2>1. \A j \in 1..m : j \in 1..n
    BY <1>2
  <2> QED
    BY <1>1, <1>5, <1>6, <2>1, ClosuresKept
<1>8. ASSUME NEW j \in 1..m PROVE FrameCells(j)' = FrameCells(j)
  <2>1. j \in 1..n /\ j # n /\ j + 1 \in 1..n /\ (j # m => j + 1 \in 1..m)
    BY <1>2
  <2>2. frames[j].slots \in Nat /\ LastSlot(j) \in Nat /\ LastSlot(j) = frames[j + 1].slots - 1
    BY <2>1, FrameLimits
  <2>3. frames[j + 1].slots \in 1..slots
    BY <1>1, <2>1, FrameBases DEF ClosuresInv
  <2> DEFINE base == frames[j].slots
             last == LastSlot(j)
  <2>4. base \in Nat /\ last \in Nat /\ last <= slots - 1
    BY <1>2, <2>2, <2>3
  <2>5. \A q \in (base + 1)..last : q \in 1..(slots - 1) /\ q <= last
    <3> HIDE DEF base, last
    <3> QED
      BY <1>2, <2>4
  <2>6. \A q \in (base + 1)..last : evalstack'[q].cell = evalstack[q].cell
    BY <1>4, <2>5
  <2>7. CASE j = m
    <3>1. LastSlot(j)' = slots /\ last = slots - 1 /\ n # 1
      BY <1>2, <1>4, <1>6, <2>2, <2>7, SMTT(30) DEF LastSlot
    <3> HIDE DEF base, last
    <3>2. \A q \in (base + 1)..slots : q = slots \/ (q \in (base + 1)..last /\ q <= last)
      BY <1>2, <2>4, <3>1
    <3>3. \A q \in (base + 1)..slots :
            evalstack'[q].cell # 0 => q <= last /\ evalstack'[q].cell = evalstack[q].cell
      BY <1>4, <2>6, <3>1, <3>2
    <3>4. \A q \in (base + 1)..last :
            IsVar(q) => q <= slots /\ evalstack'[q].cell = evalstack[q].cell
      <4>1. \A q \in (base + 1)..last : q <= slots
        BY <1>2, <2>4
      <4> QED
        BY <2>6, <4>1
    <3>5. frames'[j] = frames[j] /\ base \in Nat /\ last \in Int /\ slots \in Int
      BY <1>2, <1>6, <2>4
    <3> QED
      BY <3>1, <3>3, <3>4, <3>5, FrameCellsKept DEF base, last
  <2>8. CASE j # m
    <3>1. LastSlot(j)' = last
      BY <1>6, <2>1, <2>2, <2>8 DEF LastSlot
    <3> QED
      BY <1>6, <2>4, <2>5, <2>6, <3>1, FrameCellsKept
  <2> QED
    BY <2>7, <2>8
<1>9. AbstractFrames' = SubSeq(AbstractFrames, 1, Len(AbstractFrames) - 1)
  <2> DEFINE F == AbstractFrames
             G == AbstractFrames'
             S == {F[j] : j \in 1..n} \cup {G[j] : j \in 1..m}
  <2>1. Len(F) = n /\ F = [j \in 1..n |-> F[j]] /\ G = [j \in 1..m |-> G[j]]
    BY <1>6, ActivationCount, NextActivationCount
  <2>2. \A j \in 1..m : F[j] = G[j]
    <3>1. \A j \in 1..m : j \in 1..n
      BY <1>2
    <3> QED
      BY <1>6, <1>7, <1>8, <3>1 DEF AbstractFrames, Captures
  <2> HIDE DEF F, G
  <2>3. F \in [1..n -> S] /\ G \in [1..m -> S]
    <3> HIDE DEF m, n
    <3> QED
      BY <2>1
  <2>4. m \in Nat /\ n \in Nat /\ m <= n /\ Len(F) - 1 = m
    BY <1>2, <2>1
  <2> HIDE DEF S, m, n
  <2>5. G = SubSeq(F, 1, m)
    BY <2>2, <2>3, <2>4, FewerCells
  <2> QED
    BY <2>4, <2>5 DEF F, G
<1>10. SlotValuesKept({})
  <2>1. \A q \in 1..stack_top' : q \in 1..(slots - 1) \/ (q = slots /\ n # 1)
    BY <1>2, <1>4
  <2>2. \A q \in 1..(slots - 1) : q \in 1..stack_top
    BY <1>2
  <2> QED
    BY <1>4, <2>1, <2>2 DEF SlotValuesKept, IsVar
<1>11. Abstract!Kept
  BY <1>5, <1>10, StoreKept
<1>12. AbstractFrames # <<>>
  BY <1>1, NameableVisible
<1> QED
  BY <1>7, <1>9, <1>11, <1>12 DEF Abstract!Return

(* A new frame with new variables is a new activation.                     *)
LEMMA Activated ==
  ASSUME ClosuresInv, ClosuresInv', AbstractClosures' = AbstractClosures,
         Len(frames') = Len(frames) + 1,
         \A j \in 1..Len(frames) : AbstractFrames'[j] = AbstractFrames[j],
         NEW ls, NEW cs, AbstractFrames'[Len(frames) + 1] = [locals |-> ls, captured |-> cs],
         cs \in {<<>>} \cup {AbstractClosures[f] : f \in DOMAIN AbstractClosures},
         \A i \in DOMAIN ls : ls[i] \notin NamedCells,
         \A i, j \in DOMAIN ls : ls[i] = ls[j] => i = j,
         SlotValuesKept({}), UNCHANGED upvalues
  PROVE  Abstract!Call
<1> DEFINE n == Len(frames)
           F == AbstractFrames
           G == AbstractFrames'
           new == [locals |-> ls, captured |-> cs]
           S == {F[j] : j \in 1..n} \cup {G[j] : j \in 1..(n + 1)}
<1>1. /\ n \in Nat /\ Len(F) = n /\ F = [j \in 1..n |-> F[j]]
      /\ Len(G) = n + 1 /\ G = [j \in 1..(n + 1) |-> G[j]]
  BY ActivationCount, NextActivationCount
<1>2. G = Append(F, new)
  <2>1. F \in [1..n -> S] /\ G \in [1..(n + 1) -> S]
    <3> HIDE DEF F, G, n
    <3> QED
      BY <1>1
  <2>2. \A j \in 1..n : G[j] = F[j]
    OBVIOUS
  <2> HIDE DEF F, G, n, S
  <2>3. n \in Nat
    BY <1>1
  <2>4. G = Append(F, G[n + 1])
    BY <2>1, <2>2, <2>3, OneMore
  <2>5. G[n + 1] = new
    BY DEF G, n
  <2> QED
    BY <2>4, <2>5
<1>3. G[Len(G)] = new
  BY <1>1
<1>4. Abstract!InSeq(new.locals) \cap DOMAIN AbstractStore = {}
  BY DEF AbstractStore, Abstract!InSeq
<1>5. Abstract!Kept
  BY UpvaluesAlone, StoreKept
<1>6. new.locals = ls /\ new.captured = cs
  OBVIOUS
<1> HIDE DEF new
<1> QED
  BY <1>1, <1>2, <1>3, <1>4, <1>5, <1>6 DEF Abstract!Call

(* The script captures nothing, and has no variables yet.                  *)
LEMMA RunStep ==
  ASSUME ClosuresInv, ClosuresInv', Run
  PROVE  Abstract!Call
<1>1. /\ frames = <<>> /\ evalstack' = Append(evalstack, Temp(Script))
      /\ frames' = <<[closure |-> Script, slots |-> stack_top + 1]>>
      /\ UNCHANGED <<open_upvalues, upvalues, closures, capturing>>
  BY DEF Run
<1>2. evalstack = <<>> /\ ~capturing /\ stack_top = 0
  BY <1>1, NothingRuns DEF stack_top
<1>3. /\ Len(frames) = 0 /\ Len(frames') = 1
      /\ frames'[1].closure = Script /\ frames'[1].slots = 1
  BY <1>1, <1>2
<1>4. Script \in Value
  BY DEF Value
<1>5. stack_top' = 1 /\ VarsKept /\ SlotValuesKept({})
  BY <1>1, <1>2, <1>4, TempType, Pushed, TempPushed
<1>6. AbstractClosures' = AbstractClosures
  BY <1>1, <1>2, ClosuresKept
<1> DEFINE ls == FrameCells(1)'
           cs == CellsOf(Fn(frames[1].closure).upvalues)'
<1>7. AbstractFrames'[1] = [locals |-> ls, captured |-> cs]
  BY <1>3 DEF AbstractFrames
<1>8. DOMAIN ls = {}
  <2>1. LastSlot(1)' = 1
    BY <1>3, <1>5 DEF LastSlot
  <2>2. DOMAIN ls = {q \in 1..(1 - 1) : IsVar(1 + q)'}
    BY <1>3, <2>1 DEF FrameCells
  <2> QED
    BY <2>2
<1>9. cs = <<>>
  <2>1. (Fn(frames[1].closure).upvalues)' = <<>>
    BY <1>3 DEF Fn, ScriptFn, Made
  <2> QED
    BY <2>1 DEF CellsOf
<1> HIDE DEF ls, cs
<1> QED
  BY <1>1, <1>3, <1>5, <1>6, <1>7, <1>8, <1>9, Activated

(* The parameters of the function that is called are new variables.        *)
LEMMA CallStep ==
  ASSUME ClosuresInv, ClosuresInv', NEW n \in Arities, Call(n)
  PROVE  Abstract!Call
<1> DEFINE base == stack_top - n
           f == evalstack[base].val
<1>0. PICK N \in Nat : N = Len(frames)
  BY DEF ClosuresInv, TypeOK
<1>1. /\ frames # <<>> /\ Ready /\ n \in Nat
      /\ base \in Nat /\ base > slots /\ base <= stack_top
      /\ \A p \in base..stack_top : ~IsVar(p)
      /\ f \in DOMAIN closures
      /\ frames' = Append(frames, [closure |-> f, slots |-> base])
      /\ Len(evalstack') = stack_top
      /\ \A p \in 1..base : evalstack'[p] = evalstack[p]
      /\ \A p \in (base + 1)..stack_top :
           /\ evalstack'[p].cell # 0 /\ evalstack'[p].cell \notin UsedCells
           /\ \A q \in (base + 1)..stack_top : evalstack'[p].cell = evalstack'[q].cell => p = q
      /\ UNCHANGED <<open_upvalues, upvalues, closures, capturing>>
  BY CallEffect
<1>2. /\ N \in Nat \ {0} /\ slots \in Nat \ {0} /\ stack_top \in Nat
      /\ frames[N].slots = slots /\ stack_top' = stack_top
  BY <1>0, <1>1, CurrentFrame DEF ClosuresInv, StackInv, slots, current_frame, stack_top
<1> HIDE DEF base, f
<1>3. /\ Len(frames') = N + 1 /\ \A j \in 1..N : frames'[j] = frames[j]
      /\ frames'[N + 1].closure = f /\ frames'[N + 1].slots = base
  <2> DEFINE e == [closure |-> f, slots |-> base]
  <2>1. e \in FrameType /\ e.closure = f /\ e.slots = base
    BY <1>1, <1>2 DEF FrameType, ClosuresInv, TypeOK
  <2>2. frames \in Seq(FrameType) /\ frames' = Append(frames, e)
    BY <1>1 DEF ClosuresInv, TypeOK
  <2> HIDE DEF e
  <2>3. /\ Len(frames') = N + 1 /\ \A j \in 1..N : frames'[j] = frames[j]
        /\ frames'[N + 1] = e
    BY <1>0, <2>1, <2>2, AppendProperties
  <2> QED
    BY <2>1, <2>3
<1>4. /\ AbstractClosures' = AbstractClosures
      /\ \A j \in 1..N : Captures(frames[j].closure)' = Captures(frames[j].closure)
      /\ AbstractClosures = [x \in DOMAIN closures |-> Captures(x)]
  BY <1>0, <1>1, <1>3, ClosuresKept DEF Ready
<1>5. ASSUME NEW j \in 1..N PROVE FrameCells(j)' = FrameCells(j)
  <2> DEFINE b == frames[j].slots
             l == LastSlot(j)
  <2>1. b \in Nat /\ l \in Nat /\ l <= stack_top
    BY <1>0, FrameLimits
  <2>2. CASE j = N
    <3>1. l = stack_top /\ LastSlot(j)' = base - 1
      BY <1>0, <1>2, <1>3, <2>2 DEF LastSlot
    <3> HIDE DEF b, l
    <3>2. \A q \in (b + 1)..l : IsVar(q) => q \in 1..base /\ q <= base - 1
      <4>1. \A q \in (b + 1)..l : q \in base..stack_top \/ (q \in 1..base /\ q <= base - 1)
        BY <1>1, <1>2, <2>1, <3>1
      <4> QED
        BY <1>1, <4>1
    <3>3. \A q \in (b + 1)..(base - 1) : q \in 1..base /\ q <= l
      BY <1>1, <1>2, <2>1, <3>1
    <3>4. base - 1 \in Int /\ l \in Int
      BY <1>1, <2>1
    <3> QED
      BY <1>1, <1>3, <2>1, <3>1, <3>2, <3>3, <3>4, FrameCellsKept DEF b, l
  <2>3. CASE j # N
    <3>1. j \in 1..N /\ j + 1 \in 1..N /\ j # N + 1
      BY <1>2, <2>3
    <3>2. l = frames[j + 1].slots - 1 /\ LastSlot(j)' = l
      BY <1>0, <1>3, <2>3, <3>1 DEF LastSlot
    <3>3. frames[j + 1].slots \in 1..slots
      BY <1>0, <1>1, <3>1, FrameBases DEF ClosuresInv
    <3>4. l <= base
      BY <1>1, <1>2, <3>2, <3>3
    <3> HIDE DEF b, l
    <3>5. \A q \in (b + 1)..l : q \in 1..base /\ q <= l
      BY <1>1, <2>1, <3>4
    <3>6. \A q \in (b + 1)..l : q <= l /\ evalstack'[q].cell = evalstack[q].cell
      BY <1>1, <3>5
    <3>7. b \in Nat /\ l \in Int /\ LastSlot(j)' = l /\ frames'[j] = frames[j]
      BY <1>3, <2>1, <3>2
    <3> QED
      BY <3>6, <3>7, FrameCellsKept DEF b, l
  <2> QED
    BY <2>2, <2>3
<1>6. \A j \in 1..N : AbstractFrames'[j] = AbstractFrames[j]
  <2>1. \A j \in 1..N : j \in 1..(N + 1)
    BY <1>2
  <2> QED
    BY <1>0, <1>3, <1>4, <1>5, <2>1 DEF AbstractFrames, Captures
<1> DEFINE ls == FrameCells(N + 1)'
           cs == Captures(f)
<1>7. AbstractFrames'[N + 1] = [locals |-> ls, captured |-> cs]
  <2>1. N + 1 \in 1..Len(frames')
    BY <1>2, <1>3
  <2>2. AbstractFrames'[N + 1] = [locals |-> ls,
                                  captured |-> CellsOf(Fn(frames[N + 1].closure).upvalues)']
    BY <1>2, <1>3, <2>1 DEF AbstractFrames
  <2>3. CellsOf(Fn(frames[N + 1].closure).upvalues)' = cs
    BY <1>1, <1>3 DEF Captures, CellsOf, Fn
  <2> QED
    BY <2>2, <2>3
<1>8. \A i \in DOMAIN ls : base + i \in (base + 1)..stack_top /\ ls[i] = evalstack'[base + i].cell
  <2>1. LastSlot(N + 1)' = stack_top
    BY <1>2, <1>3 DEF LastSlot
  <2>2. \A i \in DOMAIN ls : i \in 1..(stack_top - base) /\ ls[i] = evalstack'[base + i].cell
    BY <1>2, <1>3, <2>1 DEF FrameCells
  <2>3. \A i \in 1..(stack_top - base) : base + i \in (base + 1)..stack_top
    BY <1>1, <1>2
  <2> QED
    BY <2>2, <2>3
<1> HIDE DEF ls, cs
<1>9. \A i \in DOMAIN ls : ls[i] \notin NamedCells
  BY <1>1, <1>8, NamedAreUsed
<1>10. \A i, j \in DOMAIN ls : ls[i] = ls[j] => i = j
  <2> SUFFICES ASSUME NEW i \in DOMAIN ls, NEW j \in DOMAIN ls, ls[i] = ls[j]
               PROVE  i = j
    OBVIOUS
  <2>1. base + i = base + j
    BY <1>1, <1>8
  <2>2. i \in Nat /\ j \in Nat
    BY DEF ls, FrameCells
  <2> QED
    BY <1>1, <2>1, <2>2
<1>11. cs \in {<<>>} \cup {AbstractClosures[x] : x \in DOMAIN AbstractClosures}
  <2>1. f \in DOMAIN AbstractClosures /\ AbstractClosures[f] = cs
    BY <1>1, <1>4 DEF cs
  <2> QED
    BY <2>1
<1>12. SlotValuesKept({})
  <2>1. \A q \in 1..stack_top : q \in 1..base \/ q \in (base + 1)..stack_top
    BY <1>1, <1>2
  <2> QED
    BY <1>1, <1>2, <2>1 DEF SlotValuesKept
<1> QED
  BY <1>0, <1>1, <1>3, <1>4, <1>6, <1>7, <1>9, <1>10, <1>11, <1>12, Activated

-----------------------------------------------------------------------------
(* The theorem *)

(* Every step of the machine is a step of the abstract specification or    *)
(* changes none of its variables.                                          *)
LEMMA NextStep ==
  ASSUME ClosuresInv, ClosuresInv', Next
  PROVE  Abstract!Next \/ UNCHANGED <<AbstractFrames, AbstractClosures, AbstractStore>>
<1> USE DEF Abstract!Next
<1>1. CASE Run
  BY <1>1, RunStep
<1>2. CASE PopTemp
  BY <1>2, PopTempStep
<1>3. CASE EndScope
  BY <1>3, EndScopeStep
<1>4. CASE Return
  BY <1>4, ReturnStep
<1>5. CASE RuntimeError
  BY <1>5, RuntimeErrorStep
<1>6. CASE ClosureDone
  BY <1>6, ClosureDoneStep
<1>7. CASE Collect
  BY <1>7, CollectStep
<1>8. CASE \E v \in Vals \cup DOMAIN closures : Push(v)
  BY <1>8, PushStep
<1>9. CASE \E captured \in BOOLEAN : DefineLocal(captured)
  BY <1>9, DefineLocalStep
<1>10. ASSUME NEW p \in 1..stack_top,
              LoadLocal(p) \/ StoreLocal(p) \/ Continue(p) \/ CaptureLocal(p)
       PROVE  Abstract!Next \/ UNCHANGED <<AbstractFrames, AbstractClosures, AbstractStore>>
  BY <1>10, LoadLocalStep, StoreLocalStep, ContinueStep, CaptureStep
<1>11. ASSUME NEW j \in 1..MaxCaptures,
              LoadUpvalue(j) \/ StoreUpvalue(j) \/ CaptureUpvalue(j)
       PROVE  Abstract!Next \/ UNCHANGED <<AbstractFrames, AbstractClosures, AbstractStore>>
  BY <1>11, LoadUpvalueStep, StoreUpvalueStep, CaptureUpvalueStep
<1>12. CASE \E f \in Closure \ DOMAIN closures, arity \in Arities, n \in 0..MaxCaptures :
              NewClosure(f, arity, n)
  BY <1>12, NewClosureStep
<1>13. CASE \E n \in Arities : Call(n)
  BY <1>13, CallStep
<1> QED
  BY <1>1, <1>2, <1>3, <1>4, <1>5, <1>6, <1>7, <1>8, <1>9, <1>10, <1>11, <1>12, <1>13 DEF Next

(* Nothing runs and no closure exists: there are no variables.             *)
LEMMA InitStep ==
  ASSUME Init
  PROVE  Abstract!Init
<1>1. /\ Len(frames) = 0 /\ DOMAIN closures = {} /\ ~capturing /\ 1..0 = {}
  BY DEF Init
<1>2. AbstractFrames = <<>>
  BY <1>1 DEF AbstractFrames
<1>3. AbstractClosures = <<>>
  BY <1>1 DEF AbstractClosures
<1>4. NamedCells = {}
  BY <1>1, <1>3 DEF NamedCells
<1>5. AbstractStore = <<>>
  BY <1>4 DEF AbstractStore
<1> QED
  BY <1>2, <1>3, <1>5 DEF Abstract!Init

(* In a machine whose errors and continues are harmless, local variables,  *)
(* calls and closures implement lexical scoping.                           *)
THEOREM Refinement ==
  ASSUME ~UnsafeErrors, ~UnsafeContinue
  PROVE  Spec => ImplementsLexicalScoping
<1>1. Init => Abstract!Init
  BY InitStep
<1>2. ClosuresInv /\ ClosuresInv' /\ [Next]_vars => [Abstract!Next]_(Abstract!vars)
  <2> SUFFICES ASSUME ClosuresInv, ClosuresInv', [Next]_vars
               PROVE  Abstract!Next \/ UNCHANGED <<AbstractFrames, AbstractClosures, AbstractStore>>
    BY DEF Abstract!vars
  <2>1. CASE Next
    BY <2>1, NextStep
  <2>2. CASE UNCHANGED vars
    <3>1. UNCHANGED <<evalstack, frames, open_upvalues, upvalues, closures, capturing>>
      BY <2>2 DEF vars
    <3>2. UNCHANGED <<AbstractFrames, AbstractClosures>>
      BY <3>1 DEF AbstractFrames, AbstractClosures, FrameCells, LastSlot, CellsOf, Fn, IsVar,
                  TopValue, stack_top
    <3> QED
      BY <3>1, <3>2, StackAlone, UpvaluesAlone, Unseen
  <2> QED
    BY <2>1, <2>2
<1> QED
  BY <1>1, <1>2, ClosuresInvariant, PTL DEF Spec, ImplementsLexicalScoping, Abstract!Spec
=============================================================================
