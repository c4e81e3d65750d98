------------------------------- MODULE Bytecode -------------------------------
(***************************************************************************)
(* The virtual machine (vm.cpp) running what the compiler has made of a    *)
(* program: one action for each instruction or group of like instructions. *)
(* Objects are never freed here (module Heap is about that); the list of   *)
(* open upvalues is the set of those that are open (module Closures shows  *)
(* why the order makes no difference).                                     *)
(***************************************************************************)
EXTENDS Serialization

CONSTANTS
  Programs,    (* the programs that are run from source                     *)
  Compiled,    (* those that are compiled to a file and run from there      *)
  Texts,       (* sessions of lines, legal or not, as sequences of tokens   *)
  value_stack_max,  (* option: values on the stack; 4 more fit              *)
  MaxInputs    (* bound: input() fails from this call on                    *)

ASSUME BoundsAssumption ==
  /\ Radix \in Nat \ {0, 1} /\ MAX_NUMBER_OF_LOCAL_VARIABLES \in Nat \ {0}
  /\ MAX_FRAME_SIZE \in Nat \ {0} /\ value_stack_max \in Nat /\ MaxInputs \in Nat

VARIABLES
  program,    (* the lines of the session; a file is one line               *)
  line,       (* the one that runs, or has run last                         *)
  units,      (* what the compiler makes of each line, after those before   *)
  frames,     (* the calls in progress: closure, ip, position of slot 0     *)
  evalstack,
  upvalues,   (* all upvalues: slot (0 when closed) and closed value        *)
  closures,   (* all closures: function and upvalues                        *)
  objects,    (* all lists (sequences) and maps (functions)                 *)
  globals,    (* Context: what is known of each global, by index            *)
  out,        (* what has been printed                                      *)
  inputs,     (* what input() has returned                                  *)
  status

vars == <<program, line, units, frames, evalstack, upvalues, closures, objects, globals, out, inputs, status>>

unit == units[line]
current_frame == frames[Len(frames)]
ip == current_frame.ip
slots == current_frame.slots
current_closure == closures[current_frame.closure]
function == unit.functions[current_closure.fn]
code == function.code

stack_top == Len(evalstack)
peek(n) == evalstack[stack_top - n]
Popped(n) == SubSeq(evalstack, 1, stack_top - n)

Reader == INSTANCE Parser
Writer == INSTANCE Grammar

(* What the lines compile to, the first one in the Context of unit u.  It  *)
(* does not depend on what the lines before did when they ran.             *)
UnitsOf(texts, u) ==
  Tail(FoldLeft(LAMBDA us, ts : Append(us, compile(Reader!parse(ts), Last(us))), <<u>>, texts))

(* compile_file(), then run_file() of the result; run_source() does the    *)
(* same in one process.  The native functions are registered last.         *)
ThroughFile(u) ==
  IF u.errors # {} THEN u
  ELSE register_native_functions(deserialize_program(serialize_program(u)))

Loaded(us, to_file) == IF to_file THEN <<ThroughFile(us[1])>> ELSE us

(* run_file() of a source, and run_repl(): the native functions are        *)
(* registered before anything is compiled.                                 *)
Made(texts, to_file) ==
  Loaded(UnitsOf(texts, IF to_file THEN NoUnit ELSE register_native_functions(NoUnit)), to_file)

(* The program that a text is the text of.  If it is of none, Bad, and the *)
(* declarations of global constants that were read all the same.           *)
IsConst(s) == s.k = "const"
Checked(ts, p) ==
  IF Contains(p, Bad) THEN <<Bad>> \o SelectSeq(p, IsConst)
  ELSE IF Writer!WithoutTrailing(ts) = Writer!Statements(p) THEN p ELSE <<Bad>>
Read(ts) == Checked(ts, Reader!parse(ts))

(* What is run: programs by their texts, and texts as what they mean.      *)
TextsOf(p) == [i \in DOMAIN p |-> Writer!Statements(p[i])]
Sessions ==
  {[program |-> p, texts |-> TextsOf(p), to_file |-> FALSE] : p \in Programs}
    \cup {[program |-> p, texts |-> TextsOf(p), to_file |-> TRUE] : p \in Compiled}
    \cup {[program |-> [i \in DOMAIN ts |-> Read(ts[i])], texts |-> ts, to_file |-> FALSE] : ts \in Texts}

GlobalValue(name, consts) ==
  [value |-> IF name = "input" THEN Native ELSE Nil, defined |-> name = "input",
   initialized |-> name = "input", is_const |-> name \in consts]

StatusOf(u) ==
  CASE u.errors = {} -> "running"
    [] u.errors = {"load"} -> "abort"
    [] OTHER -> "rejected"

Init ==
  /\ \E s \in Sessions : program = s.program /\ units = Made(s.texts, s.to_file)
  /\ line = 1
  /\ status = StatusOf(unit)
  /\ frames = <<[closure |-> 1, ip |-> 0, slots |-> 1]>>
  /\ closures = <<[fn |-> unit.script, upvalues |-> <<>>]>>
  /\ globals = [i \in DOMAIN unit.globals |-> GlobalValue(unit.globals[i], unit.consts)]
  /\ evalstack = <<Fun(1)>>
  /\ upvalues = <<>> /\ objects = <<>> /\ out = <<>> /\ inputs = <<>>

-----------------------------------------------------------------------------
(* The instruction at ip is one of ops.                                    *)
At(ops) == status = "running" /\ code[ip + 1] \in ops
Is(op) == code[ip + 1] = op
byte == code[ip + 2]
operand == uint16_at(code, ip + 1)

Goto(pos) == frames' = [frames EXCEPT ![Len(frames)].ip = pos]
Result(n, stack) ==
  /\ Goto(ip + n)
  /\ evalstack' = stack
  /\ UNCHANGED <<program, line, units, closures, status>>

Stop(how) ==
  /\ status' = how
  /\ UNCHANGED <<program, line, units, frames, evalstack, upvalues, closures, objects, globals, out, inputs>>
RuntimeError == Stop("error")

(* An exception of the implementation ends the process.                    *)
Abort == Stop("abort")

(* Mutant: push() does not look at the end of the stack.                   *)
FitsAlways(stack) == TRUE

(* push() finds room for what an instruction leaves on the stack (each     *)
(* instruction pops before it pushes).  If not it throws, and nothing      *)
(* below main() catches that: the process ends.                            *)
Fits(stack) == Len(stack) <= value_stack_max + 4
Overflow == Stop("overflow")

(* An instruction of n bytes that touches only the stack, or fails.        *)
Stack(n, ok, stack) ==
  \/ /\ ok /\ Fits(stack)
     /\ Result(n, stack)
     /\ UNCHANGED <<upvalues, objects, globals, out, inputs>>
  \/ ok /\ ~Fits(stack) /\ Overflow
  \/ ~ok /\ RuntimeError

LoadConstant ==
  /\ At({LOAD_CONSTANT, LOAD_CONSTANT_LONG})
  /\ IF Is(LOAD_CONSTANT)
       THEN Stack(2, TRUE, Append(evalstack, function.constants[byte + 1]))
       ELSE Stack(3, TRUE, Append(evalstack, function.constants[operand + 1]))

Literals ==
  (NIL :> Nil) @@ (UNINITIALIZED :> Uninit) @@ (TRUE_ :> Bool(TRUE)) @@ (FALSE_ :> Bool(FALSE))
    @@ (ZERO :> Num(0)) @@ (ONE :> Num(1)) @@ (MINUS_ONE :> Num(-1))
PushLiteral ==
  /\ At(DOMAIN Literals)
  /\ Stack(1, TRUE, Append(evalstack, Literals[code[ip + 1]]))

Negate ==
  /\ At({NEGATE})
  /\ Stack(1, peek(0).t = "num", Append(Popped(1), Num(-peek(0).v)))

LogicalNot ==
  /\ At({NOT})
  /\ Stack(1, TRUE, Append(Popped(1), Bool(Falsey(peek(0)))))

Equal ==
  /\ At({EQUAL})
  /\ Stack(1, TRUE, Append(Popped(2), Bool(peek(0) = peek(1))))

TopTwoAre(t) == peek(0).t = t /\ peek(1).t = t

(* BINARY_OP: the upper value is the right operand.                        *)
BinaryOp ==
  /\ At({ADD, SUBTRACT, MULTIPLY, GREATER, LESS})
  /\ ~(Is(ADD) /\ TopTwoAre("list"))
  /\ LET a == peek(1).v
         b == peek(0).v
         v == CASE Is(ADD) -> Num(a + b)
                [] Is(SUBTRACT) -> Num(a - b)
                [] Is(MULTIPLY) -> Num(a * b)
                [] Is(GREATER) -> Bool(a > b)
                [] Is(LESS) -> Bool(a < b)
     IN Stack(1, TopTwoAre("num"), Append(Popped(2), v))

PopTop == At({POP_TOP}) /\ Stack(1, TRUE, Popped(1))
DupTop == At({DUP_TOP}) /\ Stack(1, TRUE, Append(evalstack, peek(0)))

PrintTop ==
  /\ At({PRINT})
  /\ Result(1, Popped(1))
  /\ out' = Append(out, Show(peek(0)))
  /\ UNCHANGED <<upvalues, objects, globals, inputs>>

Jump ==
  /\ At({JUMP_IF_FALSE, JUMP_IF_TRUE, POP_JUMP_IF_FALSE, JUMP_FORWARD, JUMP_BACKWARD})
  /\ LET taken == \/ Is(JUMP_FORWARD) \/ Is(JUMP_BACKWARD)
                  \/ (Is(JUMP_IF_FALSE) \/ Is(POP_JUMP_IF_FALSE)) /\ Falsey(peek(0))
                  \/ Is(JUMP_IF_TRUE) /\ ~Falsey(peek(0))
     IN Goto(ip + 3 + (IF ~taken THEN 0 ELSE IF Is(JUMP_BACKWARD) THEN -operand ELSE operand))
  /\ evalstack' = IF Is(POP_JUMP_IF_FALSE) THEN Popped(1) ELSE evalstack
  /\ UNCHANGED <<program, line, units, upvalues, closures, objects, globals, out, inputs, status>>

LoadLocal ==
  /\ At({LOAD_LOCAL})
  /\ Stack(3, evalstack[slots + operand] # Uninit, Append(evalstack, evalstack[slots + operand]))

StoreLocal ==
  /\ At({STORE_LOCAL})
  /\ Stack(3, TRUE, [evalstack EXCEPT ![slots + operand] = peek(0)])

global == globals[operand + 1]
LoadGlobal ==
  /\ At({LOAD_GLOBAL})
  /\ Stack(3, global.defined /\ global.initialized, Append(evalstack, global.value))

SetGlobal(stack, g) ==
  /\ Result(3, stack)
  /\ globals' = [globals EXCEPT ![operand + 1] = g]
  /\ UNCHANGED <<upvalues, objects, out, inputs>>

(* Mutant: a constant is defined again.                                    *)
DefineGlobalAgain ==
  /\ At({DEFINE_GLOBAL})
  /\ SetGlobal(Popped(1), [global EXCEPT !.defined = TRUE, !.value = peek(0),
                                         !.initialized = @ \/ peek(0) # Uninit])

DefineGlobal ==
  /\ At({DEFINE_GLOBAL})
  /\ IF global.defined /\ global.is_const THEN RuntimeError
     ELSE SetGlobal(Popped(1), [global EXCEPT !.defined = TRUE, !.value = peek(0),
                                              !.initialized = @ \/ peek(0) # Uninit])

StoreGlobal ==
  /\ At({STORE_GLOBAL})
  /\ IF ~global.defined \/ global.is_const THEN RuntimeError
     ELSE SetGlobal(evalstack, [global EXCEPT !.value = peek(0), !.initialized = TRUE])

-----------------------------------------------------------------------------
(* Lists and maps *)

Build(n, stack, objs) ==
  \/ /\ Fits(stack)
     /\ Result(n, stack)
     /\ objects' = objs
     /\ UNCHANGED <<upvalues, globals, out, inputs>>
  \/ ~Fits(stack) /\ Overflow

BuildList ==
  /\ At({LIST})
  /\ Build(2, Append(Popped(byte), List(Len(objects) + 1)),
           Append(objects, SubSeq(evalstack, stack_top - byte + 1, stack_top)))

AddLists ==
  /\ At({ADD}) /\ TopTwoAre("list")
  /\ Build(1, Append(Popped(2), List(Len(objects) + 1)),
           Append(objects, objects[peek(1).v] \o objects[peek(0).v]))

ListAppend ==
  /\ At({LIST_APPEND})
  /\ Build(1, Popped(1), [objects EXCEPT ![peek(1).v] = Append(@, peek(0))])

(* MAP enters the pairs from the top of the stack down; one whose key      *)
(* cannot be hashed is an error.                                           *)
BuildMap ==
  /\ At({MAP})
  /\ LET pairs == [i \in 1..byte |-> <<peek(2 * i - 1), peek(2 * i - 2)>>]
     IN IF \E i \in 1..byte : ~Hashable(pairs[i][1]) THEN RuntimeError
        ELSE Build(2, Append(Popped(2 * byte), Map(Len(objects) + 1)),
                   Append(objects, FoldLeft(LAMBDA m, p : (p[1] :> p[2]) @@ m, NoItems, pairs)))

MapAdd ==
  /\ At({MAP_ADD})
  /\ IF ~Hashable(peek(1)) THEN RuntimeError
     ELSE Build(1, Popped(2), [objects EXCEPT ![peek(2).v] = (peek(1) :> peek(0)) @@ @])

(* Only the upper end of a list is checked: get() of a negative index has  *)
(* no value, and asking for it ends the process.                           *)
LoadIndex ==
  /\ At({LOAD_INDEX})
  /\ LET obj == peek(1)
         i == peek(0)
         found(at) == Result(1, Append(Popped(2), objects[obj.v][at]))
                      /\ UNCHANGED <<upvalues, objects, globals, out, inputs>>
     IN CASE obj.t = "map" -> IF i \in DOMAIN objects[obj.v] THEN found(i) ELSE RuntimeError
          [] obj.t = "list" /\ i.t = "num" ->
               IF i.v >= Len(objects[obj.v]) THEN RuntimeError
               ELSE IF i.v < 0 THEN Abort ELSE found(i.v + 1)
          [] OTHER -> RuntimeError

(* set() ignores a negative index.                                         *)
StoreIndex ==
  /\ At({STORE_INDEX})
  /\ LET obj == peek(2)
         i == peek(1)
         store(objs) == Build(1, Append(Popped(3), peek(0)), objs)
     IN CASE obj.t = "map" ->
               IF Hashable(i) THEN store([objects EXCEPT ![obj.v] = (i :> peek(0)) @@ @])
               ELSE RuntimeError
          [] obj.t = "list" /\ i.t = "num" ->
               IF i.v >= Len(objects[obj.v]) THEN RuntimeError
               ELSE IF i.v < 0 THEN store(objects)
               ELSE store([objects EXCEPT ![obj.v][i.v + 1] = peek(0)])
          [] OTHER -> RuntimeError

-----------------------------------------------------------------------------
(* Upvalues and calls *)

OpenAt(p, ups) == {u \in DOMAIN ups : ups[u].loc = p}

(* capture_upvalue(): the open upvalue of slot p, or a new one.            *)
Capture(p, ups) ==
  IF OpenAt(p, ups) = {} THEN Append(ups, [loc |-> p, closed |-> Nil]) ELSE ups

(* close_upvalues(): those of slot last and above take over their values.  *)
Closed(last) ==
  [u \in DOMAIN upvalues |->
     IF upvalues[u].loc >= last THEN [loc |-> 0, closed |-> evalstack[upvalues[u].loc]]
                                ELSE upvalues[u]]

MakeClosure ==
  /\ At({CLOSURE})
  /\ LET fn == function.constants[operand + 1].v
         n == Len(unit.functions[fn].upvalues)
         isLocal(i) == code[ip + 4 + 3 * (i - 1)] = 1
         which(i) == uint16_at(code, ip + 4 + 3 * (i - 1))
         ups == FoldLeft(LAMBDA us, i : IF isLocal(i) THEN Capture(slots + which(i), us) ELSE us,
                         upvalues, [i \in 1..n |-> i])
         (* an upvalue of the new closure *)
         up(i) == IF isLocal(i) THEN CHOOSE u \in OpenAt(slots + which(i), ups) : TRUE
                  ELSE current_closure.upvalues[which(i) + 1]
         stack == Append(evalstack, Fun(Len(closures) + 1))
     IN \/ /\ Fits(stack)
           /\ closures' = Append(closures, [fn |-> fn, upvalues |-> [i \in 1..n |-> up(i)]])
           /\ upvalues' = ups
           /\ Goto(ip + 3 + 3 * n)
           /\ evalstack' = stack
           /\ UNCHANGED <<program, line, units, objects, globals, out, inputs, status>>
        \/ ~Fits(stack) /\ Overflow

Upvalue == current_closure.upvalues[operand + 1]
LoadUpvalue ==
  /\ At({LOAD_UPVALUE})
  /\ LET u == upvalues[Upvalue]
     IN Stack(3, TRUE, Append(evalstack, IF u.loc = 0 THEN u.closed ELSE evalstack[u.loc]))

StoreUpvalue ==
  /\ At({STORE_UPVALUE})
  /\ LET u == upvalues[Upvalue]
     IN /\ Result(3, IF u.loc = 0 THEN evalstack ELSE [evalstack EXCEPT ![u.loc] = peek(0)])
        /\ upvalues' = IF u.loc = 0 THEN [upvalues EXCEPT ![Upvalue].closed = peek(0)] ELSE upvalues
        /\ UNCHANGED <<objects, globals, out, inputs>>

CloseUpvalue ==
  /\ At({CLOSE_UPVALUE})
  /\ upvalues' = Closed(stack_top)
  /\ Result(1, Popped(1))
  /\ UNCHANGED <<objects, globals, out, inputs>>

callee == peek(byte)

(* input() returns anything, until it fails.                               *)
CallNative ==
  /\ At({CALL}) /\ callee = Native
  /\ IF byte # 0 \/ Len(inputs) = MaxInputs THEN RuntimeError
     ELSE \E b \in BOOLEAN :
            /\ inputs' = Append(inputs, b)
            /\ Result(2, Append(Popped(1), Bool(b)))
            /\ UNCHANGED <<upvalues, objects, globals, out>>

CallClosure ==
  /\ At({CALL}) /\ callee.t = "fun"
  /\ IF \/ unit.functions[closures[callee.v].fn].arity # byte
        \/ Len(frames) = MAX_FRAME_SIZE
       THEN RuntimeError
     ELSE /\ frames' = Append([frames EXCEPT ![Len(frames)].ip = @ + 2],
                              [closure |-> callee.v, ip |-> 0, slots |-> stack_top - byte])
          /\ UNCHANGED <<program, line, units, evalstack, upvalues, closures, objects, globals, out, inputs, status>>

CallOther == At({CALL}) /\ callee.t \notin {"fun", "native"} /\ RuntimeError

(* The stack goes back to slot 0 of the call, which the result replaces.   *)
ReturnOp ==
  /\ At({RETURN})
  /\ frames' = SubSeq(frames, 1, Len(frames) - 1)
  /\ IF Len(frames) = 1
       THEN /\ status' = "ok"
            /\ evalstack' = Popped(2) /\ upvalues' = Closed(slots)
       ELSE /\ evalstack' = Append(SubSeq(evalstack, 1, slots - 1), peek(0))
            /\ upvalues' = Closed(slots)
            /\ UNCHANGED status
  /\ UNCHANGED <<program, line, units, closures, objects, globals, out, inputs>>

(* run_repl(): the next line is compiled in the same Context.  Before it   *)
(* runs the stack and the frames are cleared; the upvalues are not.        *)
NextLine ==
  /\ status \in {"ok", "error", "rejected"} /\ line < Len(program)
  /\ line' = line + 1
  /\ status' = StatusOf(units[line + 1])
  /\ closures' = Append(closures, [fn |-> units[line + 1].script, upvalues |-> <<>>])
  /\ frames' = <<[closure |-> Len(closures'), ip |-> 0, slots |-> 1]>>
  /\ evalstack' = <<Fun(Len(closures'))>>
  /\ globals' = LET u == units[line + 1]
                IN [i \in DOMAIN u.globals |->
                      IF i \in DOMAIN globals
                        THEN [globals[i] EXCEPT !.is_const = u.globals[i] \in u.consts]
                        ELSE GlobalValue(u.globals[i], u.consts)]
  /\ UNCHANGED <<program, units, upvalues, objects, out, inputs>>

(* At the end of the session, or of the process, nothing more happens.     *)
Ended ==
  /\ status # "running" /\ (line = Len(program) \/ status \in {"abort", "overflow"})
  /\ UNCHANGED vars

Next ==
  \/ LoadConstant \/ PushLiteral \/ Negate \/ LogicalNot \/ Equal \/ BinaryOp
  \/ PopTop \/ DupTop \/ PrintTop \/ Jump
  \/ LoadLocal \/ StoreLocal \/ LoadGlobal \/ DefineGlobal \/ StoreGlobal
  \/ BuildList \/ AddLists \/ ListAppend \/ BuildMap \/ MapAdd \/ LoadIndex \/ StoreIndex
  \/ MakeClosure \/ LoadUpvalue \/ StoreUpvalue \/ CloseUpvalue
  \/ CallNative \/ CallClosure \/ CallOther \/ ReturnOp
  \/ NextLine \/ Ended

(* The loop of run() never waits for anything.                             *)
Spec == Init /\ [][Next]_vars /\ WF_vars(Next)

-----------------------------------------------------------------------------
(* Properties *)

Values == [t : {"num", "bool", "nil", "uninit", "native", "fun", "fn", "list", "map"}, v : Int]

(* The machine is well formed: a stack within its array, an ip that is a   *)
(* position of the code, calls and upvalues that lie on the stack.         *)
TypeOK ==
  /\ status \in {"running", "ok", "error", "abort", "overflow", "rejected"}
  /\ stack_top <= value_stack_max + 4
  /\ \A i \in DOMAIN evalstack : evalstack[i] \in Values
  /\ status = "running" =>
       /\ ip \in 0..(Len(code) - 1)
       /\ \A i \in DOMAIN frames : frames[i].slots \in 1..stack_top
       /\ \A u \in DOMAIN upvalues : upvalues[u].loc \in 0..stack_top

LimitExceeded == unit.errors \cap {"jump", "locals"} # {}
EndsAs(m) ==
  IF status = "overflow" THEN IsPrefix(out, m.out) /\ stack_top = value_stack_max + 4
                         ELSE [out |-> out, status |-> status] = m

(* A line that is too long for its jumps or its variables is not run.      *)
(* run() of what compile() makes of the text of any other prints what the  *)
(* line says and ends as the line says, after any lines before it, failed  *)
(* ones included: for every input the machine stops with the output and    *)
(* the outcome that the trees of the lines have.  A line that needs more   *)
(* stack than there is ends the process, with a full stack, and until then *)
(* has printed a beginning of what it says.                                *)
RunsAsWritten ==
  status # "running" /\ ~LimitExceeded => EndsAs(Meaning(SubSeq(program, 1, line), inputs))

(* The compiler's vector of locals is a picture of the stack: whenever     *)
(* control arrives where a statement begins, by whatever jumps, the call   *)
(* has exactly as many values on the stack as there were locals when the   *)
(* statement was compiled.                                                 *)
StackMatchesLocals ==
  status = "running" =>
    \A st \in function.statements : st[1] = ip => stack_top - slots + 1 = st[2]

(* compile() rejects a line exactly when it is not the text of a program,  *)
(* or a declaration, a constant, a loop, a switch or a return is misused,  *)
(* given the constants of the lines before it; what remains are the limits *)
(* on distances and variables.                                             *)
RejectsExactly ==
  "syntax" \in unit.errors
    <=> ~WellFormed(program[line], UNION {ConstNames(program[i]) : i \in 1..(line - 1)})

(* A global that some line of the program declares const keeps its first   *)
(* value, whoever assigns to it or declares it again, before or after that *)
(* line, and also when the program was loaded from a file.                 *)
ConstKeepsValue ==
  [][\A i \in DOMAIN globals :
       globals[i].is_const /\ globals[i].defined => globals'[i].value = globals[i].value]_vars

(* Every session comes to the end of its last line, or of the process: no  *)
(* jump leads the machine in circles.                                      *)
ProgramsEnd ==
  <>[](status # "running" /\ (line = Len(program) \/ status \in {"abort", "overflow"}))
=============================================================================
