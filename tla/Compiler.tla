------------------------------- MODULE Compiler -------------------------------
(***************************************************************************)
(* The single-pass compiler (compiler.cpp): one operator for each routine, *)
(* under the routine's name.  Module Parser has read the tokens as a tree; *)
(* what a routine changes is the record c:                                 *)
(*                                                                         *)
(*   fs         the compilers in progress, the innermost last: each has    *)
(*              the code and constants of its function, its locals and     *)
(*              upvalues, its scope and loop context                       *)
(*   functions  the functions that are finished, in the order in which     *)
(*              their constants were added                                 *)
(*   globals    the names that Context has given indices to                *)
(*   consts     those of them that are constant                            *)
(*   errors     the kinds of errors reported                               *)
(*                                                                         *)
(* Code is a sequence of bytes.  An operand of 16 bits is two bytes, here  *)
(* to the base Radix, which is 256 in the program.  Positions in the code  *)
(* count from 0, as they do there.                                         *)
(***************************************************************************)
EXTENDS Source, SequencesExt

CONSTANTS
  Radix,                         (* the number of values of a byte          *)
  MAX_NUMBER_OF_LOCAL_VARIABLES,
  LIST_BUILD_APPEND_THRESHOLD,   (* literals up to this length are built    *)
  MAP_BUILD_ADD_THRESHOLD        (* at once, the rest is added one by one   *)

(* Opcodes, numbered as in opcode.hpp.                                     *)
RETURN == 1
LOAD_CONSTANT == 2
LOAD_CONSTANT_LONG == 3
NEGATE == 4
ADD == 5
SUBTRACT == 6
MULTIPLY == 7
NIL == 9
UNINITIALIZED == 10
TRUE_ == 11
FALSE_ == 12
NOT == 13
EQUAL == 14
GREATER == 15
LESS == 16
PRINT == 17
POP_TOP == 18
DEFINE_GLOBAL == 19
STORE_GLOBAL == 20
LOAD_GLOBAL == 21
STORE_LOCAL == 22
LOAD_LOCAL == 23
STORE_UPVALUE == 24
LOAD_UPVALUE == 25
LOAD_INDEX == 30
STORE_INDEX == 31
CLOSE_UPVALUE == 32
JUMP_IF_FALSE == 33
JUMP_IF_TRUE == 34
POP_JUMP_IF_FALSE == 35
JUMP_FORWARD == 36
JUMP_BACKWARD == 37
DUP_TOP == 38
CALL == 39
CLOSURE == 44
ZERO == 45
MINUS_ONE == 46
ONE == 47
LIST == 49
LIST_APPEND == 50
MAP == 51
MAP_ADD == 52

UINT16_MAX == Radix * Radix - 1
uint16_le(n) == <<n % Radix, (n \div Radix) % Radix>>
uint16_at(code, pos) == code[pos + 1] + Radix * code[pos + 2]

-----------------------------------------------------------------------------
(* The compiler of a function *)

Local(name, depth, uninitialized, is_const) ==
  [name |-> name, depth |-> depth, uninitialized |-> uninitialized,
   is_const |-> is_const, is_captured |-> FALSE]

(* Slot 0 is the function itself.                                          *)
NewCompiler(type, name) ==
  [function_type |-> type, name |-> name, code |-> <<>>, constants |-> <<>>, arity |-> 0,
   locals |-> <<Local("", 0, TRUE, FALSE)>>, upvalues |-> <<>>,
   scope_depth |-> 0, loop_depth |-> 0, loop_scope_depth |-> 0, loop_start_offset |-> 0,
   statements |-> {}]

Top(c) == Len(c.fs)
Cur(c) == c.fs[Len(c.fs)]
Size(c) == Len(Cur(c).code)
NumLocals(c) == Len(Cur(c).locals)

report_error(c, kind) == [c EXCEPT !.errors = @ \cup {kind}]

emit(c, bytes) == [c EXCEPT !.fs[Top(c)].code = @ \o bytes]
emit_opcode(c, op) == emit(c, <<op>>)
emit_return(c) == emit(c, <<NIL, RETURN>>)

(* The operand is filled in later; it is the last two bytes.               *)
emit_jump(c, op) == emit(c, <<op, 0, 0>>)
Operand(c) == Size(c) - 2

(* Mutants: the operand itself is counted; no check of the distance.       *)
patch_jump_operand(c, offset) ==
  LET jump == Size(c) - offset
      bytes == uint16_le(jump)
      p == [c EXCEPT !.fs[Top(c)].code[offset + 1] = bytes[1],
                     !.fs[Top(c)].code[offset + 2] = bytes[2]]
  IN IF jump > UINT16_MAX THEN report_error(p, "jump") ELSE p
patch_jump_unchecked(c, offset) ==
  LET bytes == uint16_le(Size(c) - offset - 2)
  IN [c EXCEPT !.fs[Top(c)].code[offset + 1] = bytes[1],
               !.fs[Top(c)].code[offset + 2] = bytes[2]]

patch_jump(c, offset) ==
  LET jump == Size(c) - offset - 2
      bytes == uint16_le(jump)
      p == [c EXCEPT !.fs[Top(c)].code[offset + 1] = bytes[1],
                     !.fs[Top(c)].code[offset + 2] = bytes[2]]
  IN IF jump > UINT16_MAX THEN report_error(p, "jump") ELSE p

emit_jump_back(c, absolute_location) ==
  LET offset == Size(c) + 1 - absolute_location + 2
      p == emit(c, <<JUMP_BACKWARD>> \o uint16_le(offset))
  IN IF offset > UINT16_MAX THEN report_error(p, "jump") ELSE p

-----------------------------------------------------------------------------
(* Names *)

(* The index of a global; a new name gets the next one.                    *)
identifier(c, name) ==
  IF Contains(c.globals, name) THEN c ELSE [c EXCEPT !.globals = Append(@, name)]
GlobalIndex(c, name) == (CHOOSE i \in DOMAIN c.globals : c.globals[i] = name) - 1

(* The innermost local of that name in the k-th compiler, or -1.           *)
LastLocal(f, name) == SelectLastInSeq(f.locals, LAMBDA l : l.name = name) - 1

(* A variable cannot be used in its own initializer.                       *)
ResolvesLocal(f, name) ==
  LastLocal(f, name) # -1 /\ ~f.locals[LastLocal(f, name) + 1].uninitialized
LocalError(f, name) ==
  LastLocal(f, name) # -1 /\ f.locals[LastLocal(f, name) + 1].uninitialized

(* A variable is listed once.                                              *)
add_upvalue(c, k, index, is_local) ==
  LET up == [index |-> index, is_local |-> is_local]
  IN IF Contains(c.fs[k].upvalues, up) THEN c
     ELSE [c EXCEPT !.fs[k].upvalues = Append(@, up)]
UpvalueIndex(f, index, is_local) ==
  (CHOOSE i \in DOMAIN f.upvalues :
     f.upvalues[i] = [index |-> index, is_local |-> is_local]) - 1

(* The variable is a local of the compiler around the k-th one, or an      *)
(* upvalue of that one.  The result is c with index and is_const.          *)
RECURSIVE resolve_upvalue(_, _, _)
resolve_upvalue(c, k, name) ==
  IF k = 1 THEN [c |-> c, index |-> -1, is_const |-> FALSE]
  ELSE LET f == c.fs[k - 1]
           local == LastLocal(f, name)
           e == IF LocalError(f, name) THEN report_error(c, "syntax") ELSE c
       IN IF ResolvesLocal(f, name)
            THEN LET m == [e EXCEPT !.fs[k - 1].locals[local + 1].is_captured = TRUE]
                     a == add_upvalue(m, k, local, TRUE)
                 IN [c |-> a, index |-> UpvalueIndex(a.fs[k], local, TRUE),
                     is_const |-> f.locals[local + 1].is_const]
            ELSE LET up == resolve_upvalue(e, k - 1, name)
                     a == add_upvalue(up.c, k, up.index, FALSE)
                 IN IF up.index = -1 THEN up
                    ELSE [c |-> a, index |-> UpvalueIndex(a.fs[k], up.index, FALSE),
                          is_const |-> up.is_const]

add_local(c, name, is_const) ==
  IF NumLocals(c) = MAX_NUMBER_OF_LOCAL_VARIABLES THEN report_error(c, "locals")
  ELSE [c EXCEPT !.fs[Top(c)].locals =
                   Append(@, Local(name, Cur(c).scope_depth, TRUE, is_const))]

(* Mutant: only the innermost variable is compared.                        *)
declare_variable_last(c, name, is_const) ==
  IF Cur(c).scope_depth = 0 THEN c
  ELSE IF Last(Cur(c).locals).name = name /\ Last(Cur(c).locals).depth >= Cur(c).scope_depth
    THEN report_error(c, "syntax")
  ELSE add_local(c, name, is_const)

declare_variable(c, name, is_const) ==
  IF Cur(c).scope_depth = 0 THEN c
  ELSE IF \E l \in ToSet(Cur(c).locals) : l.name = name /\ l.depth >= Cur(c).scope_depth
    THEN report_error(c, "syntax")
  ELSE add_local(c, name, is_const)

parse_variable(c, name, is_const) ==
  LET d == declare_variable(c, name, is_const)
  IN IF Cur(c).scope_depth > 0 THEN d ELSE identifier(d, name)

mark_initialized(c) ==
  IF Cur(c).scope_depth > 0
    THEN [c EXCEPT !.fs[Top(c)].locals[NumLocals(c)].uninitialized = FALSE] ELSE c

(* Context remembers at once that a global is constant.                    *)
define_variable(c, name, is_const) ==
  IF Cur(c).scope_depth > 0 THEN mark_initialized(c)
  ELSE IF name \in c.consts THEN report_error(c, "syntax")
  ELSE emit([c EXCEPT !.consts = IF is_const THEN @ \cup {name} ELSE @],
            <<DEFINE_GLOBAL>> \o uint16_le(GlobalIndex(c, name)))

begin_scope(c) == [c EXCEPT !.fs[Top(c)].scope_depth = @ + 1]

(* A captured variable moves out of the stack.                             *)
ScopeOp(l) == IF l.is_captured THEN CLOSE_UPVALUE ELSE POP_TOP

end_scope(c) ==
  LET f == Cur(c)
      keep == SelectLastInSeq(f.locals, LAMBDA l : l.depth <= f.scope_depth - 1)
      gone == Reverse(SubSeq(f.locals, keep + 1, Len(f.locals)))
  IN [c EXCEPT !.fs[Top(c)] =
        [f EXCEPT !.scope_depth = @ - 1, !.locals = SubSeq(@, 1, keep),
                  !.code = @ \o [i \in DOMAIN gone |-> ScopeOp(gone[i])]]]

-----------------------------------------------------------------------------
(* Expressions *)

RECURSIVE expression(_, _), statement(_, _), declaration(_, _), declarations(_, _),
          argument_list(_, _), list(_, _, _), map(_, _, _), switch_arms(_, _, _, _), parameters(_, _)

write_load_constant(c, index) ==
  emit(c, IF index < Radix THEN <<LOAD_CONSTANT, index>>
          ELSE <<LOAD_CONSTANT_LONG>> \o uint16_le(index))

(* A number is listed once in the constants of a function.                 *)
number(c, v) ==
  LET known == SelectInSeq(Cur(c).constants, LAMBDA w : w = v)
      a == [c EXCEPT !.fs[Top(c)].constants = Append(@, v)]
  IN CASE v.v = 0 -> emit_opcode(c, ZERO)
       [] v.v = 1 -> emit_opcode(c, ONE)
       [] known # 0 -> write_load_constant(c, known - 1)
       [] OTHER -> write_load_constant(a, Len(Cur(c).constants))

literal(c, v) ==
  CASE v.t = "num" -> number(c, v)
    [] v = Nil -> emit_opcode(c, NIL)
    [] v = Bool(TRUE) -> emit_opcode(c, TRUE_)
    [] v = Bool(FALSE) -> emit_opcode(c, FALSE_)

(* The rewriting of -1 looks at the last byte of the code.                 *)
unary(e, c) ==
  LET d == expression(e.a, c)
  IN IF e.k = "not" THEN emit_opcode(d, NOT)
     ELSE IF Size(d) > 0 /\ Last(Cur(d).code) = ONE
       THEN [d EXCEPT !.fs[Top(d)].code[Size(d)] = MINUS_ONE]
     ELSE emit_opcode(d, NEGATE)

and_or(e, c) ==
  LET j == emit_jump(expression(e.a, c), IF e.k = "and" THEN JUMP_IF_FALSE ELSE JUMP_IF_TRUE)
  IN patch_jump(expression(e.b, emit_opcode(j, POP_TOP)), Operand(j))

(* Three of the operators are the negations of others.                     *)
BinaryOpcodes(op) ==
  CASE op = "PLUS" -> <<ADD>>
    [] op = "MINUS" -> <<SUBTRACT>>
    [] op = "STAR" -> <<MULTIPLY>>
    [] op = "EQUAL_EQUAL" -> <<EQUAL>>
    [] op = "BANG_EQUAL" -> <<EQUAL, NOT>>
    [] op = "GREATER" -> <<GREATER>>
    [] op = "GREATER_EQUAL" -> <<LESS, NOT>>
    [] op = "LESS" -> <<LESS>>
    [] op = "LESS_EQUAL" -> <<GREATER, NOT>>

binary(e, c) == emit(expression(e.b, expression(e.a, c)), BinaryOpcodes(e.op))

grouping(e, c) == expression(e.a, c)

(* No code of its own: all three values are computed.                      *)
ternary(e, c) == expression(e.c, expression(e.b, expression(e.a, c)))

(* Load or store the variable at index, wherever it is.                    *)
Access(e, c, load_op, store_op, index, is_const) ==
  IF e.k = "ref" THEN emit(c, <<load_op>> \o uint16_le(index))
  ELSE IF is_const THEN report_error(c, "syntax")
  ELSE emit(expression(e.a, c), <<store_op>> \o uint16_le(index))

(* A local of this function; else one of the functions around it, which    *)
(* up tells; else a global, whose constness shows only at run time.        *)
AccessGlobal(e, c) == Access(e, c, LOAD_GLOBAL, STORE_GLOBAL, GlobalIndex(c, e.name), FALSE)
AccessOuter(e, up) ==
  IF up.index # -1 THEN Access(e, up.c, LOAD_UPVALUE, STORE_UPVALUE, up.index, up.is_const)
  ELSE AccessGlobal(e, identifier(up.c, e.name))

named_variable(e, c) ==
  LET local == LastLocal(Cur(c), e.name)
  IN IF ResolvesLocal(Cur(c), e.name)
       THEN Access(e, c, LOAD_LOCAL, STORE_LOCAL, local, Cur(c).locals[local + 1].is_const)
     ELSE AccessOuter(e, resolve_upvalue(IF LocalError(Cur(c), e.name)
                                           THEN report_error(c, "syntax") ELSE c, Top(c), e.name))

argument_list(args, c) ==
  IF args = <<>> THEN c ELSE argument_list(Tail(args), expression(Head(args), c))
call(e, c) == emit(argument_list(e.args, expression(e.a, c)), <<CALL, Len(e.args)>>)

(* The elements from the n-th on: LIST makes a list of those on the stack, *)
(* LIST_APPEND takes the later ones.                                       *)
list(args, n, c) ==
  IF n > Len(args)
    THEN IF Len(args) < LIST_BUILD_APPEND_THRESHOLD THEN emit(c, <<LIST, Len(args)>>) ELSE c
    ELSE LET e == expression(args[n], c)
         IN list(args, n + 1,
                 CASE n < LIST_BUILD_APPEND_THRESHOLD -> e
                   [] n = LIST_BUILD_APPEND_THRESHOLD -> emit(e, <<LIST, n>>)
                   [] OTHER -> emit_opcode(e, LIST_APPEND))

(* Likewise for the n-th key and its value.                                *)
map(args, n, c) ==
  IF 2 * n > Len(args)
    THEN IF Len(args) \div 2 < MAP_BUILD_ADD_THRESHOLD
           THEN emit(c, <<MAP, Len(args) \div 2>>) ELSE c
    ELSE LET e == expression(args[2 * n], expression(args[2 * n - 1], c))
         IN map(args, n + 1,
                CASE n < MAP_BUILD_ADD_THRESHOLD -> e
                  [] n = MAP_BUILD_ADD_THRESHOLD -> emit(e, <<MAP, n>>)
                  [] OTHER -> emit_opcode(e, MAP_ADD))

index(e, c) ==
  emit_opcode(argument_list(e.args, expression(e.a, c)),
              IF e.k = "index" THEN LOAD_INDEX ELSE STORE_INDEX)

expression(e, c) ==
  CASE e.k = "lit" -> literal(c, e.v)
    [] e.k \in {"neg", "not"} -> unary(e, c)
    [] e.k \in {"and", "or"} -> and_or(e, c)
    [] e.k = "bin" -> binary(e, c)
    [] e.k = "group" -> grouping(e, c)
    [] e.k = "cond" -> ternary(e, c)
    [] e.k \in {"ref", "assign"} -> named_variable(e, c)
    [] e.k = "call" -> call(e, c)
    [] e.k = "list" -> list(e.args, 1, c)
    [] e.k = "map" -> map(e.args, 1, c)
    [] e.k \in {"index", "setindex"} -> index(e, c)
    [] e.k = "bad" -> report_error(c, "syntax")

-----------------------------------------------------------------------------
(* Declarations *)

var_declaration(s, c) ==
  LET p == parse_variable(c, s.name, FALSE)
  IN define_variable(IF s.a = None THEN emit_opcode(p, UNINITIALIZED) ELSE expression(s.a, p),
                     s.name, FALSE)

const_declaration(s, c) ==
  LET p == parse_variable(c, s.name, TRUE)
  IN IF s.a = None THEN report_error(p, "syntax")
     ELSE define_variable(expression(s.a, p), s.name, TRUE)

parameters(params, c) ==
  IF params = <<>> THEN c
  ELSE LET a == [c EXCEPT !.fs[Top(c)].arity = @ + 1]
       IN parameters(Tail(params),
                     define_variable(parse_variable(a, Head(params), FALSE), Head(params), FALSE))

(* A compiler of its own; what it found out about captured variables stays *)
(* with the compilers around it, the first n.                              *)
end_function(n, c) ==
  LET done == Cur(c)
      fn == [t |-> "fn", v |-> Len(c.functions) + 1]
      back == [c EXCEPT !.fs = SubSeq(@, 1, n), !.functions = Append(@, done)]
      ups == [i \in DOMAIN done.upvalues |->
                <<IF done.upvalues[i].is_local THEN 1 ELSE 0>> \o uint16_le(done.upvalues[i].index)]
  IN emit([back EXCEPT !.fs[n].constants = Append(@, fn)],
          <<CLOSURE>> \o uint16_le(Len(Cur(back).constants)) \o FlattenSeq(ups))

compile_function(s, c) ==
  LET new == [c EXCEPT !.fs = Append(@, NewCompiler("FUNCTION", s.name))]
  IN end_function(Top(c), emit_return(declarations(s.ss, parameters(s.params, begin_scope(new)))))

fun_declaration(s, c) ==
  define_variable(compile_function(s, mark_initialized(parse_variable(c, s.name, FALSE))),
                  s.name, FALSE)

-----------------------------------------------------------------------------
(* Statements *)

(* The statements of an if, after the jump over the first of them.         *)
ElseStatement(s, jump, c) ==
  LET e == emit_jump(c, JUMP_FORWARD)
  IN IF s.t = None THEN patch_jump(c, jump)
     ELSE patch_jump(statement(s.t, patch_jump(e, jump)), Operand(e))
ThenStatement(s, c) == ElseStatement(s, Operand(c), statement(s.s, c))

if_statement(s, c) == ThenStatement(s, emit_jump(expression(s.a, c), POP_JUMP_IF_FALSE))

(* Mutant: continue goes to the body, not to the condition or the update.  *)
EnterLoopBody(c, start) ==
  [c EXCEPT !.fs[Top(c)].loop_scope_depth = Cur(c).scope_depth,
            !.fs[Top(c)].loop_start_offset = Size(c)]

(* The loop whose body is compiled: where continue goes, and down to which *)
(* scope it leaves.                                                        *)
EnterLoop(c, start) ==
  [c EXCEPT !.fs[Top(c)].loop_scope_depth = Cur(c).scope_depth,
            !.fs[Top(c)].loop_start_offset = start]
LeaveLoop(c, outer) ==
  [c EXCEPT !.fs[Top(c)].loop_scope_depth = Cur(outer).loop_scope_depth,
            !.fs[Top(c)].loop_start_offset = Cur(outer).loop_start_offset]
Deeper(c, n) == [c EXCEPT !.fs[Top(c)].loop_depth = @ + n]

while_statement(s, c) ==
  LET b == begin_scope(Deeper(c, 1))
      j == emit_jump(expression(s.a, b), POP_JUMP_IF_FALSE)
      body == emit_jump_back(statement(s.s, EnterLoop(j, Size(b))), Size(b))
  IN end_scope(LeaveLoop(Deeper(patch_jump(body, Operand(j)), -1), c))

(* The update is compiled before the body: the condition jumps over it,    *)
(* the body jumps back to it, and it jumps back to the condition.          *)
ForInitializer(s, c) ==
  CASE s.init = None -> c
    [] s.init.k = "var" -> var_declaration(s.init, c)
    [] s.init.k = "const" -> const_declaration(s.init, c)
    [] OTHER -> statement(s.init, c)

ForBody(s, outer, exit, begin, c) ==
  LET body == emit_jump_back(statement(s.s, EnterLoop(c, begin)), begin)
      done == IF s.a = None THEN body ELSE patch_jump(body, exit)
  IN Deeper(end_scope(LeaveLoop(done, outer)), -1)

ForUpdate(s, outer, start, c) ==
  LET b == emit_jump(c, JUMP_FORWARD)
      u == emit_jump_back(emit_opcode(expression(s.b, b), POP_TOP), start)
  IN IF s.b = None THEN ForBody(s, outer, Operand(c), start, c)
     ELSE ForBody(s, outer, Operand(c), Size(b), patch_jump(u, Operand(b)))

ForCondition(s, outer, c) ==
  ForUpdate(s, outer, Size(c),
            IF s.a = None THEN c ELSE emit_jump(expression(s.a, c), POP_JUMP_IF_FALSE))

for_statement(s, c) == ForCondition(s, c, ForInitializer(s, begin_scope(Deeper(c, 1))))

(* One arm after the other; exits are the jumps to the end of the switch.  *)
(* In an arm the value of the switch is a local without a name.            *)
switch_arms(arms, default_compiled, exits, c) ==
  IF arms = <<>> THEN [c |-> c, default_compiled |-> default_compiled, exits |-> exits]
  ELSE LET arm == Head(arms)
           is_case == arm.e # None
           d == IF is_case THEN emit_opcode(c, DUP_TOP) ELSE c
           l == add_local(begin_scope(d), "<switch_variable>", FALSE)
           m == IF default_compiled \/ arm.ss = <<>> THEN report_error(l, "syntax") ELSE l
           j == IF is_case
                  THEN emit_jump(emit_opcode(expression(arm.e, m), EQUAL), POP_JUMP_IF_FALSE)
                  ELSE m
           x == emit_jump(end_scope(declarations(arm.ss, j)), JUMP_FORWARD)
       IN switch_arms(Tail(arms), default_compiled \/ ~is_case, Append(exits, Operand(x)),
                      IF is_case THEN patch_jump(x, Operand(j)) ELSE x)

(* No arm was taken: a default arm leaves no way to get here.              *)
SwitchPop(r) == IF r.default_compiled THEN r.c ELSE emit_opcode(r.c, POP_TOP)

switch_statement(s, c) ==
  LET r == switch_arms(s.arms, FALSE, <<>>, expression(s.a, c))
  IN FoldSeq(LAMBDA exit, d : patch_jump(d, exit), SwitchPop(r), r.exits)

break_statement(c) == report_error(c, "syntax")

(* Mutant: the variables of the body stay on the stack.                    *)
ContinuePopsNone(f) == 0
ContinuePops(f) == Len(f.locals) - SelectLastInSeq(f.locals, LAMBDA l : l.depth <= f.loop_scope_depth)

continue_statement(c) ==
  LET f == Cur(c)
      d == IF f.loop_depth = 0 THEN report_error(c, "syntax") ELSE c
  IN emit_jump_back(emit(d, [i \in 1..ContinuePops(f) |-> POP_TOP]), f.loop_start_offset)

return_statement(s, c) ==
  LET d == IF Cur(c).function_type = "SCRIPT" THEN report_error(c, "syntax") ELSE c
  IN IF s.a = None THEN emit_return(d) ELSE emit_opcode(expression(s.a, d), RETURN)

statement(s, c) ==
  CASE s.k = "empty" -> c
    [] s.k = "expr" -> emit_opcode(expression(s.a, c), POP_TOP)
    [] s.k = "print" -> emit_opcode(expression(s.a, c), PRINT)
    [] s.k = "if" -> if_statement(s, c)
    [] s.k = "while" -> while_statement(s, c)
    [] s.k = "for" -> for_statement(s, c)
    [] s.k = "switch" -> switch_statement(s, c)
    [] s.k = "block" -> end_scope(declarations(s.ss, begin_scope(c)))
    [] s.k = "continue" -> continue_statement(c)
    [] s.k = "break" -> break_statement(c)
    [] s.k = "return" -> return_statement(s, c)

(* Here the model also notes how many locals there are where a statement   *)
(* begins.                                                                 *)
declaration(s, c) ==
  LET d == [c EXCEPT !.fs[Top(c)].statements = @ \cup {<<Size(c), NumLocals(c)>>}]
  IN CASE s.k = "var" -> var_declaration(s, d)
       [] s.k = "const" -> const_declaration(s, d)
       [] s.k = "fun" -> fun_declaration(s, d)
       [] s.k = "bad" -> report_error(d, "syntax")
       [] OTHER -> statement(s, d)

(* There is always a compiler; looking for it makes TLC finish one         *)
(* declaration before it begins the next.                                  *)
declarations(ss, c) ==
  IF ss = <<>> \/ Top(c) = 0 THEN c ELSE declarations(Tail(ss), declaration(Head(ss), c))

(* A line, after what Context and the heap have from the lines before it.  *)
(* The script is the last of the functions.                                *)
Unit(c) ==
  [functions |-> Append(c.functions, Cur(c)), script |-> Len(c.functions) + 1,
   globals |-> c.globals, consts |-> c.consts, errors |-> c.errors]

compile(p, u) ==
  Unit(emit_return(declarations(p, [fs |-> <<NewCompiler("SCRIPT", "")>>, functions |-> u.functions,
                                    globals |-> u.globals, consts |-> u.consts, errors |-> {}])))

(* The empty Context.                                                      *)
NoUnit == [functions |-> <<>>, script |-> 0, globals |-> <<>>, consts |-> {}, errors |-> {}]
=============================================================================
