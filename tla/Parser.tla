-------------------------------- MODULE Parser --------------------------------
(***************************************************************************)
(* The parser (parser.cpp) and the routines of the compiler that drive it  *)
(* (compiler.cpp), one operator for each, under the routine's name; here   *)
(* they yield the tree of what they read, and module Compiler is about the *)
(* code that they emit for it.                                             *)
(*                                                                         *)
(* A parser p has the tokens from the current one on, the previous token,  *)
(* whether there has been an error, and whether it has not recovered from  *)
(* one.  A routine returns p and e, the tree.  After an error it goes on   *)
(* as the code does, which by then has compiled what it could read: Bad    *)
(* stands for an operand that is none.                                     *)
(***************************************************************************)
EXTENDS Source, SequencesExt

Parsed(p, e) == [p |-> p, e |-> e]

report_error(p) == [p EXCEPT !.had_error = TRUE, !.panic_mode = TRUE]

(* Past the end the current token is END_OF_FILE.                          *)
END_OF_FILE == [t |-> "END_OF_FILE", name |-> "", n |-> 0]
current(p) == IF p.tokens = <<>> THEN END_OF_FILE ELSE Head(p.tokens)
check(p, t) == current(p).t = t
Type(p) == p.previous.t

(* The name that a declaration takes: the token before, even if it is none.*)
Lexeme(p) == IF Type(p) = "IDENTIFIER" THEN p.previous.name ELSE Type(p)

(* Tokens that the lexer could not make are reported and passed over.      *)
RECURSIVE PastErrors(_)
PastErrors(p) ==
  IF check(p, "ERROR") THEN PastErrors(report_error([p EXCEPT !.tokens = Tail(@)])) ELSE p
advance(p) ==
  PastErrors([p EXCEPT !.previous = current(p), !.tokens = IF @ = <<>> THEN @ ELSE Tail(@)])

(* Mutant: a missing token goes unnoticed.                                 *)
consume_if_there(p, t) == IF check(p, t) THEN advance(p) ELSE p

consume(p, t) == IF check(p, t) THEN advance(p) ELSE report_error(p)
Then(r, t) == Parsed(consume(r.p, t), r.e)

Boundaries == {"CLASS", "FUN", "VAR", "FOR", "IF", "WHILE", "PRINT", "RETURN"}

RECURSIVE Skip(_)
Skip(p) ==
  IF p.tokens = <<>> \/ Type(p) = "SEMICOLON" \/ current(p).t \in Boundaries THEN p
  ELSE Skip(advance(p))
synchronize(p) == Skip([p EXCEPT !.panic_mode = FALSE])

-----------------------------------------------------------------------------
(* Expressions: precedence climbing *)

ASSIGNMENT == 1
CONDITIONAL == 2
OR == 3
AND == 4
EQUALITY == 5
COMPARISON == 6
TERM == 7
FACTOR == 8
UNARY == 9
CALL == 10

(* The precedence of a token as an infix operator; 0 is NONE.              *)
precedence(t) ==
  CASE t \in {"LEFT_PAREN", "LEFT_BRACKET"} -> CALL
    [] t \in {"MINUS", "PLUS"} -> TERM
    [] t = "STAR" -> FACTOR
    [] t \in {"BANG_EQUAL", "EQUAL_EQUAL"} -> EQUALITY
    [] t \in {"GREATER", "GREATER_EQUAL", "LESS", "LESS_EQUAL"} -> COMPARISON
    [] t = "AND" -> AND
    [] t = "OR" -> OR
    [] t = "QUESTION_MARK" -> CONDITIONAL
    [] OTHER -> 0

HavePrefixRule ==
  {"LEFT_PAREN", "LEFT_BRACE", "LEFT_BRACKET", "MINUS", "BANG", "NOT", "IDENTIFIER", "NUMBER_INT",
   "NIL", "TRUE", "FALSE"}

RECURSIVE parse_precedence(_, _), Infixes(_, _), Arguments(_, _), Pairs(_)

expression(p) == parse_precedence(ASSIGNMENT, p)

literal(p) ==
  Parsed(p, Lit(CASE Type(p) = "NUMBER_INT" -> Num(p.previous.n)
                  [] Type(p) = "NIL" -> Nil
                  [] Type(p) = "TRUE" -> Bool(TRUE)
                  [] Type(p) = "FALSE" -> Bool(FALSE)))

GroupOf(r) == Parsed(r.p, Group(r.e))
grouping(p) == GroupOf(Then(expression(p), "RIGHT_PAREN"))

UnaryOf(op, r) == Parsed(r.p, IF op = "MINUS" THEN Neg(r.e) ELSE Not(r.e))
unary(p) == UnaryOf(Type(p), parse_precedence(UNARY, p))

(* What follows "=" is assigned, where an assignment may stand.            *)
AssignOf(x, r) == Parsed(r.p, Assign(x, r.e))
variable(can_assign, p) ==
  IF can_assign /\ check(p, "EQUAL") THEN AssignOf(p.previous.name, expression(advance(p)))
  ELSE Parsed(p, Ref(p.previous.name))

(* r and then a further result, whose tree comes after those of r.         *)
More(r, q) == Parsed(q.p, Append(r.e, q.e))

(* Expressions with commas between them, up to end; a list may have a      *)
(* comma after the last of them.                                           *)
NextArgument(end, r) ==
  IF check(r.p, "COMMA") THEN Arguments(end, Parsed(advance(r.p), r.e)) ELSE Then(r, end)
Arguments(end, r) ==
  IF end = "RIGHT_BRACKET" /\ check(r.p, end) THEN Then(r, end)
  ELSE NextArgument(end, More(r, expression(r.p)))
argument_list(end, p) ==
  IF check(p, end) THEN Parsed(advance(p), <<>>) ELSE Arguments(end, Parsed(p, <<>>))

ListFrom(r) == Parsed(r.p, ListOf(r.e))
list(p) == ListFrom(argument_list("RIGHT_BRACKET", p))

Value(r) == More(r, expression(r.p))
NextPair(r) == IF check(r.p, "COMMA") THEN Pairs(Parsed(advance(r.p), r.e)) ELSE Then(r, "RIGHT_BRACE")
Pairs(r) ==
  IF check(r.p, "RIGHT_BRACE") THEN Then(r, "RIGHT_BRACE")
  ELSE NextPair(Value(Then(More(r, expression(r.p)), "COLON")))
MapFrom(r) == Parsed(r.p, MapOf(r.e))
map(p) == MapFrom(Pairs(Parsed(p, <<>>)))

CallOf(left, r) == Parsed(r.p, Call(left, r.e))
call(left, p) == CallOf(left, argument_list("RIGHT_PAREN", p))

SetIndexOf(left, i, v) == Parsed(v.p, SetIndex(left, i.e, v.e))
Indexed(can_assign, left, i) ==
  IF can_assign /\ check(i.p, "EQUAL") THEN SetIndexOf(left, i, expression(advance(i.p)))
  ELSE Parsed(i.p, Index(left, i.e))
index(can_assign, left, p) == Indexed(can_assign, left, Then(expression(p), "RIGHT_BRACKET"))

BinOf(op, left, r) == Parsed(r.p, Bin(op, left, r.e))

(* Mutant: operators group from the right.                                 *)
binary_right(left, p) == BinOf(Type(p), left, parse_precedence(precedence(Type(p)), p))
binary(left, p) == BinOf(Type(p), left, parse_precedence(precedence(Type(p)) + 1, p))

AndOrOf(op, left, r) == Parsed(r.p, IF op = "AND" THEN And(left, r.e) ELSE Or(left, r.e))
and_or(left, p) == AndOrOf(Type(p), left, parse_precedence(precedence(Type(p)), p))

CondOf(left, r) == Parsed(r.p, Cond(left, r.e[1], r.e[2]))
CondElse(left, t) == CondOf(left, More(Parsed(t.p, <<t.e>>), parse_precedence(ASSIGNMENT, t.p)))
ternary(left, p) == CondElse(left, Then(parse_precedence(CONDITIONAL, p), "COLON"))

prefix_rule(can_assign, p) ==
  CASE Type(p) = "LEFT_PAREN" -> grouping(p)
    [] Type(p) = "LEFT_BRACE" -> map(p)
    [] Type(p) = "LEFT_BRACKET" -> list(p)
    [] Type(p) \in {"MINUS", "BANG", "NOT"} -> unary(p)
    [] Type(p) = "IDENTIFIER" -> variable(can_assign, p)
    [] OTHER -> literal(p)

infix_rule(can_assign, left, p) ==
  CASE Type(p) = "LEFT_PAREN" -> call(left, p)
    [] Type(p) = "LEFT_BRACKET" -> index(can_assign, left, p)
    [] Type(p) \in {"AND", "OR"} -> and_or(left, p)
    [] Type(p) = "QUESTION_MARK" -> ternary(left, p)
    [] OTHER -> binary(left, p)

Infixes(prec, r) ==
  IF precedence(current(r.p).t) < prec THEN r
  ELSE Infixes(prec, infix_rule(prec <= ASSIGNMENT, r.e, advance(r.p)))

(* An "=" that no rule has taken follows something that is no variable.    *)
AssignmentTarget(prec, r) ==
  IF prec <= ASSIGNMENT /\ check(r.p, "EQUAL") THEN Parsed(report_error(advance(r.p)), r.e) ELSE r

Operand(prec, p) ==
  IF Type(p) \notin HavePrefixRule THEN Parsed(report_error(p), Bad)
  ELSE AssignmentTarget(prec, Infixes(prec, prefix_rule(prec <= ASSIGNMENT, p)))

parse_precedence(prec, p) == Operand(prec, advance(p))

-----------------------------------------------------------------------------
(* Statements and declarations *)

RECURSIVE statement(_), declaration(_), Declarations(_, _), Parameters(_), SwitchArms(_)

(* An expression, or nothing, and then the token that ends it.             *)
Optional(end, p) ==
  IF check(p, end) THEN Parsed(advance(p), None) ELSE Then(expression(p), end)

ExprOf(r) == Parsed(r.p, IF r.e = None THEN Empty ELSE Expr(r.e))
expression_statement(p) == ExprOf(Optional("SEMICOLON", p))

PrintOf(r) == Parsed(r.p, Show1(r.e))
print_statement(p) == PrintOf(Then(expression(p), "SEMICOLON"))

ReturnOf(r) == Parsed(r.p, Return(r.e))
return_statement(p) == ReturnOf(Optional("SEMICOLON", p))

Declarations(ends, r) ==
  IF current(r.p).t \in ends \cup {"END_OF_FILE"} THEN r
  ELSE Declarations(ends, More(r, declaration(r.p)))

block(p) == Then(Declarations({"RIGHT_BRACE"}, Parsed(p, <<>>)), "RIGHT_BRACE")
Blocked(r) == Parsed(r.p, Block(r.e))

condition(p) == Then(expression(consume(p, "LEFT_PAREN")), "RIGHT_PAREN")

Else(r) == IF check(r.p, "ELSE") THEN More(r, statement(advance(r.p))) ELSE More(r, Parsed(r.p, None))
IfOf(r) == Parsed(r.p, If(r.e[1], r.e[2], r.e[3]))
IfThen(c) == IfOf(Else(More(Parsed(c.p, <<c.e>>), statement(c.p))))
if_statement(p) == IfThen(condition(p))

WhileOf(c, s) == Parsed(s.p, While(c.e, s.e))
WhileBody(c) == WhileOf(c, statement(c.p))
while_statement(p) == WhileBody(condition(p))

(* After v, whose previous token is the name that is declared.             *)
Initialized(v) ==
  IF check(v, "EQUAL") THEN Then(expression(advance(v)), "SEMICOLON")
  ELSE Parsed(consume(v, "SEMICOLON"), None)

VarOf(v, r) == Parsed(r.p, Var(Lexeme(v), r.e))
Variable(v) == VarOf(v, Initialized(v))
var_declaration(p) == Variable(consume(p, "IDENTIFIER"))

ConstOf(v, r) == Parsed(r.p, Const(Lexeme(v), r.e))
Constant(v) ==
  ConstOf(v, IF check(v, "EQUAL") THEN Initialized(v) ELSE Parsed(report_error(v), None))
const_declaration(p) == Constant(consume(p, "IDENTIFIER"))

ForInitializer(p) ==
  CASE check(p, "SEMICOLON") -> Parsed(advance(p), None)
    [] check(p, "VAR") -> var_declaration(advance(p))
    [] check(p, "CONST") -> const_declaration(advance(p))
    [] OTHER -> expression_statement(p)

ForOf(r) == Parsed(r.p, For(r.e[1], r.e[2], r.e[3], r.e[4]))
ForBody(r) == ForOf(More(r, statement(r.p)))
ForUpdate(r) == ForBody(More(r, Optional("RIGHT_PAREN", r.p)))
ForCondition(r) == ForUpdate(More(r, Optional("SEMICOLON", r.p)))
for_statement(p) ==
  ForCondition(More(Parsed(p, <<>>), ForInitializer(consume(p, "LEFT_PAREN"))))

(* Something else than an arm ends the switch there.                       *)
ArmOf(e, ss) == Parsed(ss.p, Case(e.e, ss.e))
ArmBody(e) ==
  ArmOf(e, Declarations({"RIGHT_BRACE", "CASE", "DEFAULT"}, Parsed(consume(e.p, "COLON"), <<>>)))
SwitchArms(r) ==
  CASE check(r.p, "CASE") -> SwitchArms(More(r, ArmBody(expression(advance(r.p)))))
    [] check(r.p, "DEFAULT") -> SwitchArms(More(r, ArmBody(Parsed(advance(r.p), None))))
    [] check(r.p, "RIGHT_BRACE") \/ check(r.p, "END_OF_FILE") -> Then(r, "RIGHT_BRACE")
    [] OTHER -> Parsed(report_error(r.p), r.e)

SwitchOf(a, r) == Parsed(r.p, Switch(a.e, r.e))
SwitchBody(a) == SwitchOf(a, SwitchArms(Parsed(a.p, <<>>)))
switch_statement(p) == SwitchBody(Then(expression(p), "LEFT_BRACE"))

Parameter(r, v) == Parsed(v, Append(r.e, Lexeme(v)))
NextParameter(r) == IF check(r.p, "COMMA") THEN Parameters(Parsed(advance(r.p), r.e)) ELSE r
Parameters(r) == NextParameter(Parameter(r, consume(r.p, "IDENTIFIER")))
ParameterList(p) == IF check(p, "RIGHT_PAREN") THEN Parsed(p, <<>>) ELSE Parameters(Parsed(p, <<>>))

FunctionOf(name, xs, ss) == Parsed(ss.p, FunDecl(name, xs.e, ss.e))
FunctionBody(name, xs) ==
  FunctionOf(name, xs, block(consume(consume(xs.p, "RIGHT_PAREN"), "LEFT_BRACE")))
compile_function(name, p) == FunctionBody(name, ParameterList(consume(p, "LEFT_PAREN")))

Named(v) == compile_function(Lexeme(v), v)
fun_declaration(p) == Named(consume(p, "IDENTIFIER"))

statement(p) ==
  CASE check(p, "PRINT") -> print_statement(advance(p))
    [] check(p, "IF") -> if_statement(advance(p))
    [] check(p, "WHILE") -> while_statement(advance(p))
    [] check(p, "FOR") -> for_statement(advance(p))
    [] check(p, "SWITCH") -> switch_statement(advance(p))
    [] check(p, "LEFT_BRACE") -> Blocked(block(advance(p)))
    [] check(p, "CONTINUE") -> Parsed(consume(advance(p), "SEMICOLON"), Continue)
    [] check(p, "BREAK") -> Parsed(consume(advance(p), "SEMICOLON"), Break)
    [] check(p, "RETURN") -> return_statement(advance(p))
    [] OTHER -> expression_statement(p)

Recovered(r) == IF r.p.panic_mode THEN Parsed(synchronize(r.p), r.e) ELSE r
declaration(p) ==
  Recovered(CASE check(p, "VAR") -> var_declaration(advance(p))
              [] check(p, "CONST") -> const_declaration(advance(p))
              [] check(p, "FUN") -> fun_declaration(advance(p))
              [] OTHER -> statement(p))

-----------------------------------------------------------------------------
NewParser(tokens) ==
  LET p == [tokens |-> tokens, previous |-> END_OF_FILE, had_error |-> FALSE, panic_mode |-> FALSE]
  IN IF check(p, "ERROR") THEN report_error(p) ELSE p

(* compile(): the declarations of a line, up to its end; Bad comes first   *)
(* when there has been an error.                                           *)
Program(r) == IF r.p.had_error THEN <<Bad>> \o r.e ELSE r.e
parse(tokens) == Program(Declarations({}, Parsed(NewParser(tokens), <<>>)))
=============================================================================
