-------------------------------- MODULE Grammar -------------------------------
(***************************************************************************)
(* How a tree is written: a sequence of tokens, with parentheses where an  *)
(* operator would not get its operand without them.  A reference for the   *)
(* parser.                                                                 *)
(***************************************************************************)
EXTENDS Source, SequencesExt

Token(t) == [t |-> t, name |-> "", n |-> 0]
Word(t) == <<Token(t)>>
Ident(x) == <<[t |-> "IDENTIFIER", name |-> x, n |-> 0]>>
Number(n) == <<[t |-> "NUMBER_INT", name |-> "", n |-> n]>>

(* The operators, those that bind loosest first.                           *)
Levels ==
  <<{"assign", "setindex"}, {"cond"}, {"or"}, {"and"}, {"EQUAL_EQUAL", "BANG_EQUAL"},
    {"LESS", "LESS_EQUAL", "GREATER", "GREATER_EQUAL"}, {"PLUS", "MINUS"}, {"STAR"},
    {"neg", "not"}, {"call", "index"}, {"lit", "ref", "group", "list", "map"}>>
LevelOf(k) == CHOOSE i \in DOMAIN Levels : k \in Levels[i]
Level(e) == LevelOf(IF e.k = "bin" THEN e.op ELSE e.k)

Parens(ts) == Word("LEFT_PAREN") \o ts \o Word("RIGHT_PAREN")
Braces(ts) == Word("LEFT_BRACE") \o ts \o Word("RIGHT_BRACE")
Brackets(ts) == Word("LEFT_BRACKET") \o ts \o Word("RIGHT_BRACKET")
Literal(v) ==
  IF v.t = "num" THEN Number(v.v)
  ELSE Word(IF v = Nil THEN "NIL" ELSE IF v = Bool(TRUE) THEN "TRUE" ELSE "FALSE")

(* A list of texts, with commas between them.                              *)
Commas(tss) ==
  FlattenSeq([i \in DOMAIN tss |-> IF i = 1 THEN tss[i] ELSE Word("COMMA") \o tss[i]])

RECURSIVE Text(_), Statement(_)

(* Where an operator of that level wants its operand.                      *)
Under(level, e) == IF Level(e) < level THEN Parens(Text(e)) ELSE Text(e)

Text(e) ==
  CASE e.k = "lit" -> Literal(e.v)
    [] e.k = "ref" -> Ident(e.name)
    [] e.k = "group" -> Parens(Text(e.a))
    [] e.k = "assign" -> Ident(e.name) \o Word("EQUAL") \o Text(e.a)
    [] e.k = "neg" -> Word("MINUS") \o Under(Level(e), e.a)
    [] e.k = "not" -> Word("BANG") \o Under(Level(e), e.a)
    [] e.k = "and" -> Under(Level(e) + 1, e.a) \o Word("AND") \o Under(Level(e), e.b)
    [] e.k = "or" -> Under(Level(e) + 1, e.a) \o Word("OR") \o Under(Level(e), e.b)
    [] e.k = "bin" -> Under(Level(e), e.a) \o Word(e.op) \o Under(Level(e) + 1, e.b)
    [] e.k = "cond" ->
         Under(Level(e) + 1, e.a) \o Word("QUESTION_MARK") \o Under(Level(e), e.b) \o Word("COLON") \o Text(e.c)
    [] e.k = "call" -> Under(Level(e), e.a) \o Parens(Commas([i \in DOMAIN e.args |-> Text(e.args[i])]))
    [] e.k = "list" -> Brackets(Commas([i \in DOMAIN e.args |-> Text(e.args[i])]))
    [] e.k = "map" ->
         Braces(Commas([i \in 1..(Len(e.args) \div 2) |->
                          Text(e.args[2 * i - 1]) \o Word("COLON") \o Text(e.args[2 * i])]))
    [] e.k = "index" -> Under(Level(e), e.a) \o Brackets(Text(e.args[1]))
    [] e.k = "setindex" ->
         Under(LevelOf("index"), e.a) \o Brackets(Text(e.args[1])) \o Word("EQUAL") \o Text(e.args[2])

Ends(ts) == ts \o Word("SEMICOLON")
Optional(e) == IF e = None THEN <<>> ELSE Text(e)
Initializer(e) == IF e = None THEN <<>> ELSE Word("EQUAL") \o Text(e)

(* A statement that begins with a brace is a block.                        *)
NoBrace(ts) == IF Head(ts).t = "LEFT_BRACE" THEN Parens(ts) ELSE ts

Statements(ss) == FlattenSeq([i \in DOMAIN ss |-> Statement(ss[i])])
Arm(arm) ==
  (IF arm.e = None THEN Word("DEFAULT") ELSE Word("CASE") \o Text(arm.e))
    \o Word("COLON") \o Statements(arm.ss)

Statement(s) ==
  CASE s.k = "empty" -> Ends(<<>>)
    [] s.k = "expr" -> Ends(NoBrace(Text(s.a)))
    [] s.k = "print" -> Ends(Word("PRINT") \o Text(s.a))
    [] s.k = "var" -> Ends(Word("VAR") \o Ident(s.name) \o Initializer(s.a))
    [] s.k = "const" -> Ends(Word("CONST") \o Ident(s.name) \o Initializer(s.a))
    [] s.k = "fun" ->
         Word("FUN") \o Ident(s.name) \o Parens(Commas([i \in DOMAIN s.params |-> Ident(s.params[i])]))
           \o Braces(Statements(s.ss))
    [] s.k = "block" -> Braces(Statements(s.ss))
    [] s.k = "if" ->
         Word("IF") \o Parens(Text(s.a)) \o Statement(s.s)
           \o IF s.t = None THEN <<>> ELSE Word("ELSE") \o Statement(s.t)
    [] s.k = "while" -> Word("WHILE") \o Parens(Text(s.a)) \o Statement(s.s)
    [] s.k = "for" ->
         Word("FOR") \o Parens(Statement(IF s.init = None THEN Empty ELSE s.init)
                                 \o Ends(Optional(s.a)) \o Optional(s.b)) \o Statement(s.s)
    [] s.k = "switch" ->
         Word("SWITCH") \o Text(s.a) \o Braces(FlattenSeq([i \in DOMAIN s.arms |-> Arm(s.arms[i])]))
    [] s.k = "continue" -> Ends(Word("CONTINUE"))
    [] s.k = "break" -> Ends(Word("BREAK"))
    [] s.k = "return" -> Ends(Word("RETURN") \o Optional(s.a))
    [] s.k = "bad" -> Word("ERROR")

(* A comma may follow the last item of a list or of a map.                 *)
WithoutTrailing(ts) ==
  FoldLeft(LAMBDA before, tok :
             IF /\ tok.t \in {"RIGHT_BRACKET", "RIGHT_BRACE"}
                /\ before # <<>> /\ Last(before).t = "COMMA"
               THEN Append(Front(before), tok) ELSE Append(before, tok), <<>>, ts)
=============================================================================
