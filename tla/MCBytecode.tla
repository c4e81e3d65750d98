------------------------------ MODULE MCBytecode ------------------------------
(***************************************************************************)
(* The programs of the run: the nestings, two deep, of the constructs that *)
(* jump or open scopes, around bodies of one or two simple statements;     *)
(* some expressions; some functions; some illegal programs; programs at    *)
(* and beyond the limits on jumps, locals and the stack; and texts with a  *)
(* token too few, too many, or wrong, also as the first line of a session. *)
(***************************************************************************)
EXTENDS Bytecode

X == Ref("x")
Five == Lit(Num(5))
One == Lit(Num(1))

Simple ==
  {Show1(X), Var("y", X), Expr(Assign("x", Neg(One))), Continue, Return(X)}
Bodies == {<<s>> : s \in Simple} \cup {<<s, t>> : s, t \in Simple}

(* A construct around a body *)
Around(ss) ==
  {Block(ss),
   If(Input, Block(ss), None),
   If(Input, Block(ss), Show1(Five)),
   While(Input, Block(ss)),
   For(Var("x", Five), Input, Assign("x", Minus(X, One)), Block(ss)),
   For(None, Input, None, Block(ss)),
   Switch(Input, <<Case(Lit(Bool(TRUE)), ss), Case(Input, <<Show1(One)>>)>>),
   Switch(Input, <<Case(Input, <<Show1(One)>>), Case(None, ss)>>)}

Inner == UNION {Around(ss) : ss \in Bodies}
Outer == UNION {Around(<<s, Show1(X)>>) : s \in Inner}

(* A loop that goes on, perhaps with continue, after what it has in it.    *)
LoopsAround(ss) == {s \in Around(ss) : s.k \in {"while", "for"}}
Resumed ==
  UNION {LoopsAround(<<s, t, Show1(One)>>) :
           s \in UNION {Around(<<Var("y", X), u>>) : u \in {Show1(X), Continue}},
           t \in {Continue, If(Input, Continue, None)}}

(* A function with parameter x, called once.                               *)
Called(ss) == <<FunDecl("f", <<"x">>, ss), Show1(Call(Ref("f"), <<Five>>))>>

(* Expressions.  No group that ends in 1 is negated, and no conditional    *)
(* expression occurs: the code is wrong for these (see the README).        *)
Atoms == {X, Input, Five, One, Lit(Nil), Neg(One)}
Unary == {Not(e) : e \in Atoms} \cup {Neg(e) : e \in Atoms \ {Neg(One)}} \cup {Neg(Neg(X))}
Binary(A, B) == {And(a, b) : a \in A, b \in B} \cup {Or(a, b) : a \in A, b \in B}
                \cup {Minus(a, b) : a \in A, b \in B}
Flat == Binary(Atoms, Atoms)
Operators == {"PLUS", "MINUS", "STAR", "EQUAL_EQUAL", "BANG_EQUAL", "LESS", "LESS_EQUAL", "GREATER", "GREATER_EQUAL"}
Two == Lit(Num(2))
Mixed == {Bin(o, Bin(q, Two, One), X) : o, q \in Operators} \cup {Bin(o, Two, Bin(q, X, Two)) : o, q \in Operators}
         \cup {Bin(o, ListOf(<<One>>), ListOf(<<X, Five>>)) : o \in Operators}
         \cup {Bin(o, And(X, Two), Not(Two)) : o \in Operators} \cup {Not(Bin(o, Neg(Two), Neg(X))) : o \in Operators}
Expressions ==
  Mixed \cup Atoms \cup Unary \cup Flat \cup Binary(Flat, {X, Input, One}) \cup Binary({X, Input, One}, Flat)
    \cup {Assign("x", e) : e \in Flat} \cup {Not(e) : e \in Flat}

(* Lists and maps *)
L == Ref("l")
Literals3 == {ListOf(<<>>), ListOf(<<X>>), ListOf(<<X, Input>>), ListOf(<<X, Input, One>>),
              ListOf(<<One, ListOf(<<Five>>), X, Neg(One)>>),
              MapOf(<<>>), MapOf(<<One, X>>), MapOf(<<One, X, Five, Input>>),
              MapOf(<<One, X, Five, Input, Lit(Nil), Neg(One)>>), MapOf(<<ListOf(<<>>), X>>),
              MapOf(<<One, X, MapOf(<<>>), X>>), Five}
Indices == {Lit(Num(0)), One, Five, Lit(Nil), Lit(Bool(TRUE)), ListOf(<<>>)}
Collections ==
  {<<Var("l", e), Show1(SetIndex(L, i, Input)), Show1(Index(L, i)), Show1(Index(L, One))>> :
     e \in Literals3, i \in Indices}
  \cup {<<Var("l", e), Show1(Index(L, i)), Show1(Minus(Index(L, Lit(Num(0))), Index(L, i)))>> :
     e \in Literals3, i \in Indices}

(* Closures: a variable of a block, of a loop, of a switch, or a parameter *)
(* is read and written by a function, by a function in a function, and     *)
(* directly, before and after its scope has ended.                         *)
G == Ref("g")
H == Ref("h")
Get(x) == FunDecl("g", <<>>, <<Return(Ref(x))>>)
Inc(x) == FunDecl("h", <<>>, <<Expr(Assign(x, Minus(Ref(x), One))), Return(Ref(x))>>)
Deep(x) == FunDecl("g", <<"z">>, <<FunDecl("k", <<>>, <<Return(Minus(Assign(x, Ref("z")), Ref(x)))>>),
                                   Return(Ref("k"))>>)
Uses == {<<Get("x"), Inc("x"), Show1(Call(H, <<>>)), Show1(Call(G, <<>>)), Show1(X)>>,
         <<Inc("x"), Expr(Assign("keep", H))>>,
         <<Get("x"), Expr(Assign("x", One)), Expr(Assign("keep", G))>>,
         <<Deep("x"), Expr(Assign("keep", Call(G, <<One>>))), Show1(X)>>,
         <<Var("y", X), Get("y"), Inc("x"), Expr(Call(H, <<>>)), Expr(Assign("keep", G))>>,
         <<Get("x"), If(Input, Return(Call(G, <<>>)), None), Expr(Assign("keep", G))>>}
Keep == Ref("keep")
Captures ==
  {<<Var("keep", Lit(Nil)), FunDecl("f", <<"x">>, <<s, Show1(Call(Keep, <<>>)), Expr(Assign("x", Five))>>),
     Expr(Call(Ref("f"), <<Five>>)), Show1(Call(Keep, <<>>)), Show1(Call(Keep, <<>>))>> :
     s \in UNION {Around(ss) \cup Around(<<Var("x", One)>> \o ss) : ss \in Uses}}
  \cup {<<Var("keep", Lit(Nil)), s, Show1(Call(Keep, <<>>))>> :
     s \in UNION {Around(<<Var("x", One)>> \o ss) : ss \in Uses}}

(* Jumps forward and back by UINT16_MAX (80) and by one more; variables    *)
(* that just fit on the stack, that do not, and that are too many; a call  *)
(* and an operand where the stack is full.                                 *)
Times(n, e) == [i \in 1..n |-> Show1(e)]
Long(n, m, k) ==   (* 12 * n + 3 * m + 2 * k bytes *)
  Times(n, Minus(Minus(Five, Five), Minus(Five, Five))) \o Times(m, Five) \o Times(k, One)
Vars(n) == [i \in 1..n |-> Var(<<"a", "b", "c", "d", "e", "f", "g", "h", "i", "j", "k", "l", "m", "n">>[i], One)]
Limits ==
  {<<If(Input, Block(Long(6, 0, 4)), None), Show1(One)>>, <<If(Input, Block(Long(6, 1, 3)), None), Show1(One)>>,
   <<While(Input, Block(Long(5, 3, 0)))>>, <<While(Input, Block(Long(5, 0, 5)))>>}
  \cup {<<Show1(One), Block(Vars(n) \o <<Show1(Five)>>)>> : n \in 9..14}
  \cup {<<FunDecl("p", <<"x", "y">>, <<Show1(X), Return(Minus(X, Ref("y")))>>),
           Block(Vars(n) \o <<Show1(Call(Ref("p"), <<Five, One>>))>>)>> : n \in 6..9}

(* Recursion up to the limit, wrong calls, undefined and uninitialized     *)
(* variables, and what the compiler must reject.                           *)
Rec == FunDecl("r", <<"n">>, <<If(Input, Return(Call(Ref("r"), <<Minus(Ref("n"), One)>>)), None),
                               Return(Ref("n"))>>)
Odd ==
  {<<Rec, Show1(Call(Ref("r"), <<Five>>))>>, <<Block(<<Rec, Show1(Call(Ref("r"), <<Five>>))>>)>>,
   <<Rec, Show1(Call(Ref("r"), <<>>))>>, <<Show1(Call(Five, <<>>))>>, <<Show1(Call(Ref("input"), <<One>>))>>,
   <<Show1(X)>>, <<Expr(Assign("x", One))>>, <<Var("x", None), Show1(One), Show1(X)>>,
   <<Block(<<Var("x", None), Show1(One), Show1(X)>>)>>,
   <<Block(<<Var("x", None), If(Input, Expr(Assign("x", One)), None), Show1(X)>>)>>,
   <<Var("x", One), Var("x", X), Expr(Assign("x", Minus(X, Five))), Show1(X)>>,
   <<Block(<<Var("x", One), Block(<<Var("x", X)>>)>>)>>,
   <<Block(<<Var("x", X)>>)>>, <<Block(<<Var("x", One), Var("x", One)>>)>>,
   <<Block(<<Var("x", One), Var("y", One), Var("x", One)>>)>>,
   <<FunDecl("f", <<"x", "y">>, <<Var("x", One)>>)>>,
   <<Block(<<Const("x", One), Expr(Assign("x", One))>>)>>, <<Block(<<Const("x", None)>>)>>,
   <<Block(<<Const("x", One), FunDecl("g", <<>>, <<Expr(Assign("x", One))>>)>>)>>,
   <<Block(<<Const("x", One), Block(<<Var("x", Five), Expr(Assign("x", One)), Show1(X)>>), Show1(X)>>)>>,
   <<For(Const("x", One), Input, None, Show1(X))>>, <<For(Const("x", One), Input, Assign("x", One), Show1(X))>>,
   <<For(Expr(Input), None, None, Show1(Input))>>, <<For(None, None, Input, If(Input, Continue, Show1(One)))>>,
   <<FunDecl("f", <<"x", "x">>, <<>>)>>, <<FunDecl("f", <<"x">>, <<Var("x", One)>>)>>,
   <<FunDecl("f", <<"x", "y">>, <<Return(Minus(X, Ref("y")))>>), Show1(Call(Ref("f"), <<Five, One>>)), Empty>>,
   <<FunDecl("f", <<>>, <<Return(None)>>), Show1(Call(Ref("f"), <<>>)), Show1(Ref("f"))>>,
   <<While(Input, Block(<<FunDecl("f", <<>>, <<Continue>>)>>))>>, <<Continue>>, <<While(Input, Break)>>, <<Return(None)>>,
   <<Switch(Input, <<>>), Show1(One)>>, <<Switch(Input, <<Case(Input, <<>>)>>)>>,
   <<Switch(Input, <<Case(None, <<Show1(One)>>), Case(Input, <<Show1(One)>>)>>)>>,
   <<Switch(Input, <<Case(None, <<Show1(One)>>), Case(None, <<Show1(One)>>)>>)>>,
   <<Const("x", One), Show1(X), Expr(Assign("x", Five))>>, <<Const("x", One), Const("x", One)>>,
   <<Const("x", One), FunDecl("x", <<>>, <<>>)>>, <<Expr(Input), Const("input", One)>>,
   <<Var("x", One), Show1(X), Const("x", Five)>>, <<Var("x", One), Expr(Assign("x", Five)), Const("x", Five)>>,
   <<FunDecl("f", <<>>, <<Expr(Assign("x", Five))>>), Const("x", One), Show1(X), Expr(Call(Ref("f"), <<>>))>>,
   <<Show1(Index(ListOf([i \in 1..11 |-> Lit(Num(i + 1))]), Lit(Num(10)))), Show1(Lit(Num(11)))>>}

(* Sessions of three lines: declarations, assignments and uses of a global *)
(* and of a function that refers to it, in any order, some of which fail.  *)
SessionLines ==
  {<<Var("x", One)>>, <<Const("x", Five), Show1(X)>>, <<Show1(Five), Const("x", Ref("z")), Show1(One)>>,
   <<Const("x", One), Return(None)>>, <<Expr(Assign("x", Neg(One))), Show1(X)>>,
   <<FunDecl("f", <<>>, <<Return(Minus(X, Five))>>), Show1(Call(Ref("f"), <<>>))>>,
   <<Var("y", Five), FunDecl("f", <<>>, <<Expr(Assign("x", Ref("y"))), Return(X)>>)>>,
   <<Block(<<Var("y", One), Show1(Call(Ref("f"), <<>>)), Show1(Ref("y"))>>), Show1(X)>>}

(* Texts: those of some programs, and what one edit makes of them.  Every  *)
(* loop asks for input twice, so that one edit does not make it endless.   *)
Samples ==
  {<<Show1(And(Bin("LESS", Bin("PLUS", Two, Bin("STAR", X, Two)), Five), Not(Assign("x", Group(Or(X, Lit(Nil)))))))>>,
   <<Var("l", ListOf(<<Two, X>>)), Expr(SetIndex(L, Lit(Num(0)), MapOf(<<Two, Five, X, Neg(Two)>>))),
     Show1(Index(Index(L, Lit(Num(0))), Two))>>,
   <<If(Input, Block(<<Const("y", Five), Show1(Ref("y"))>>), Return(None)), Empty>>,
   <<For(Var("y", Five), Input, Assign("y", Minus(Ref("y"), Two)), Block(<<If(Input, Continue, None), Show1(Ref("y"))>>))>>,
   <<While(Input, Show1(Input)), Switch(Lit(Bool(TRUE)), <<Case(Input, <<Show1(Two)>>), Case(None, <<Show1(X), Empty>>)>>)>>,
   <<FunDecl("g", <<"y", "z">>, <<Return(Minus(Ref("y"), Ref("z")))>>), Show1(Call(G, <<X, Two>>))>>}
Wrong == {Writer!Token(t) : t \in {"RIGHT_PAREN", "EQUAL", "ERROR", "COMMA", "COLON", "SEMICOLON", "MINUS", "RIGHT_BRACE", "VAR"}}
Edits(ts) ==
  {RemoveAt(ts, i) : i \in DOMAIN ts}
    \cup {InsertAt(ts, i, tok) : i \in DOMAIN ts, tok \in Wrong}
    \cup {ReplaceAt(ts, i, tok) : i \in DOMAIN ts, tok \in Wrong}

(* Sessions whose first line is not always legal: what is left of it is    *)
(* that some globals may be constant.                                      *)
FirstLines == {<<Const("x", Five), Show1(X)>>, <<Var("y", Five), Const("x", Ref("y"))>>}
LaterLines == {<<Var("x", One)>>, <<Const("x", One), Show1(X)>>, <<Expr(Assign("x", Neg(One))), Show1(X)>>}
MCTexts ==
  {<<e>> : e \in UNION {Edits(Writer!Statements(Called(ss))) : ss \in Samples}}
    \cup {<<e, Writer!Statements(p), Writer!Statements(q)>> :
             e \in UNION {Edits(Writer!Statements(f)) : f \in FirstLines}, p, q \in LaterLines}

MCCompiled == {<<p>> : p \in Captures \cup Odd \cup Limits \cup {Called(ss) : ss \in Collections}}

MCPrograms ==
  {<<Called(<<s, Show1(X)>>)>> : s \in Inner \cup Outer \cup Resumed}
    \cup {<<Called(<<Show1(e), Show1(X)>>)>> : e \in Expressions}
    \cup {<<Called(ss)>> : ss \in Collections}
    \cup {<<p>> : p \in Captures \cup Odd \cup Limits}
    \cup [1..3 -> SessionLines]
=============================================================================
