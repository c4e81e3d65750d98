-------------------------------- MODULE Source --------------------------------
(***************************************************************************)
(* The statements of the language, and what they mean when they are read   *)
(* as a tree: a reference for the compiler and the virtual machine, which  *)
(* never build one.                                                        *)
(*                                                                         *)
(* A variable is a cell of a store, an environment maps names to cells, a  *)
(* function is its declaration and the environment it was declared in.     *)
(* The one thing a program cannot know about itself is its input: the      *)
(* native function input() returns the next of a sequence of Booleans and  *)
(* fails when there is none left.                                          *)
(***************************************************************************)
EXTENDS Integers, Sequences, TLC

CONSTANT MAX_FRAME_SIZE   (* the most calls in progress                     *)

-----------------------------------------------------------------------------
(* Values *)

Num(n) == [t |-> "num", v |-> n]
Bool(b) == [t |-> "bool", v |-> IF b THEN 1 ELSE 0]
Nil == [t |-> "nil", v |-> 0]
Uninit == [t |-> "uninit", v |-> 0]   (* of a variable without an initializer *)
Native == [t |-> "native", v |-> 0]   (* input()                              *)
Fun(i) == [t |-> "fun", v |-> i]      (* the i-th closure that was made       *)
List(i) == [t |-> "list", v |-> i]    (* the i-th list or map that was made   *)
Map(i) == [t |-> "map", v |-> i]

NoItems == [x \in {} |-> 0]
Hashable(v) == v.t \notin {"list", "map"}

Falsey(v) == v \in {Nil, Uninit, Bool(FALSE)}

(* What print shows of a value; objects of a kind look alike here.         *)
Show(v) == IF v.t \in {"fun", "list", "map"} THEN [v EXCEPT !.v = 0]
           ELSE IF v = Uninit THEN Nil ELSE v

-----------------------------------------------------------------------------
(* Trees.  None stands for what may be left out.                           *)

None == [k |-> "none"]
Lit(v) == [k |-> "lit", v |-> v]
Ref(x) == [k |-> "ref", name |-> x]
Assign(x, e) == [k |-> "assign", name |-> x, a |-> e]
Neg(e) == [k |-> "neg", a |-> e]
Not(e) == [k |-> "not", a |-> e]
And(e, f) == [k |-> "and", a |-> e, b |-> f]
Or(e, f) == [k |-> "or", a |-> e, b |-> f]
Bin(op, e, f) == [k |-> "bin", op |-> op, a |-> e, b |-> f]
Minus(e, f) == Bin("MINUS", e, f)
Group(e) == [k |-> "group", a |-> e]
Cond(e, f, g) == [k |-> "cond", a |-> e, b |-> f, c |-> g]
Call(e, args) == [k |-> "call", a |-> e, args |-> args]
ListOf(es) == [k |-> "list", args |-> es]
MapOf(es) == [k |-> "map", args |-> es]   (* keys and values alternate        *)
Index(e, i) == [k |-> "index", a |-> e, args |-> <<i>>]
SetIndex(e, i, v) == [k |-> "setindex", a |-> e, args |-> <<i, v>>]
Input == Call(Ref("input"), <<>>)

Empty == [k |-> "empty"]
Expr(e) == [k |-> "expr", a |-> e]
Show1(e) == [k |-> "print", a |-> e]
Var(x, e) == [k |-> "var", name |-> x, a |-> e]
Const(x, e) == [k |-> "const", name |-> x, a |-> e]
Block(ss) == [k |-> "block", ss |-> ss]
If(e, s, t) == [k |-> "if", a |-> e, s |-> s, t |-> t]
While(e, s) == [k |-> "while", a |-> e, s |-> s]
For(init, e, f, s) == [k |-> "for", init |-> init, a |-> e, b |-> f, s |-> s]
Switch(e, arms) == [k |-> "switch", a |-> e, arms |-> arms]
Case(e, ss) == [e |-> e, ss |-> ss]      (* default: has no e                 *)
Continue == [k |-> "continue"]
Break == [k |-> "break"]
Return(e) == [k |-> "return", a |-> e]
FunDecl(x, params, ss) == [k |-> "fun", name |-> x, params |-> params, ss |-> ss]
Bad == [k |-> "bad"]                     (* what is not a statement           *)

-----------------------------------------------------------------------------
(* Meaning.  A state of the evaluation: env maps the local names to cells  *)
(* of the store; flow is "next" as long as control goes on in order.       *)

NoNames == [x \in {} |-> 0]

(* A global is constant as soon as a line that declares it so is read,     *)
(* before the line is executed, and even if it is not.                     *)
ConstNames(p) == {p[i].name : i \in {j \in DOMAIN p : p[j].k = "const" /\ p[j].a # None}}

Start(inputs) ==
  [env |-> NoNames, glob |-> ("input" :> Native), consts |-> {}, store |-> <<>>,
   funs |-> <<>>, objs |-> <<>>, out |-> <<>>, inp |-> inputs, flow |-> "next", val |-> Nil,
   depth |-> 1]

Fail(st) == [st EXCEPT !.flow = "error"]
Going(st) == st.flow = "next"

(* A local declaration makes a cell.                                       *)
Declare(x, v, st) ==
  [st EXCEPT !.store = Append(@, v), !.env = (x :> (Len(st.store) + 1)) @@ @]

(* Outside all blocks a declaration makes a global, or remakes one that is *)
(* not constant.                                                           *)
Define(x, v, local, st) ==
  IF local THEN Declare(x, v, st)
  ELSE IF x \in DOMAIN st.glob \cap st.consts THEN Fail(st)
  ELSE [st EXCEPT !.glob = (x :> v) @@ @]

Lookup(x, st) ==
  IF x \in DOMAIN st.env THEN st.store[st.env[x]]
  ELSE IF x \in DOMAIN st.glob THEN st.glob[x] ELSE Uninit

(* The items of lists are numbered from 0 in the language.                 *)
ItemAt(obj, i) == IF obj.t = "list" THEN i.v + 1 ELSE i
HasItem(obj, i, objs) ==
  \/ obj.t = "map" /\ i \in DOMAIN objs[obj.v]
  \/ obj.t = "list" /\ i.t = "num" /\ i.v \in 0..(Len(objs[obj.v]) - 1)

(* The operators on two values.                                            *)
Operate(op, u, v, st) ==
  LET yields(val) == [st EXCEPT !.val = val]
  IN CASE op = "EQUAL_EQUAL" -> yields(Bool(u = v))
       [] op = "BANG_EQUAL" -> yields(Bool(u # v))
       [] op = "PLUS" /\ u.t = "list" /\ v.t = "list" ->
            [st EXCEPT !.objs = Append(@, st.objs[u.v] \o st.objs[v.v]), !.val = List(Len(st.objs) + 1)]
       [] op \notin {"EQUAL_EQUAL", "BANG_EQUAL"} /\ u.t = "num" /\ v.t = "num" ->
            yields(CASE op = "PLUS" -> Num(u.v + v.v)
                     [] op = "MINUS" -> Num(u.v - v.v)
                     [] op = "STAR" -> Num(u.v * v.v)
                     [] op = "LESS" -> Bool(u.v < v.v)
                     [] op = "LESS_EQUAL" -> Bool(u.v <= v.v)
                     [] op = "GREATER" -> Bool(u.v > v.v)
                     [] op = "GREATER_EQUAL" -> Bool(u.v >= v.v))
       [] OTHER -> Fail(st)

RECURSIVE Eval(_, _), EvalArgs(_, _, _, _), Apply(_, _, _), Exec(_, _, _), ExecAll(_, _, _),
          Loop(_, _, _, _), Arms(_, _, _)

Eval(e, st) ==
  CASE e.k = "lit" -> [st EXCEPT !.val = e.v]
    [] e.k = "ref" ->
         IF Lookup(e.name, st) = Uninit THEN Fail(st)
         ELSE [st EXCEPT !.val = Lookup(e.name, st)]
    [] e.k = "assign" ->
         LET s == Eval(e.a, st)
         IN IF ~Going(s) THEN s
            ELSE IF e.name \in DOMAIN s.env THEN [s EXCEPT !.store[s.env[e.name]] = s.val]
            ELSE IF e.name \in DOMAIN s.glob \ s.consts THEN [s EXCEPT !.glob[e.name] = s.val]
            ELSE Fail(s)
    [] e.k \in {"neg", "not"} ->
         LET s == Eval(e.a, st)
         IN IF ~Going(s) THEN s
            ELSE IF e.k = "not" THEN [s EXCEPT !.val = Bool(Falsey(@))]
            ELSE IF s.val.t = "num" THEN [s EXCEPT !.val = Num(-s.val.v)] ELSE Fail(s)
    [] e.k \in {"and", "or"} ->
         LET s == Eval(e.a, st)
         IN IF Going(s) /\ (e.k = "and" <=> ~Falsey(s.val)) THEN Eval(e.b, s) ELSE s
    [] e.k = "bin" ->
         LET s == Eval(e.a, st)
             r == Eval(e.b, s)
         IN IF ~Going(s) THEN s
            ELSE IF ~Going(r) THEN r
            ELSE Operate(e.op, s.val, r.val, r)
    [] e.k = "group" -> Eval(e.a, st)
    [] e.k = "cond" ->
         LET s == Eval(e.a, st)
         IN IF ~Going(s) THEN s ELSE IF Falsey(s.val) THEN Eval(e.c, s) ELSE Eval(e.b, s)
    [] e.k = "call" ->
         LET s == Eval(e.a, st)
         IN IF ~Going(s) THEN s ELSE EvalArgs(e.args, <<>>, s.val, s)
    [] e.k \in {"list", "map"} -> EvalArgs(e.args, <<>>, [t |-> IF e.k = "list" THEN "newlist" ELSE "newmap"], st)
    [] e.k \in {"index", "setindex"} ->
         LET s == Eval(e.a, st)
         IN IF ~Going(s) THEN s ELSE EvalArgs(e.args, <<>>, [t |-> e.k, of |-> s.val], s)

(* The arguments in order, then the operation f on them.                   *)
EvalArgs(args, vals, f, st) ==
  IF Len(vals) = Len(args) THEN Apply(f, vals, st)
  ELSE LET s == Eval(args[Len(vals) + 1], st)
       IN IF ~Going(s) THEN s ELSE EvalArgs(args, Append(vals, s.val), f, s)

(* A call binds the parameters in the environment of the declaration.      *)
Apply(f, vals, st) ==
  CASE f.t = "native" ->
         IF vals # <<>> \/ st.inp = <<>> THEN Fail(st)
         ELSE [st EXCEPT !.val = Bool(Head(st.inp)), !.inp = Tail(@)]
    [] f.t = "fun" ->
         LET c == st.funs[f.v]
             n == Len(c.decl.params)
             cells == [i \in 1..n |-> Len(st.store) + i]
             bound == [x \in {c.decl.params[i] : i \in 1..n} |->
                         cells[CHOOSE i \in 1..n : c.decl.params[i] = x]]
             s == ExecAll(c.decl.ss, TRUE,
                          [st EXCEPT !.store = @ \o vals, !.env = bound @@ c.env,
                                     !.depth = @ + 1, !.val = Nil])
         IN IF Len(vals) # n \/ st.depth = MAX_FRAME_SIZE THEN Fail(st)
            ELSE IF s.flow = "error" THEN s
            ELSE [s EXCEPT !.env = st.env, !.depth = st.depth, !.flow = "next",
                           !.val = IF s.flow = "return" THEN @ ELSE Nil]
    [] f.t = "newlist" ->
         [st EXCEPT !.objs = Append(@, vals), !.val = List(Len(st.objs) + 1)]
    [] f.t = "newmap" ->
         LET keys == {i \in DOMAIN vals : i % 2 = 1}
             last(k) == CHOOSE i \in keys : vals[i] = k /\ \A j \in keys : vals[j] = k => j <= i
         IN IF \A i \in keys : Hashable(vals[i])
              THEN [st EXCEPT !.objs = Append(@, [k \in {vals[i] : i \in keys} |-> vals[last(k) + 1]]),
                              !.val = Map(Len(st.objs) + 1)]
              ELSE Fail(st)
    [] f.t = "index" ->
         IF HasItem(f.of, vals[1], st.objs)
           THEN [st EXCEPT !.val = st.objs[f.of.v][ItemAt(f.of, vals[1])]] ELSE Fail(st)
    [] f.t = "setindex" ->
         IF f.of.t = "map" /\ Hashable(vals[1])
           THEN [st EXCEPT !.objs[f.of.v] = (vals[1] :> vals[2]) @@ @, !.val = vals[2]]
         ELSE IF f.of.t = "list" /\ HasItem(f.of, vals[1], st.objs)
           THEN [st EXCEPT !.objs[f.of.v][ItemAt(f.of, vals[1])] = vals[2], !.val = vals[2]]
         ELSE Fail(st)
    [] OTHER -> Fail(st)

Exec(s, local, st) ==
  CASE s.k = "empty" -> st
    [] s.k = "expr" -> Eval(s.a, st)
    [] s.k = "print" ->
         LET r == Eval(s.a, st)
         IN IF Going(r) THEN [r EXCEPT !.out = Append(@, Show(r.val))] ELSE r
    [] s.k \in {"var", "const"} ->
         LET r == IF s.a = None THEN [st EXCEPT !.val = Uninit] ELSE Eval(s.a, st)
         IN IF Going(r) THEN Define(s.name, r.val, local, r) ELSE r
    [] s.k = "fun" ->
         LET r == Define(s.name, Fun(Len(st.funs) + 1), local, st)
         IN [r EXCEPT !.funs = Append(@, [decl |-> s, env |-> r.env])]
    [] s.k = "block" -> [ExecAll(s.ss, TRUE, st) EXCEPT !.env = st.env]
    [] s.k = "if" ->
         LET r == Eval(s.a, st)
         IN IF ~Going(r) THEN r
            ELSE IF ~Falsey(r.val) THEN Exec(s.s, local, r)
            ELSE IF s.t = None THEN r ELSE Exec(s.t, local, r)
    [] s.k = "while" -> Loop(s.a, None, s.s, st)
    [] s.k = "for" ->
         LET r == IF s.init = None THEN st ELSE Exec(s.init, TRUE, st)
         IN IF Going(r) THEN [Loop(s.a, s.b, s.s, r) EXCEPT !.env = st.env] ELSE r
    [] s.k = "switch" ->
         LET r == Eval(s.a, st)
         IN IF Going(r) THEN Arms(s.arms, r.val, r) ELSE r
    [] s.k = "continue" -> [st EXCEPT !.flow = "continue"]
    [] s.k = "return" ->
         LET r == IF s.a = None THEN [st EXCEPT !.val = Nil] ELSE Eval(s.a, st)
         IN IF Going(r) THEN [r EXCEPT !.flow = "return"] ELSE r

ExecAll(ss, local, st) ==
  IF ss = <<>> \/ ~Going(st) THEN st ELSE ExecAll(Tail(ss), local, Exec(Head(ss), local, st))

(* continue ends the body, not the loop; the update follows in any case.   *)
Loop(e, update, body, st) ==
  LET c == IF e = None THEN [st EXCEPT !.val = Bool(TRUE)] ELSE Eval(e, st)
      b == Exec(body, TRUE, c)
      n == [b EXCEPT !.flow = IF @ = "continue" THEN "next" ELSE @, !.env = st.env]
      u == IF update = None \/ ~Going(n) THEN n ELSE Eval(update, n)
  IN IF ~Going(c) \/ Falsey(c.val) THEN c
     ELSE IF Going(u) THEN Loop(e, update, body, u) ELSE u

(* The first arm whose expression equals v, or the default.                *)
Arms(arms, v, st) ==
  IF arms = <<>> THEN st
  ELSE LET c == IF Head(arms).e = None THEN st ELSE Eval(Head(arms).e, st)
       IN IF ~Going(c) THEN c
          ELSE IF Head(arms).e = None \/ c.val = v
            THEN [ExecAll(Head(arms).ss, TRUE, c) EXCEPT !.env = st.env]
          ELSE Arms(Tail(arms), v, c)

-----------------------------------------------------------------------------
(* Which programs are legal.  A scope maps the names declared in it to     *)
(* "var", "const", or "open" while the initializer is being evaluated.     *)

Kind(x, scopes) ==
  LET at == {i \in DOMAIN scopes : x \in DOMAIN scopes[i]}
  IN IF at = {} THEN "global" ELSE scopes[CHOOSE i \in at : \A j \in at : j <= i][x]

Add(x, kind, scopes) ==
  IF scopes = <<>> THEN scopes ELSE [scopes EXCEPT ![Len(scopes)] = (x :> kind) @@ @]
Free(x, scopes) == scopes = <<>> \/ x \notin DOMAIN scopes[Len(scopes)]
Nested(c) == [c EXCEPT !.scopes = Append(@, NoNames)]

RECURSIVE ExprOk(_, _), StmtOk(_, _), ListOk(_, _)

ExprOk(e, scopes) ==
  /\ e.k = "ref" => Kind(e.name, scopes) # "open"
  /\ e.k = "assign" => Kind(e.name, scopes) \notin {"open", "const"}
  /\ \A part \in DOMAIN e \cap {"a", "b", "c"} : e[part] # None => ExprOk(e[part], scopes)
  /\ "args" \in DOMAIN e => \A i \in DOMAIN e.args : ExprOk(e.args[i], scopes)

Declared(s, scopes) ==
  IF s.k \in {"var", "const", "fun"}
    THEN Add(s.name, IF s.k = "const" THEN "const" ELSE "var", scopes) ELSE scopes

StmtOk(s, c) ==
  CASE s.k = "empty" -> TRUE
    [] s.k \in {"expr", "print"} -> ExprOk(s.a, c.scopes)
    [] s.k \in {"var", "const"} ->
         /\ Free(s.name, c.scopes)
         /\ IF s.a = None THEN s.k = "var" ELSE ExprOk(s.a, Add(s.name, "open", c.scopes))
    [] s.k = "fun" ->
         /\ Free(s.name, c.scopes)
         /\ \A i, j \in DOMAIN s.params : i # j => s.params[i] # s.params[j]
         /\ ListOk(s.ss, [scopes |-> Append(Declared(s, c.scopes),
                                            [x \in {s.params[i] : i \in DOMAIN s.params} |-> "var"]),
                          loop |-> FALSE, fun |-> TRUE])
    [] s.k = "block" -> ListOk(s.ss, Nested(c))
    [] s.k = "if" -> ExprOk(s.a, c.scopes) /\ StmtOk(s.s, c) /\ (s.t = None \/ StmtOk(s.t, c))
    [] s.k = "while" -> ExprOk(s.a, c.scopes) /\ StmtOk(s.s, [c EXCEPT !.loop = TRUE])
    [] s.k = "for" ->
         LET n == [Nested(c) EXCEPT !.loop = TRUE]
             d == IF s.init = None THEN n ELSE [n EXCEPT !.scopes = Declared(s.init, @)]
         IN /\ s.init = None \/ StmtOk(s.init, n)
            /\ \A e \in {s.a, s.b} \ {None} : ExprOk(e, d.scopes)
            /\ StmtOk(s.s, d)
    [] s.k = "switch" ->
         /\ ExprOk(s.a, c.scopes)
         /\ \A i \in DOMAIN s.arms :
              /\ IF s.arms[i].e = None THEN i = Len(s.arms) ELSE ExprOk(s.arms[i].e, c.scopes)
              /\ s.arms[i].ss # <<>>
              /\ ListOk(s.arms[i].ss, Nested(c))
    [] s.k = "continue" -> c.loop
    [] s.k \in {"break", "bad"} -> FALSE
    [] s.k = "return" -> c.fun /\ (s.a = None \/ ExprOk(s.a, c.scopes))

ListOk(ss, c) ==
  ss = <<>> \/ /\ StmtOk(Head(ss), c)
               /\ ListOk(Tail(ss), [c EXCEPT !.scopes = Declared(Head(ss), @)])

(* A global constant is not declared again, in the line or in a later one. *)
WellFormed(p, consts) ==
  /\ ListOk(p, [scopes |-> <<>>, loop |-> FALSE, fun |-> FALSE])
  /\ \A j \in DOMAIN p :
       p[j].k \in {"var", "const", "fun"} =>
         p[j].name \notin consts \cup ConstNames(SubSeq(p, 1, j - 1))

-----------------------------------------------------------------------------
(* What lines print on an input, and how the last of them ends.  A line    *)
(* that is illegal does nothing; one that fails leaves what it did.        *)
RECURSIVE Lines(_, _)
Lines(lines, st) ==
  IF lines = <<>> THEN st
  ELSE LET p == Head(lines)
           s == [st EXCEPT !.env = NoNames, !.depth = 1, !.flow = "next",
                           !.consts = @ \cup ConstNames(p)]
       IN Lines(Tail(lines), IF WellFormed(p, st.consts) THEN ExecAll(p, FALSE, s)
                             ELSE [s EXCEPT !.flow = "rejected"])

Meaning(lines, inputs) ==
  LET st == Lines(lines, Start(inputs))
  IN [out |-> st.out, status |-> IF st.flow = "next" THEN "ok" ELSE st.flow]
=============================================================================
