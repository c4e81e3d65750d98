--------------------------------- MODULE Loxc ---------------------------------
(***************************************************************************)
(* The compiler, the serializer and the loader together: the images that   *)
(* Loader reads are those that serialize_program() makes of the sources,   *)
(* and what runs in the end is compared with what was written.             *)
(***************************************************************************)
EXTENDS Loader, Serialization

-----------------------------------------------------------------------------
(* What a compiler does with the next thing, when nothing is ever freed:   *)
(* compile_file() switches the collector off for good.                     *)

Parse(c, ev) ==
  LET n == Len(c.fs)
      f == c.fs[n]
      globals == IF Contains(c.globals, ev.s) THEN c.globals ELSE Append(c.globals, ev.s)
  IN CASE ev.e = "begin" ->
            [c EXCEPT !.fs = Append(@, [name |-> ev.s, arity |-> 0, upvalues |-> <<>>,
                                        constants |-> <<>>, code |-> <<>>, statements |-> {}])]
       [] ev.e = "string" -> [c EXCEPT !.fs[n].constants = Append(@, [t |-> "str", v |-> ev.s])]
       [] ev.e = "global" ->
            [c EXCEPT !.globals = globals,
                      !.fs[n].code = Append(@, SelectInSeq(globals, LAMBDA g : g = ev.s))]
       [] ev.e = "end" /\ n = 1 -> [c EXCEPT !.functions = Append(@, f), !.fs = <<>>]
       [] ev.e = "end" /\ n > 1 ->
            [c EXCEPT !.functions = Append(@, f),
                      !.fs = [SubSeq(@, 1, n - 1) EXCEPT ![n - 1].constants =
                                Append(@, [t |-> "fn", v |-> Len(c.functions) + 1])]]

UnitOf(s) ==
  FoldLeft(LAMBDA c, ev : Parse(c, ev),
           [fs |-> <<>>, functions |-> <<>>, globals |-> <<>>, consts |-> {}], s)

ASSUME ImagesAreWritten == Images = [s \in Sources |-> serialize_program(UnitOf(s))]

-----------------------------------------------------------------------------
(* Properties *)

(* The functions under an object, with strings and globals by name.        *)
RECURSIVE View(_), UnitView(_, _)
View(id) ==
  LET f == heap[id]
  IN IF f.kind = "string" THEN f.s
     ELSE <<heap[f.name].s, [i \in DOMAIN f.constants |-> View(f.constants[i])],
            [i \in DOMAIN f.code |-> heap[names[f.code[i]]].s]>>
UnitView(unit, n) ==
  LET f == unit.functions[n]
  IN <<f.name,
       [i \in DOMAIN f.constants |->
          IF f.constants[i].t = "str" THEN f.constants[i].v ELSE UnitView(unit, f.constants[i].v)],
       [i \in DOMAIN f.code |-> unit.globals[f.code[i]]]>>

(* run_file() runs the whole of one source or nothing: whatever a writer,  *)
(* a crash or the collector did, the functions, constants and globals that *)
(* run are those of the source, in its nesting and order, although globals *)
(* have other indices in a compiled program.                               *)
RunsWholeProgram ==
  pc = "running" =>
    LET u == UnitOf(source) IN View(script) = UnitView(u, Len(u.functions))
=============================================================================
