-------------------------------- MODULE MCLoxc --------------------------------
(***************************************************************************)
(* Sources with nested functions, shared strings, and a global that is     *)
(* also a native function or a function's name.                            *)
(***************************************************************************)
EXTENDS Loxc

MCSources ==
  {<<Begin(""), Global("print"), String("a"), Begin("f"), Global("g"), String("a"), End, Global("f"), End>>,
   <<Begin(""), String("g"), Begin("f"), Begin("h"), Global("g"), End, Begin("f"), String("h"), End, End,
     Global("f"), Global("print"), End>>}

MCImages == [s \in MCSources |-> serialize_program(UnitOf(s))]
=============================================================================
