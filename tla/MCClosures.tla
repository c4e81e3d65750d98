------------------------------ MODULE MCClosures ------------------------------
(***************************************************************************)
(* Small programs: the addresses are interchangeable.                      *)
(***************************************************************************)
EXTENDS Closures

Addresses == Permutations(Closure) \cup Permutations(Upvalue)
=============================================================================
