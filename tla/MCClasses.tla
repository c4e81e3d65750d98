------------------------------- MODULE MCClasses ------------------------------
(***************************************************************************)
(* Programs with a class A and a class B : A.                              *)
(***************************************************************************)
EXTENDS Classes

CONSTANTS A, B, c1, c2, f1, f2, i1, b1

MCSuperclass == [g \in Globals |-> IF g = B THEN A ELSE Nil]
MCAddresses ==
  [k \in Kind |-> CASE k = "CLASS"        -> {c1, c2}
                   [] k = "CLOSURE"      -> {f1, f2}
                   [] k = "INSTANCE"     -> {i1}
                   [] k = "BOUND_METHOD" -> {b1}
                   [] OTHER              -> {}]
=============================================================================
