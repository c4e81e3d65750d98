-------------------------------- MODULE Memory --------------------------------
(***************************************************************************)
(* What a garbage-collected memory promises to the program that uses it:   *)
(* an object that the program can still reach is never freed, nor changed  *)
(* by anyone else, and a new object gets an address that no reachable      *)
(* object has.                                                             *)
(***************************************************************************)
EXTENDS Objects

VARIABLES
  roots,    (* the objects the program points to directly                   *)
  graph     (* for each object that has not been freed, those it points to  *)

vars == <<roots, graph>>

Live == Reach(roots, graph)

Init == roots = {} /\ DOMAIN graph = {}

(* One step of the program.  It may free objects that are not reachable,   *)
(* obtain one object (a new one, or a string that is found in a weak table *)
(* of strings and points to nothing), and then store pointers to the       *)
(* objects it can reach.                                                   *)
Step(live, kept, got) ==
  LET known == live \cup got
  IN /\ live \subseteq kept /\ kept \subseteq DOMAIN graph
     /\ DOMAIN graph' = kept \cup got
     /\ \A o \in got \cap kept : graph[o] = {}
     /\ roots' \subseteq known
     /\ \A o \in DOMAIN graph' :
          graph'[o] \subseteq (known \cup IF o \in kept THEN graph[o] ELSE {})
     /\ \A o \in kept \ known : graph'[o] = graph[o]

Next ==
  LET live == Live
  IN \E got \in {{}} \cup {{o} : o \in Obj} :
       \E kept \in {DOMAIN graph', DOMAIN graph' \ got} : Step(live, kept, got)

Spec == Init /\ [][Next]_vars

(* No object that can be reached points to one that has been freed.        *)
NoDangling ==
  /\ roots \subseteq DOMAIN graph
  /\ \A o \in Live : graph[o] \subseteq DOMAIN graph
=============================================================================
