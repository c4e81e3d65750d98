------------------------------- MODULE Objects -------------------------------
(***************************************************************************)
(* The kinds of heap objects of the interpreter, the pointers each holds,  *)
(* the ones the garbage collector follows, and reachability.               *)
(***************************************************************************)
EXTENDS Integers, FiniteSets

CONSTANT Obj    (* the addresses at which objects can live                  *)

(* The classes derived from Object.                                        *)
Kind == {"STRING", "FUNCTION", "NATIVE_FUNCTION", "CLOSURE", "UPVALUE",
         "CLASS", "INSTANCE", "BOUND_METHOD", "LIST", "MAP"}

(* The members of an object of kind k through which the interpreter can    *)
(* reach other objects.  A table counts as two members, keys and values.   *)
FieldsOf(k) ==
  CASE k = "FUNCTION"     -> {"name", "constants"}
    [] k = "CLOSURE"      -> {"function", "upvalues"}
    [] k = "UPVALUE"      -> {"closed"}
    [] k = "CLASS"        -> {"name", "method_names", "methods", "init_method"}
    [] k = "INSTANCE"     -> {"class", "field_names", "fields"}
    [] k = "BOUND_METHOD" -> {"receiver", "method"}
    [] k = "LIST"         -> {"values"}
    [] k = "MAP"          -> {"keys", "values"}
    [] OTHER              -> {}

Field == {"name", "constants", "function", "upvalues", "closed", "method_names",
          "methods", "init_method", "class", "field_names", "fields", "receiver",
          "method", "values", "keys"}

(* Mutants: the collector forgets the function, or the upvalues, of a      *)
(* closure.                                                                *)
BlackenedFieldsNoFunction(k) == FieldsOf(k) \ {"init_method", "function"}
BlackenedFieldsNoUpvalues(k) == FieldsOf(k) \ {"init_method", "upvalues"}

(* The members that blacken_object() marks: all but the cached initializer *)
(* of a class, which it finds among the class's methods.                   *)
BlackenedFields(k) == FieldsOf(k) \ {"init_method"}

(* The pointers of an object, given as a function from members to sets.    *)
Refs(k, ptr) == UNION {ptr[f] : f \in FieldsOf(k)}
Blacken(k, ptr) == UNION {ptr[f] : f \in BlackenedFields(k)}

(* The members whose values are part of the text of an object, as          *)
(* Value::to_string() writes it.  The other objects are written by a name. *)
TextFields(k) ==
  CASE k = "LIST"         -> {"values"}
    [] k = "MAP"          -> {"keys", "values"}
    [] k = "BOUND_METHOD" -> {"receiver"}
    [] OTHER              -> {}

(* S contains, with each object, the objects it points to in graph g.      *)
ClosedIn(S, g) == \A x \in S : g[x] \cap DOMAIN g \subseteq S

(* The objects of graph g that can be reached from the set r: those in     *)
(* every closed set that contains r.                                       *)
Reach(r, g) ==
  {o \in DOMAIN g : \A S \in SUBSET DOMAIN g :
                       (r \cap DOMAIN g \subseteq S /\ ClosedIn(S, g)) => o \in S}
=============================================================================
