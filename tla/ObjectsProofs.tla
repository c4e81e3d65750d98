---------------------------- MODULE ObjectsProofs -----------------------------
(***************************************************************************)
(* What the proofs about the heap and about classes need of reachability   *)
(* and of what the collector marks.                                        *)
(***************************************************************************)
EXTENDS Objects, TLAPS

-----------------------------------------------------------------------------
(* Reachability *)

(* The roots that exist are reachable.                                     *)
LEMMA ReachRoots ==
  ASSUME NEW r, NEW g
  PROVE  r \cap DOMAIN g \subseteq Reach(r, g)
  BY DEF Reach

(* What a reachable object points to is reachable, if it exists.           *)
LEMMA ReachStep ==
  ASSUME NEW r, NEW g, NEW x \in Reach(r, g), NEW y \in g[x], y \in DOMAIN g
  PROVE  y \in Reach(r, g)
  BY DEF Reach, ClosedIn

(* A closed set that contains the roots contains what can be reached.      *)
LEMMA ReachBound ==
  ASSUME NEW r, NEW g, NEW S \in SUBSET DOMAIN g,
         r \cap DOMAIN g \subseteq S, ClosedIn(S, g)
  PROVE  Reach(r, g) \subseteq S
  BY DEF Reach

(* Reachability does not depend on what lies outside a closed set that     *)
(* contains the roots: garbage may be freed or added.                      *)
LEMMA ReachLocal ==
  ASSUME NEW r, NEW g, NEW h, NEW S,
         S \subseteq DOMAIN g, S \subseteq DOMAIN h, r \subseteq S,
         \A x \in S : g[x] \subseteq S /\ h[x] = g[x]
  PROVE  Reach(r, g) = Reach(r, h)
<1>1. ASSUME NEW a, NEW b, S \subseteq DOMAIN a, S \subseteq DOMAIN b,
             \A x \in S : a[x] \subseteq S /\ b[x] = a[x],
             NEW o \in Reach(r, a)
      PROVE  o \in Reach(r, b)
  <2>1. r \cap DOMAIN a \subseteq S /\ ClosedIn(S, a)
    BY <1>1 DEF ClosedIn
  <2>2. o \in S
    BY <1>1, <2>1, ReachBound
  <2>3. ASSUME NEW T \in SUBSET DOMAIN b, r \cap DOMAIN b \subseteq T, ClosedIn(T, b)
        PROVE  o \in T
    <3>1. r \cap DOMAIN a \subseteq T \cap S
      BY <1>1, <2>3
    <3>2. ClosedIn(T \cap S, a)
      BY <1>1, <2>3 DEF ClosedIn
    <3>3. T \cap S \in SUBSET DOMAIN a
      BY <1>1
    <3> QED
      BY <1>1, <3>1, <3>2, <3>3 DEF Reach
  <2> QED
    BY <1>1, <2>2, <2>3 DEF Reach
<1>2. Reach(r, g) \subseteq Reach(r, h)
  BY <1>1
<1>3. Reach(r, h) \subseteq Reach(r, g)
  BY <1>1
<1> QED
  BY <1>2, <1>3

(* The collector follows all pointers of an object whose initializer, if   *)
(* it is a class, is in the table of methods.                              *)
LEMMA BlackenAll ==
  ASSUME NEW k \in Kind, NEW ptr,
         k = "CLASS" => ptr["init_method"] \subseteq ptr["methods"]
  PROVE  Blacken(k, ptr) = Refs(k, ptr)
<1>1. Blacken(k, ptr) \subseteq Refs(k, ptr)
  BY DEF Blacken, Refs, BlackenedFields
<1>2. ASSUME NEW x \in Refs(k, ptr)
      PROVE  x \in Blacken(k, ptr)
  <2>1. PICK f \in FieldsOf(k) : x \in ptr[f]
    BY <1>2 DEF Refs
  <2>2. CASE f # "init_method"
    BY <2>1, <2>2 DEF Blacken, BlackenedFields
  <2>3. CASE f = "init_method"
    <3>1. k = "CLASS"
      BY <2>1, <2>3 DEF FieldsOf, Kind
    <3>2. "methods" \in BlackenedFields(k)
      BY <3>1 DEF BlackenedFields, FieldsOf
    <3> QED
      BY <2>1, <2>3, <3>1, <3>2 DEF Blacken
  <2> QED
    BY <2>2, <2>3
<1> QED
  BY <1>1, <1>2
=============================================================================
