----------------------------- MODULE LoaderProofs -----------------------------
(***************************************************************************)
(* Proofs about a program on its way to the machine, for any sources and   *)
(* images, any number of writes, crashes and runs, and a collection at any *)
(* allocation: nothing that the program consists of is freed before it     *)
(* runs, and the collector is on when it does.                             *)
(***************************************************************************)
EXTENDS Loader, FiniteSetTheorems, SequenceTheorems, WellFoundedInduction, TLAPS

-----------------------------------------------------------------------------
(* Numbers *)

(* A set of natural numbers has a least one.                               *)
LEMMA LeastNumber ==
  ASSUME NEW T, T \subseteq Nat, T # {}
  PROVE  \E x \in T : \A y \in T : x <= y
<1> DEFINE R == {ss \in Nat \X Nat : ss[1] < ss[2]}
<1>1. OpToRel(<, Nat) = R
  BY Zenon DEF OpToRel
<1>2. IsWellFoundedOn(R, Nat)
  BY <1>1, NatLessThanWellFounded, Zenon
<1>3. PICK x \in T : \A y \in T : ~ (<<y, x>> \in R)
  BY <1>2, WFMin, Zenon
<1>4. \A y \in Nat : y < x => <<y, x>> \in R
  BY <1>3
<1>5. \A y \in T : ~(y < x)
  BY <1>3, <1>4
<1>6. \A y \in T : x <= y
  BY <1>5
<1> QED
  BY <1>6

(* Induction over the natural numbers.                                     *)
LEMMA Induction ==
  ASSUME NEW G, 0 \in G, \A n \in Nat : n \in G => n + 1 \in G
  PROVE  Nat \subseteq G
<1> SUFFICES ASSUME Nat \ G # {} PROVE FALSE
  OBVIOUS
<1>1. PICK x \in Nat \ G : \A y \in Nat \ G : x <= y
  BY LeastNumber, Zenon
<1>2. x # 0 /\ x - 1 \in Nat /\ ~(x <= x - 1)
  BY <1>1
<1>3. x - 1 \in G
  BY <1>1, <1>2
<1>4. x - 1 + 1 = x
  BY <1>1
<1> QED
  BY <1>1, <1>2, <1>3, <1>4

-----------------------------------------------------------------------------
(* Reachability *)

(* f[n] is what n rounds of following references find.                     *)
IsRounds(f, h, ids, m) ==
  f = [n \in 0..m |-> IF n = 0 THEN ids ELSE Follow(h, f[n - 1])]

(* There are such rounds, however many: by induction.                      *)
LEMMA RoundsExist ==
  ASSUME NEW h, NEW ids
  PROVE  \A m \in Nat : \E f : IsRounds(f, h, ids, m)
<1> DEFINE G == {m \in Nat : \E f : IsRounds(f, h, ids, m)}
<1>1. 0 \in G
  <2> DEFINE f == [n \in 0..0 |-> ids]
  <2>1. IsRounds(f, h, ids, 0)
    BY DEF IsRounds
  <2> QED
    BY <2>1
<1>2. ASSUME NEW m \in Nat, m \in G PROVE m + 1 \in G
  <2>1. PICK f : IsRounds(f, h, ids, m)
    BY <1>2
  <2> DEFINE g == [n \in 0..(m + 1) |-> IF n = m + 1 THEN Follow(h, f[m]) ELSE f[n]]
  <2>2. \A n \in 0..m : f[n] = IF n = 0 THEN ids ELSE Follow(h, f[n - 1])
    BY <2>1 DEF IsRounds
  <2>3. \A n \in 0..(m + 1) : g[n] = IF n = 0 THEN ids ELSE Follow(h, g[n - 1])
    <3> SUFFICES ASSUME NEW n \in 0..(m + 1)
                 PROVE  g[n] = IF n = 0 THEN ids ELSE Follow(h, g[n - 1])
      OBVIOUS
    <3>1. CASE n = m + 1
      <4>1. n # 0 /\ n - 1 = m /\ m \in 0..(m + 1) /\ m # m + 1
        BY <3>1
      <4>2. g[n - 1] = f[m] /\ g[n] = Follow(h, f[m])
        BY <3>1, <4>1
      <4> QED
        BY <4>1, <4>2
    <3>2. CASE n # m + 1
      <4>1. n \in 0..m /\ (n # 0 => n - 1 \in 0..(m + 1) /\ n - 1 # m + 1)
        BY <3>2
      <4>2. g[n] = f[n] /\ (n # 0 => g[n - 1] = f[n - 1])
        BY <3>2, <4>1
      <4> QED
        BY <2>2, <4>1, <4>2
    <3> QED
      BY <3>1, <3>2
  <2>4. g = [n \in 0..(m + 1) |-> g[n]]
    OBVIOUS
  <2> HIDE DEF g
  <2>5. IsRounds(g, h, ids, m + 1)
    BY <2>3, <2>4 DEF IsRounds
  <2> QED
    BY <2>5
<1> HIDE DEF G
<1>3. Nat \subseteq G
  BY <1>1, <1>2, Induction
<1> QED
  BY <1>3 DEF G

(* What is reached is what the last of them finds.                         *)
LEMMA ReachIs ==
  ASSUME NEW h, IsFiniteSet(DOMAIN h), NEW ids
  PROVE  \E f : IsRounds(f, h, ids, Cardinality(DOMAIN h)) /\ Reach(h, ids) = f[Cardinality(DOMAIN h)]
<1> DEFINE m == Cardinality(DOMAIN h)
           g == CHOOSE f : IsRounds(f, h, ids, m)
<1>1. m \in Nat
  BY FS_CardinalityType
<1>2. IsRounds(g, h, ids, m)
  BY <1>1, RoundsExist
<1>3. Reach(h, ids) = g[m]
  BY DEF Reach, IsRounds
<1> QED
  BY <1>2, <1>3

(* A round adds what the objects found so far refer to.                    *)
LEMMA FollowFacts ==
  ASSUME NEW h, NEW ids
  PROVE  /\ ids \subseteq Follow(h, ids)
         /\ \A i \in ids \cap DOMAIN h : Refs(h[i]) \subseteq Follow(h, ids)
         /\ \A x \in Follow(h, ids) : x \in ids \/ \E i \in ids \cap DOMAIN h : x \in Refs(h[i])
<1> DEFINE Found(i) == {i} \cup (IF i \in DOMAIN h THEN Refs(h[i]) ELSE {})
<1>1. Follow(h, ids) = UNION {Found(i) : i \in ids}
  BY DEF Follow
<1>2. \A i \in ids : i \in Found(i) /\ (i \in DOMAIN h => Refs(h[i]) \subseteq Found(i))
  OBVIOUS
<1>3. \A i, x : x \in Found(i) => x = i \/ (i \in DOMAIN h /\ x \in Refs(h[i]))
  OBVIOUS
<1> HIDE DEF Found
<1> QED
  BY <1>1, <1>2, <1>3

(* A collection needs no more rounds than there are objects: each one that *)
(* finds an object that was not found before leaves fewer to be found.     *)
LEMMA RoundsSuffice ==
  ASSUME NEW h, IsFiniteSet(DOMAIN h), NEW ids, NEW f,
         IsRounds(f, h, ids, Cardinality(DOMAIN h))
  PROVE  LET last == f[Cardinality(DOMAIN h)]
         IN  \A i \in last \cap DOMAIN h : Refs(h[i]) \cap DOMAIN h \subseteq last
<1> DEFINE D == DOMAIN h
           m == Cardinality(D)
           Done(n) == Follow(h, f[n]) \cap D \subseteq f[n]
           Many(n) == Cardinality(f[n] \cap D) >= n + 1
           G == {n \in Nat : n <= m => Done(n) \/ Many(n)}
<1>1. m \in Nat
  BY FS_CardinalityType
<1>2. \A n \in 0..m : f[n] = IF n = 0 THEN ids ELSE Follow(h, f[n - 1])
  BY DEF IsRounds
<1>3. \A n : IsFiniteSet(f[n] \cap D) /\ Cardinality(f[n] \cap D) \in Nat
  BY FS_Subset, FS_CardinalityType
<1>4. 0 \in G
  <2>1. CASE ids \cap D = {}
    <3>1. Follow(h, ids) \subseteq ids
      BY <2>1, FollowFacts
    <3> QED
      BY <1>1, <1>2, <3>1
  <2>2. CASE ids \cap D # {}
    <3>1. f[0] = ids
      BY <1>1, <1>2
    <3>2. Cardinality(f[0] \cap D) # 0
      BY <1>3, <2>2, <3>1, FS_EmptySet
    <3>3. Cardinality(f[0] \cap D) >= 0 + 1
      BY <1>3, <3>2
    <3> QED
      BY <3>3
  <2> QED
    BY <2>1, <2>2
<1>5. ASSUME NEW n \in Nat, n \in G PROVE n + 1 \in G
  <2> SUFFICES ASSUME n + 1 <= m PROVE Done(n + 1) \/ Many(n + 1)
    OBVIOUS
  <2>1. n <= m /\ n + 1 \in 0..m /\ (n + 1) - 1 = n /\ n + 1 # 0
    BY <1>1
  <2>2. f[n + 1] = Follow(h, f[n])
    BY <1>2, <2>1
  <2>3. CASE Done(n)
    <3>1. ASSUME NEW x \in Follow(h, f[n + 1]), x \in D PROVE x \in f[n + 1]
      <4>1. CASE x \in f[n + 1]
        BY <4>1
      <4>2. CASE \E i \in f[n + 1] \cap D : x \in Refs(h[i])
        <5>1. PICK i \in f[n + 1] \cap D : x \in Refs(h[i])
          BY <4>2
        <5>2. i \in f[n] \cap D
          BY <2>2, <2>3, <5>1
        <5> QED
          BY <2>2, <5>1, <5>2, FollowFacts
      <4> QED
        BY <3>1, <4>1, <4>2, FollowFacts
    <3> QED
      BY <3>1
  <2>4. CASE ~Done(n)
    <3>1. PICK x \in D : x \in Follow(h, f[n]) /\ x \notin f[n]
      BY <2>4
    <3> DEFINE A == f[n] \cap D
               B == f[n + 1] \cap D
    <3>2. A \cup {x} \subseteq B /\ x \notin A
      BY <2>2, <3>1, FollowFacts
    <3>3. IsFiniteSet(A) /\ Cardinality(A) \in Nat /\ Cardinality(A) >= n + 1
      BY <1>3, <1>5, <2>1, <2>4
    <3>4. IsFiniteSet(B) /\ Cardinality(B) \in Nat
      BY <1>3
    <3> HIDE DEF A, B
    <3>5. Cardinality(A \cup {x}) = Cardinality(A) + 1
      BY <3>2, <3>3, FS_AddElement
    <3>6. Cardinality(A \cup {x}) <= Cardinality(B)
      BY <3>2, <3>4, FS_Subset
    <3>7. Cardinality(B) >= (n + 1) + 1
      BY <3>3, <3>4, <3>5, <3>6
    <3> QED
      BY <3>7 DEF B
  <2> QED
    BY <2>3, <2>4
<1> HIDE DEF G
<1>6. m \in G
  BY <1>1, <1>4, <1>5, Induction
<1>7. ~Many(m)
  <2>1. Cardinality(f[m] \cap D) <= m
    BY FS_Subset
  <2> QED
    BY <1>1, <1>3, <2>1
<1>8. Done(m)
  BY <1>1, <1>6, <1>7 DEF G
<1> HIDE DEF m
<1>9. \A i \in f[m] \cap D : Refs(h[i]) \cap D \subseteq f[m]
  BY <1>8, FollowFacts
<1> QED
  BY <1>9 DEF m

(* The roots are reached.                                                  *)
LEMMA ReachRoots ==
  ASSUME NEW h, IsFiniteSet(DOMAIN h), NEW ids
  PROVE  ids \subseteq Reach(h, ids)
<1> DEFINE m == Cardinality(DOMAIN h)
<1>1. m \in Nat
  BY FS_CardinalityType
<1>2. PICK f : IsRounds(f, h, ids, m) /\ Reach(h, ids) = f[m]
  BY ReachIs
<1>3. \A n \in 0..m : f[n] = IF n = 0 THEN ids ELSE Follow(h, f[n - 1])
  BY <1>2 DEF IsRounds
<1> DEFINE G == {n \in Nat : n <= m => ids \subseteq f[n]}
<1> HIDE DEF m
<1>4. 0 \in G
  BY <1>1, <1>3
<1>5. ASSUME NEW n \in Nat, n \in G PROVE n + 1 \in G
  <2> SUFFICES ASSUME n + 1 <= m PROVE ids \subseteq f[n + 1]
    OBVIOUS
  <2>1. n <= m /\ n + 1 \in 0..m /\ (n + 1) - 1 = n /\ n + 1 # 0
    BY <1>1
  <2>2. f[n + 1] = Follow(h, f[n])
    BY <1>3, <2>1
  <2> QED
    BY <1>5, <2>1, <2>2, FollowFacts
<1> HIDE DEF G
<1>6. m \in G
  BY <1>1, <1>4, <1>5, Induction
<1> QED
  BY <1>1, <1>2, <1>6 DEF G

(* What a reached object refers to is reached, if it exists.               *)
LEMMA ReachStep ==
  ASSUME NEW h, IsFiniteSet(DOMAIN h), NEW ids, NEW i \in Reach(h, ids), i \in DOMAIN h
  PROVE  Refs(h[i]) \cap DOMAIN h \subseteq Reach(h, ids)
  BY ReachIs, RoundsSuffice

(* Nothing outside a heap is reached in it, when nothing dangles.          *)
LEMMA ReachBound ==
  ASSUME NEW h, IsFiniteSet(DOMAIN h), NEW ids, ids \subseteq DOMAIN h,
         \A i \in DOMAIN h : Refs(h[i]) \subseteq DOMAIN h
  PROVE  Reach(h, ids) \subseteq DOMAIN h
<1> DEFINE m == Cardinality(DOMAIN h)
<1>1. m \in Nat
  BY FS_CardinalityType
<1>2. PICK f : IsRounds(f, h, ids, m) /\ Reach(h, ids) = f[m]
  BY ReachIs
<1>3. \A n \in 0..m : f[n] = IF n = 0 THEN ids ELSE Follow(h, f[n - 1])
  BY <1>2 DEF IsRounds
<1> DEFINE G == {n \in Nat : n <= m => f[n] \subseteq DOMAIN h}
<1> HIDE DEF m
<1>4. 0 \in G
  BY <1>1, <1>3
<1>5. ASSUME NEW n \in Nat, n \in G PROVE n + 1 \in G
  <2> SUFFICES ASSUME n + 1 <= m PROVE f[n + 1] \subseteq DOMAIN h
    OBVIOUS
  <2>1. n <= m /\ n + 1 \in 0..m /\ (n + 1) - 1 = n /\ n + 1 # 0
    BY <1>1
  <2>2. f[n + 1] = Follow(h, f[n])
    BY <1>3, <2>1
  <2> QED
    BY <1>5, <2>1, <2>2, FollowFacts
<1> HIDE DEF G
<1>6. m \in G
  BY <1>1, <1>4, <1>5, Induction
<1> QED
  BY <1>1, <1>2, <1>6 DEF G

-----------------------------------------------------------------------------
(* Heaps *)

(* Nothing in the heap h dangles.                                          *)
Closed(h) ==
  /\ IsFiniteSet(DOMAIN h)
  /\ \A i \in DOMAIN h : IsObject(h[i]) /\ Refs(h[i]) \subseteq DOMAIN h

(* g is what a collection, or none, has left of h.                         *)
Left(g, h) == DOMAIN g \subseteq DOMAIN h /\ \A i \in DOMAIN g : g[i] = h[i]

(* A collection keeps the roots and all that they refer to.                *)
LEMMA CollectionKeeps ==
  ASSUME NEW h, Closed(h), NEW ids, ids \subseteq DOMAIN h, NEW off, NEW g \in AfterGc(h, ids, off)
  PROVE  Closed(g) /\ Left(g, h) /\ ids \subseteq DOMAIN g /\ (off => g = h)
<1>1. CASE g = h
  BY <1>1 DEF Left
<1>2. CASE g # h
  <2> DEFINE S == DOMAIN h \cap Reach(h, ids)
  <2>1. ~off /\ g = [i \in S |-> h[i]]
    BY <1>2 DEF AfterGc, Restrict
  <2>2. DOMAIN g = S /\ \A i \in S : g[i] = h[i]
    BY <2>1
  <2>3. IsFiniteSet(S)
    BY FS_Subset DEF Closed
  <2>4. ids \subseteq S
    BY ReachRoots DEF Closed
  <2>5. \A i \in S : Refs(h[i]) \subseteq S
    BY ReachStep DEF Closed
  <2> HIDE DEF S
  <2>6. S \subseteq DOMAIN h
    BY DEF S
  <2> QED
    BY <2>1, <2>2, <2>3, <2>4, <2>5, <2>6 DEF Closed, Left
<1> QED
  BY <1>1, <1>2

(* A new object that refers to what exists.                                *)
LEMMA NewObject ==
  ASSUME NEW h, Closed(h), NEW id, id \notin DOMAIN h, NEW obj, IsObject(obj),
         Refs(obj) \subseteq DOMAIN h
  PROVE  Closed(With(h, id, obj))
<1> DEFINE g == With(h, id, obj)
<1>0. \A y \in DOMAIN h : y # id
  OBVIOUS
<1>1. /\ DOMAIN g = DOMAIN h \cup {id} /\ g[id] = obj
      /\ \A y \in DOMAIN h : g[y] = h[y]
  BY <1>0 DEF With
<1> HIDE DEF g
<1>2. IsFiniteSet(DOMAIN g)
  BY <1>1, FS_AddElement DEF Closed
<1>3. ASSUME NEW i \in DOMAIN g PROVE IsObject(g[i]) /\ Refs(g[i]) \subseteq DOMAIN g
  <2>1. CASE i = id
    BY <1>1, <2>1
  <2>2. CASE i \in DOMAIN h
    BY <1>1, <2>2 DEF Closed
  <2> QED
    BY <1>1, <1>3, <2>1, <2>2
<1>4. Closed(g)
  BY <1>2, <1>3 DEF Closed
<1> QED
  BY <1>4 DEF g

(* The objects that are made.                                              *)
LEMMA StringMade ==
  ASSUME NEW s
  PROVE  IsObject(StringObject(s)) /\ Refs(StringObject(s)) = {}
<1>1. <<>> \in Seq(Nat) /\ ToSet(<<>>) = {}
  BY DEF ToSet
<1> QED
  BY <1>1 DEF IsObject, Refs, StringObject

(* A string that is interned is in the heap then, and is the only new      *)
(* object.                                                                 *)
LEMMA InternKeeps ==
  ASSUME NEW h, Closed(h), NEW s, NEW n \in Nat, DOMAIN h \subseteq 1..n,
         NEW r, r = intern_string(h, s, n + 1)
  PROVE  /\ Closed(r.h) /\ DOMAIN h \subseteq DOMAIN r.h /\ r.id \in DOMAIN r.h
         /\ \A i \in DOMAIN h : r.h[i] = h[i]
         /\ DOMAIN r.h \subseteq 1..(n + 1)
         /\ r.id # n + 1 => r.h = h
<1>0. n + 1 \notin DOMAIN h /\ 1..n \subseteq 1..(n + 1) /\ n + 1 \in 1..(n + 1)
  OBVIOUS
<1>1. CASE Interned(h, s) = {}
  <2>1. r.h = With(h, n + 1, StringObject(s)) /\ r.id = n + 1
    BY <1>1 DEF intern_string
  <2>2. Closed(r.h)
    BY <1>0, <2>1, NewObject, StringMade
  <2>3. /\ DOMAIN r.h = DOMAIN h \cup {n + 1}
        /\ \A i \in DOMAIN h : r.h[i] = h[i]
    <3>1. \A i \in DOMAIN h : i # n + 1
      BY <1>0
    <3> QED
      BY <2>1, <3>1 DEF With
  <2>4. r.id \in DOMAIN r.h /\ DOMAIN r.h \subseteq 1..(n + 1)
    BY <1>0, <2>1, <2>3
  <2> QED
    BY <2>1, <2>2, <2>3, <2>4
<1>2. CASE Interned(h, s) # {}
  <2>1. r.h = h /\ r.id \in Interned(h, s)
    BY <1>2 DEF intern_string
  <2>2. r.id \in DOMAIN h
    BY <2>1 DEF Interned
  <2>3. DOMAIN r.h \subseteq 1..(n + 1)
    BY <1>0, <2>1
  <2> QED
    BY <2>1, <2>2, <2>3
<1> QED
  BY <1>1, <1>2

(* An object that gets another constant, which exists.                     *)
LEMMA ConstantAdded ==
  ASSUME NEW h, Closed(h), NEW i \in DOMAIN h, NEW x \in DOMAIN h, x \in Nat
  PROVE  LET g == [h EXCEPT ![i].constants = Append(@, x)]
         IN  /\ Closed(g) /\ DOMAIN g = DOMAIN h
             /\ \A j \in DOMAIN h : g[j].name = h[j].name
<1> DEFINE obj == [h[i] EXCEPT !.constants = Append(@, x)]
           g == [h EXCEPT ![i].constants = Append(@, x)]
<1>1. IsObject(h[i]) /\ Refs(h[i]) \subseteq DOMAIN h
  BY DEF Closed
<1>2. obj.constants = Append(h[i].constants, x) /\ obj.name = h[i].name /\ DOMAIN obj = DOMAIN h[i]
  BY <1>1 DEF IsObject
<1>3. ToSet(Append(h[i].constants, x)) = ToSet(h[i].constants) \cup {x}
  <2>1. PICK c \in Seq(Nat) : c = h[i].constants
    BY <1>1 DEF IsObject
  <2>2. /\ DOMAIN Append(c, x) = 1..(Len(c) + 1) /\ DOMAIN c = 1..Len(c) /\ Len(c) \in Nat
        /\ \A k \in 1..Len(c) : Append(c, x)[k] = c[k]
        /\ Append(c, x)[Len(c) + 1] = x
    BY <2>1
  <2>3. ToSet(Append(c, x)) = ToSet(c) \cup {x}
    BY <2>2 DEF ToSet
  <2> QED
    BY <2>1, <2>3
<1>4. IsObject(obj)
  BY <1>1, <1>2 DEF IsObject
<1> HIDE DEF obj
<1>5. Refs(obj) \subseteq DOMAIN h
  BY <1>1, <1>2, <1>3 DEF Refs
<1>6. DOMAIN g = DOMAIN h /\ g[i] = obj /\ \A j \in DOMAIN h : j # i => g[j] = h[j]
  BY DEF obj
<1> HIDE DEF g
<1>7. Closed(g) /\ \A j \in DOMAIN h : g[j].name = h[j].name
  BY <1>2, <1>4, <1>5, <1>6 DEF Closed
<1> QED
  BY <1>6, <1>7 DEF g

(* An object whose code changes.                                           *)
LEMMA CodeChanged ==
  ASSUME NEW h, Closed(h), NEW i \in DOMAIN h, NEW c
  PROVE  LET g == [h EXCEPT ![i].code = Append(@, c)]
         IN  /\ Closed(g) /\ DOMAIN g = DOMAIN h
             /\ \A j \in DOMAIN h : g[j].name = h[j].name
<1> DEFINE obj == [h[i] EXCEPT !.code = Append(@, c)]
           g == [h EXCEPT ![i].code = Append(@, c)]
<1>1. IsObject(h[i]) /\ Refs(h[i]) \subseteq DOMAIN h
  BY DEF Closed
<1>2. /\ obj.constants = h[i].constants /\ obj.name = h[i].name
      /\ DOMAIN obj = DOMAIN h[i]
  BY <1>1 DEF IsObject
<1>3. IsObject(obj) /\ Refs(obj) = Refs(h[i])
  BY <1>1, <1>2 DEF IsObject, Refs
<1>4. DOMAIN g = DOMAIN h /\ g[i] = obj /\ \A j \in DOMAIN h : j # i => g[j] = h[j]
  OBVIOUS
<1> HIDE DEF obj, g
<1>5. Closed(g) /\ \A j \in DOMAIN h : g[j].name = h[j].name
  BY <1>1, <1>2, <1>3, <1>4 DEF Closed
<1> QED
  BY <1>4, <1>5 DEF g

-----------------------------------------------------------------------------
(* Sequences *)

(* The elements of short and of longer sequences.                          *)
LEMMA Elements ==
  /\ <<>> \in Seq(Nat) /\ ToSet(<<>>) = {}
  /\ \A x \in Nat : <<x>> \in Seq(Nat) /\ ToSet(<<x>>) = {x} /\ Len(<<x>>) = 1
  BY DEF ToSet

(* One element more.                                                       *)
LEMMA ElementsAppend ==
  ASSUME NEW c \in Seq(Nat), NEW x \in Nat
  PROVE  /\ Append(c, x) \in Seq(Nat) /\ Len(Append(c, x)) = Len(c) + 1
         /\ ToSet(Append(c, x)) = ToSet(c) \cup {x}
<1>1. /\ DOMAIN Append(c, x) = 1..(Len(c) + 1) /\ DOMAIN c = 1..Len(c) /\ Len(c) \in Nat
      /\ \A k \in 1..Len(c) : Append(c, x)[k] = c[k]
      /\ Append(c, x)[Len(c) + 1] = x
  OBVIOUS
<1>2. ToSet(Append(c, x)) = ToSet(c) \cup {x}
  BY <1>1 DEF ToSet
<1> QED
  BY <1>2

(* The last element is one, and the others stay when it goes.              *)
LEMMA ElementsFront ==
  ASSUME NEW c \in Seq(Nat), c # <<>>
  PROVE  /\ Last(c) \in ToSet(c) /\ Last(c) \in Nat /\ Len(c) \in Nat \ {0}
         /\ Enclosing(c) \in Seq(Nat) /\ Len(Enclosing(c)) = Len(c) - 1
         /\ ToSet(Enclosing(c)) \subseteq ToSet(c)
<1>1. Len(c) \in Nat \ {0} /\ DOMAIN c = 1..Len(c)
  BY EmptySeq
<1>2. /\ Enclosing(c) \in Seq(Nat) /\ Len(Enclosing(c)) = Len(c) - 1
      /\ \A i \in 1..(Len(c) - 1) : Enclosing(c)[i] = c[i]
  BY <1>1 DEF Enclosing
<1>3. DOMAIN Enclosing(c) = 1..(Len(c) - 1) /\ 1..(Len(c) - 1) \subseteq 1..Len(c)
  BY <1>1, <1>2
<1>4. ToSet(Enclosing(c)) \subseteq ToSet(c)
  BY <1>1, <1>2, <1>3 DEF ToSet
<1>5. Last(c) \in ToSet(c) /\ Last(c) \in Nat
  BY <1>1 DEF Last, ToSet
<1> QED
  BY <1>1, <1>2, <1>4, <1>5

(* get_global() adds nothing but the name it is asked for.                 *)
LEMMA GlobalAdded ==
  ASSUME names \in Seq(Nat), NEW x \in Nat
  PROVE  get_global(x) \in Seq(Nat) /\ ToSet(get_global(x)) \subseteq ToSet(names) \cup {x}
<1>1. CASE Contains(names, x)
  BY <1>1 DEF get_global
<1>2. CASE ~Contains(names, x)
  BY <1>2, ElementsAppend DEF get_global
<1> QED
  BY <1>1, <1>2

-----------------------------------------------------------------------------
(* The functions that have begun and ended *)

Seen(s, n, e) == {i \in 1..(n - 1) : s[i].e = e}
Count(s, n, e) == Cardinality(Seen(s, n, e))

(* Nothing has been seen at the first event.                               *)
LEMMA NoneSeen == \A s, e : Count(s, 1, e) = 0
<1> SUFFICES ASSUME NEW s, NEW e PROVE Count(s, 1, e) = 0
  OBVIOUS
<1>1. Seen(s, 1, e) = {}
  BY DEF Seen
<1> QED
  BY <1>1, FS_EmptySet DEF Count

(* An event counts for its kind and for no other.                          *)
LEMMA SeenNext ==
  ASSUME NEW s, NEW n \in Nat, n >= 1, NEW e
  PROVE  /\ Count(s, n, e) \in Nat
         /\ s[n].e = e => Count(s, n + 1, e) = Count(s, n, e) + 1
         /\ s[n].e # e => Count(s, n + 1, e) = Count(s, n, e)
<1>1. IsFiniteSet(1..(n - 1))
  BY FS_Interval
<1>2. IsFiniteSet(Seen(s, n, e)) /\ Count(s, n, e) \in Nat
  BY <1>1, FS_Subset, FS_CardinalityType DEF Seen, Count
<1>3. 1..((n + 1) - 1) = 1..(n - 1) \cup {n} /\ n \notin 1..(n - 1)
  OBVIOUS
<1>4. CASE s[n].e = e
  <2>1. Seen(s, n + 1, e) = Seen(s, n, e) \cup {n} /\ n \notin Seen(s, n, e)
    BY <1>3, <1>4 DEF Seen
  <2> QED
    BY <1>2, <1>4, <2>1, FS_AddElement DEF Count
<1>5. CASE s[n].e # e
  <2>1. Seen(s, n + 1, e) = Seen(s, n, e)
    BY <1>3, <1>5 DEF Seen
  <2> QED
    BY <1>2, <1>5, <2>1 DEF Count
<1> QED
  BY <1>2, <1>4, <1>5

-----------------------------------------------------------------------------
(* The parts of the invariant, for one state *)

Pcs == Before \cup Reading \cup {"natives", "compile", "start", "running"}

(* There is one compiler for each function that has begun and not ended.   *)
Counted ==
  pc = "compile" => Len(compilers) = Count(source, at, "begin") - Count(source, at, "end")

Inv == FileOk /\ HeapClosed /\ Kept /\ Stages /\ pc \in Pcs /\ Counted

(* What the stages say of the stack, and so of the type.                   *)
LEMMA InvMeans == Inv <=> LoaderInv
<1>1. TypeOK => pc \in Pcs /\ Counted
  BY DEF TypeOK, Pcs, Counted, Before, Reading, Count, Seen
<1>2. ASSUME Inv PROVE TypeOK
  <2>1. file = NoFile \/ (file.source \in Sources /\ file.pieces \in 0..5)
    BY <1>2 DEF Inv, FileOk
  <2>2. Len(evalstack) <= 1
    <3>1. evalstack = <<>> \/ Len(evalstack) = 1
      BY <1>2 DEF Inv, Stages, Pcs, Before, Reading
    <3>2. Len(<<>>) = 0
      OBVIOUS
    <3>3. CASE evalstack = <<>>
      BY <3>2, <3>3
    <3>4. CASE Len(evalstack) = 1
      BY <3>4
    <3> QED
      BY <3>1, <3>3, <3>4
  <2>3. \A i \in DOMAIN heap : i <= objects_created
    BY <1>2 DEF Inv, HeapClosed
  <2>4. gc_disabled \in BOOLEAN
    BY <1>2 DEF Inv, Stages
  <2>5. pc = "compile" =>
          Len(compilers) = LET seen(e) == {i \in 1..(at - 1) : source[i].e = e}
                           IN Cardinality(seen("begin")) - Cardinality(seen("end"))
    BY <1>2 DEF Inv, Counted, Count, Seen
  <2> QED
    BY <1>2, <2>1, <2>2, <2>3, <2>4, <2>5 DEF TypeOK, Inv, Pcs, Before, Reading
<1> QED
  BY <1>1, <1>2 DEF Inv, LoaderInv

(* The heap of a state is closed, and has what the roots refer to.         *)
LEMMA InvHeap ==
  ASSUME HeapClosed, Kept
  PROVE  /\ Closed(heap) /\ objects_created \in Nat /\ DOMAIN heap \subseteq 1..objects_created
         /\ Roots \subseteq DOMAIN heap /\ NewId \in Nat /\ NewId \notin DOMAIN heap
         /\ DOMAIN heap \subseteq Nat
<1>1. objects_created \in Nat /\ DOMAIN heap \subseteq 1..objects_created /\ Closed(heap)
  BY DEF HeapClosed, Closed
<1>2. Roots \subseteq DOMAIN heap
  BY DEF Kept, Needed
<1>3. NewId \in Nat /\ NewId \notin DOMAIN heap
  BY <1>1 DEF NewId
<1> QED
  BY <1>1, <1>2, <1>3

-----------------------------------------------------------------------------
(* The steps that leave the heap alone *)

(* Nothing is there at first.                                              *)
LEMMA NothingThere == DOMAIN NoObjects = {} /\ IsFiniteSet(DOMAIN NoObjects)
  BY FS_EmptySet DEF NoObjects

(* The process has no objects at first.                                    *)
LEMMA InitInv == Init => Inv
<1> SUFFICES ASSUME Init PROVE Inv
  OBVIOUS
<1>1. FileOk
  BY DEF Init, FileOk, NoFile
<1>2. HeapClosed
  BY NothingThere DEF Init, HeapClosed
<1>3. Roots = {} /\ Needed = {}
  BY Elements DEF Init, Roots, Needed
<1>4. Kept
  BY <1>3, Elements DEF Init, Kept
<1>5. Stages
  BY DEF Init, Stages, Before, Reading
<1>6. pc \in Pcs /\ Counted
  BY DEF Init, Pcs, Before, Counted
<1> QED
  BY <1>1, <1>2, <1>4, <1>5, <1>6 DEF Inv

(* The process that writes the file changes nothing of the other one.      *)
LEMMA WriterKeeps ==
  ASSUME Inv, UNCHANGED <<pc, at, control, heap, objects_created, gc_disabled, evalstack,
                          names, values, compilers, strings, functions, script>>,
         FileOk', file.exists => file.exists'
  PROVE  Inv'
<1>1. HeapClosed'
  BY DEF Inv, HeapClosed
<1>2. Needed' = Needed
  BY DEF Needed, Roots
<1>5. Kept'
  BY <1>2 DEF Inv, Kept
<1>3. Stages'
  BY DEF Inv, Stages, control
<1>4. pc' \in Pcs /\ Counted'
  BY DEF Inv, Counted, control
<1> QED
  BY <1>1, <1>3, <1>4, <1>5 DEF Inv

(* compile_file() and whatever happens to the file.                        *)
LEMMA WriterInv ==
  ASSUME Inv, (\E s \in Sources : CompileFile(s)) \/ write \/ WriterEnds \/ Damage
  PROVE  Inv'
<1>1. CASE \E s \in Sources : CompileFile(s)
  <2>1. PICK s \in Sources : CompileFile(s)
    BY <1>1
  <2>2. FileOk'
    BY <2>1 DEF CompileFile, FileOk
  <2>3. file'.exists
    BY <2>1 DEF CompileFile
  <2> QED
    BY <2>1, <2>2, <2>3, WriterKeeps DEF CompileFile
<1>2. CASE write
  <2>1. file.exists
    BY <1>2 DEF Inv, FileOk, write, NoFile
  <2>2. FileOk' /\ file'.exists
    BY <1>2, <2>1 DEF Inv, FileOk, write
  <2> QED
    BY <1>2, <2>2, WriterKeeps DEF write
<1>3. CASE WriterEnds
  <2>1. FileOk' /\ (file.exists => file'.exists)
    BY <1>3 DEF Inv, FileOk, WriterEnds
  <2> QED
    BY <1>3, <2>1, WriterKeeps DEF WriterEnds
<1>4. CASE Damage
  <2>1. file.exists
    BY <1>4 DEF Inv, FileOk, Damage, NoFile
  <2>2. FileOk' /\ file'.exists
    BY <1>4, <2>1 DEF Inv, FileOk, Damage
  <2> QED
    BY <1>4, <2>2, WriterKeeps DEF Damage
<1> QED
  BY <1>1, <1>2, <1>3, <1>4

(* The end of a process.                                                   *)
LEMMA ExitInv ==
  ASSUME Inv, Exit
  PROVE  Inv'
<1>1. FileOk'
  BY DEF Inv, FileOk, Exit, writer
<1>2. HeapClosed'
  BY NothingThere DEF HeapClosed, Exit
<1>3. Needed' = {}
  BY Elements DEF Needed, Roots, Exit
<1>4. Kept'
  BY <1>3, Elements DEF Kept, Exit
<1>5. Stages'
  BY DEF Exit, Stages, Before, Reading
<1>6. pc' \in Pcs /\ Counted'
  BY DEF Exit, Pcs, Before, Counted
<1> QED
  BY <1>1, <1>2, <1>4, <1>5, <1>6 DEF Inv

(* The heap and what refers to it stay, and loading has not begun.         *)
LEMMA StayKeeps ==
  ASSUME Inv, UNCHANGED writer, UNCHANGED <<heap, objects_created, evalstack, names, values,
                                            compilers, strings, functions, script>>,
         pc \in Before, pc' \in Pcs \ {"chunks", "compile"}, Stages'
  PROVE  Inv'
<1>1. HeapClosed' /\ FileOk'
  BY DEF Inv, HeapClosed, FileOk, writer
<1>2. {strings[o] : o \in DOMAIN strings} = {}
  BY NothingThere DEF Inv, Stages
<1>3. Needed' = Needed
  BY <1>2 DEF Needed, Roots, Before, Reading
<1>4. Kept'
  BY <1>3 DEF Inv, Kept
<1>5. pc' \in Pcs /\ Counted'
  BY DEF Counted
<1> QED
  BY <1>1, <1>4, <1>5 DEF Inv

(* A process begins.                                                       *)
LEMMA BeginsInv ==
  ASSUME Inv, RunFile \/ (\E s \in Sources : RunScript(s))
  PROVE  Inv'
<1>1. CASE RunFile
  <2>1. pc \in Before /\ pc' \in Pcs \ {"chunks", "compile"}
    BY <1>1 DEF RunFile, Begins, Before, Pcs
  <2>2. Stages'
    BY <1>1 DEF Inv, Stages, RunFile, Begins, Before, Reading, writer
  <2> QED
    BY <1>1, <2>1, <2>2, StayKeeps DEF RunFile, Begins
<1>2. CASE \E s \in Sources : RunScript(s)
  <2>1. PICK s \in Sources : RunScript(s)
    BY <1>2
  <2>2. pc \in Before /\ pc' \in Pcs \ {"chunks", "compile"}
    BY <2>1 DEF RunScript, Begins, Before, Pcs
  <2>3. Stages'
    <3>1. /\ pc' = "natives" /\ at' = 1 /\ ~from_file' /\ from_file' \in BOOLEAN
          /\ source' \in Scripts /\ ~gc_disabled' /\ gc_disabled' \in BOOLEAN
          /\ evalstack' = <<>> /\ compilers' = <<>> /\ script' = 0
      BY <2>1 DEF Inv, Stages, RunScript, Begins, Before, Scripts
    <3> QED
      BY <3>1 DEF Stages, Before, Reading
  <2> QED
    BY <2>1, <2>2, <2>3, StayKeeps DEF RunScript, Begins
<1> QED
  BY <1>1, <1>2

(* The file is looked at.                                                  *)
LEMMA LookInv ==
  ASSUME Inv, CheckMagic \/ ReadText \/ FindSize \/ ReadBytes
  PROVE  Inv'
<1>1. CASE CheckMagic
  <2>1. pc \in Before /\ pc' \in Pcs \ {"chunks", "compile"}
    BY <1>1 DEF CheckMagic, Before, Pcs
  <2>2. Stages'
    BY <1>1 DEF Inv, Stages, CheckMagic, Before, Reading, writer, control, Stay
  <2> QED
    BY <1>1, <2>1, <2>2, StayKeeps DEF CheckMagic, Stay
<1>2. CASE ReadText /\ ~Exit
  <2>1. pc \in Before /\ pc' \in Pcs \ {"chunks", "compile"}
    BY <1>2 DEF ReadText, Before, Pcs
  <2>2. Stages'
    <3>1. /\ pc' = "natives" /\ at' = 1 /\ ~from_file' /\ from_file' \in BOOLEAN
          /\ source' \in Scripts /\ ~gc_disabled' /\ gc_disabled' \in BOOLEAN
          /\ evalstack' = <<>> /\ compilers' = <<>> /\ script' = 0
      BY <1>2 DEF Inv, Stages, ReadText, Before, Scripts, Stay
    <3> QED
      BY <3>1 DEF Stages, Before, Reading
  <2> QED
    BY <1>2, <2>1, <2>2, StayKeeps DEF ReadText, Stay
<1>3. CASE FindSize
  <2>1. pc \in Before /\ pc' \in Pcs \ {"chunks", "compile"}
    BY <1>3 DEF FindSize, Before, Pcs
  <2>2. Stages'
    BY <1>3 DEF Inv, Stages, FindSize, Before, Reading, writer, Stay
  <2> QED
    BY <1>3, <2>1, <2>2, StayKeeps DEF FindSize, Stay
<1>4. CASE ReadBytes /\ ~Exit
  <2>1. pc \in Before /\ pc' \in Pcs \ {"chunks", "compile"}
    BY <1>4 DEF ReadBytes, Before, Pcs, Reading
  <2>2. source' \in Sources /\ bytecode' = Images[source']
    BY <1>4 DEF Inv, FileOk, Stages, Before, ReadBytes, Accepted
  <2>3. Stages'
    <3>1. /\ pc' = "strings" /\ at' = 1 /\ from_file' = TRUE /\ gc_disabled' = TRUE
          /\ evalstack' = <<>> /\ compilers' = <<>> /\ script' = 0
          /\ strings' = NoObjects /\ functions' = NoObjects
      BY <1>4 DEF Inv, Stages, ReadBytes, LoadWith, Before
    <3> QED
      BY <2>2, <3>1 DEF Stages, Before, Reading
  <2> QED
    BY <1>4, <2>1, <2>3, StayKeeps DEF ReadBytes
<1> QED
  BY <1>1, <1>2, <1>3, <1>4, ExitInv

-----------------------------------------------------------------------------
(* The steps of deserialize_program() *)

(* intern_string() in what a collection has left of the heap.              *)
LEMMA InternState ==
  ASSUME objects_created \in Nat, NEW h, Closed(h), DOMAIN h \subseteq 1..objects_created, NEW s,
         NEW r, r = intern_string(h, s, NewId)
  PROVE  /\ Closed(r.h) /\ DOMAIN h \subseteq DOMAIN r.h /\ \A i \in DOMAIN h : r.h[i] = h[i]
         /\ Created(r) \in Nat /\ DOMAIN r.h \subseteq 1..Created(r)
         /\ Created(r) <= NewId
         /\ r.id \in DOMAIN r.h /\ r.id \in Nat \ {0}
<1>0. PICK n \in Nat : n = objects_created
  OBVIOUS
<1>1. r = intern_string(h, s, n + 1) /\ DOMAIN h \subseteq 1..n
  BY <1>0 DEF NewId
<1>2. /\ Closed(r.h) /\ DOMAIN h \subseteq DOMAIN r.h /\ r.id \in DOMAIN r.h
      /\ \A i \in DOMAIN h : r.h[i] = h[i]
      /\ DOMAIN r.h \subseteq 1..(n + 1)
      /\ r.id # n + 1 => r.h = h
  BY <1>1, InternKeeps
<1>3. Created(r) \in Nat /\ DOMAIN r.h \subseteq 1..Created(r) /\ Created(r) <= NewId
  BY <1>0, <1>1, <1>2 DEF Created, NewId
<1> QED
  BY <1>2, <1>3

(* A collection for an allocation.                                         *)
LEMMA CollectState ==
  ASSUME HeapClosed, Kept, NEW ids, Roots \subseteq ids, ids \subseteq DOMAIN heap, NEW off,
         NEW h \in AfterGc(heap, ids, off)
  PROVE  /\ Closed(h) /\ DOMAIN h \subseteq 1..objects_created /\ ids \subseteq DOMAIN h
         /\ \A i \in DOMAIN h : h[i] = heap[i]
         /\ Roots \subseteq DOMAIN h /\ (off => h = heap)
<1>1. Closed(heap)
  BY InvHeap
<1>2. Closed(h) /\ Left(h, heap) /\ ids \subseteq DOMAIN h /\ (off => h = heap)
  BY <1>1, CollectionKeeps, Zenon
<1> QED
  BY <1>2, InvHeap DEF Left

(* A string is loaded: it exists, and the collector is off.                *)
LEMMA LoadStringInv ==
  ASSUME Inv, LoadString
  PROVE  Inv'
<1>1. /\ pc = "strings" /\ gc_disabled /\ script = 0 /\ functions = NoObjects
      /\ evalstack = <<>> /\ compilers = <<>> /\ at >= 1 /\ at \in Nat /\ from_file
  BY DEF Inv, Stages, LoadString, Before, Reading
<1>2. PICK h \in AfterGc(heap, Roots, gc_disabled) :
        LET r == intern_string(h, bytecode.strings[at], NewId)
        IN /\ heap' = r.h /\ objects_created' = Created(r)
           /\ strings' = With(strings, StringOffset(bytecode.strings, at), r.id)
  BY DEF LoadString
<1>3. /\ Closed(h) /\ DOMAIN h \subseteq 1..objects_created /\ h = heap
      /\ objects_created \in Nat
  BY <1>1, CollectState, InvHeap DEF Inv
<1>4. PICK r, o : /\ r = intern_string(h, bytecode.strings[at], NewId)
                  /\ heap' = r.h /\ objects_created' = Created(r)
                  /\ strings' = With(strings, o, r.id)
  BY <1>2
<1>5. /\ Closed(r.h) /\ DOMAIN h \subseteq DOMAIN r.h /\ Created(r) \in Nat
      /\ DOMAIN r.h \subseteq 1..Created(r) /\ r.id \in DOMAIN r.h
  BY <1>3, <1>4, InternState, Zenon
<1>6. HeapClosed'
  BY <1>4, <1>5 DEF Closed, HeapClosed
<1>7. {strings'[y] : y \in DOMAIN strings'} \subseteq {strings[y] : y \in DOMAIN strings} \cup {r.id}
  <2>1. PICK f, u : f = strings /\ u = strings'
    OBVIOUS
  <2>2. u = With(f, o, r.id)
    BY <1>4, <2>1
  <2>3. {u[y] : y \in DOMAIN u} \subseteq {f[y] : y \in DOMAIN f} \cup {r.id}
    BY <2>2 DEF With
  <2> QED
    BY <2>1, <2>3
<1>8. Needed' \subseteq Needed \cup {r.id} /\ Needed \subseteq DOMAIN h
  <2>1. Roots' = Roots /\ pc' = pc /\ script' = script
    BY DEF LoadString, Roots
  <2>2. Needed \subseteq DOMAIN h
    BY <1>3 DEF Inv, Kept
  <2> QED
    BY <1>1, <1>7, <2>1, <2>2 DEF Needed
<1>9. Kept'
  <2>1. Needed' \subseteq DOMAIN heap'
    BY <1>4, <1>5, <1>8
  <2> QED
    BY <2>1 DEF Inv, Kept, LoadString
<1>10. Stages'
  BY <1>1 DEF Inv, Stages, LoadString, NextAt, control, writer, Before, Reading
<1>11. FileOk' /\ pc' \in Pcs /\ Counted'
  BY <1>1 DEF Inv, FileOk, LoadString, writer, Counted
<1> QED
  BY <1>6, <1>9, <1>10, <1>11 DEF Inv

(* What the table of globals names is a sequence of loaded strings.        *)
LEMMA GlobalTable ==
  ASSUME NEW table \in Seq([name : Nat, is_const : BOOLEAN]), NEW ss, TableOk(table, ss),
         {ss[o] : o \in DOMAIN ss} \subseteq Nat
  PROVE  /\ deserialize_global_table(table, ss).names \in Seq(Nat)
         /\ ToSet(deserialize_global_table(table, ss).names) \subseteq {ss[o] : o \in DOMAIN ss}
<1> DEFINE ns == [i \in DOMAIN table |-> ss[table[i].name]]
<1>1. deserialize_global_table(table, ss).names = ns
  BY DEF deserialize_global_table
<1>2. \A i \in DOMAIN table : ss[table[i].name] \in {ss[o] : o \in DOMAIN ss}
  BY DEF TableOk
<1>3. DOMAIN table = 1..Len(table) /\ Len(table) \in Nat
  OBVIOUS
<1>4. ns \in Seq(Nat)
  BY <1>2, <1>3
<1>5. ToSet(ns) \subseteq {ss[o] : o \in DOMAIN ss}
  BY <1>2 DEF ToSet
<1> QED
  BY <1>1, <1>4, <1>5

(* The table of globals is read: its names are loaded strings.             *)
LEMMA LoadGlobalsInv ==
  ASSUME Inv, LoadGlobals
  PROVE  Inv'
<1> SUFFICES ASSUME ~Exit PROVE Inv'
  BY ExitInv
<1>1. /\ pc = "strings" /\ gc_disabled /\ script = 0 /\ functions = NoObjects
      /\ evalstack = <<>> /\ compilers = <<>> /\ from_file
      /\ source \in Sources /\ bytecode = Images[source]
  BY DEF Inv, Stages, LoadGlobals, Before, Reading
<1>2. /\ TableOk(bytecode.globals, strings)
      /\ names' = deserialize_global_table(bytecode.globals, strings).names
      /\ pc' = "chunks" /\ at' = 1
      /\ UNCHANGED <<writer, control, heap, objects_created, gc_disabled, evalstack,
                     values, compilers, strings, functions, script>>
  BY DEF LoadGlobals
<1>3. {strings[o] : o \in DOMAIN strings} \subseteq DOMAIN heap
  BY <1>1 DEF Inv, Kept, Needed
<1>4. DOMAIN heap \subseteq Nat
  BY InvHeap DEF Inv
<1>5. /\ names' \in Seq(Nat)
      /\ ToSet(names') \subseteq {strings[o] : o \in DOMAIN strings}
  BY <1>1, <1>2, <1>3, <1>4, GlobalTable, ImagesAssumption
<1>6. HeapClosed' /\ FileOk'
  BY <1>2 DEF Inv, HeapClosed, FileOk, writer
<1>7. {functions[i] : i \in DOMAIN functions} = {}
  BY <1>1, NothingThere
<1>8. Needed' \subseteq Needed
  BY <1>1, <1>2, <1>5, <1>7 DEF Needed, Roots
<1>9. Kept'
  BY <1>2, <1>5, <1>8 DEF Inv, Kept
<1>10. Stages'
  BY <1>1, <1>2 DEF Inv, Stages, Before, Reading, control
<1>11. pc' \in Pcs /\ Counted'
  BY <1>2 DEF Pcs, Reading, Counted
<1> QED
  BY <1>6, <1>9, <1>10, <1>11 DEF Inv

Ids(cs, fs, ss) ==
  LET constants == deserialize_constant_pool(cs, fs, ss)
  IN [i \in DOMAIN constants |-> constants[i].v]

(* The constants of a chunk are strings and functions that are loaded.     *)
LEMMA ConstantPool ==
  ASSUME NEW cs \in Seq([type : {"F", "S"}, data : Nat]), NEW fs, NEW ss, PoolOk(cs, fs, ss), NEW D,
         {fs[i] : i \in DOMAIN fs} \subseteq D, {ss[o] : o \in DOMAIN ss} \subseteq D,
         D \subseteq Nat, NEW ids, ids = Ids(cs, fs, ss)
  PROVE  ids \in Seq(Nat) /\ ToSet(ids) \subseteq D
<1> DEFINE constants == deserialize_constant_pool(cs, fs, ss)
<1>1. DOMAIN cs = 1..Len(cs) /\ Len(cs) \in Nat
  OBVIOUS
<1>2. DOMAIN constants = DOMAIN cs
  BY DEF deserialize_constant_pool
<1>3. ASSUME NEW i \in DOMAIN cs PROVE constants[i].v \in D
  <2>0. cs[i] \in [type : {"F", "S"}, data : Nat]
    BY <1>1, ElementOfSeq
  <2>1. cs[i].type \in {"F", "S"}
    BY <2>0
  <2>2. CASE cs[i].type = "F"
    <3>1. constants[i] = [t |-> "fn", v |-> fs[cs[i].data]]
      BY <2>2 DEF deserialize_constant_pool
    <3>2. cs[i].data \in DOMAIN fs
      BY <2>2 DEF PoolOk
    <3> QED
      BY <3>1, <3>2
  <2>3. CASE cs[i].type = "S"
    <3>1. constants[i] = [t |-> "str", v |-> ss[cs[i].data]]
      BY <2>3 DEF deserialize_constant_pool
    <3>2. cs[i].data \in DOMAIN ss
      BY <2>3 DEF PoolOk
    <3> QED
      BY <3>1, <3>2
  <2> QED
    BY <2>1, <2>2, <2>3
<1> HIDE DEF constants
<1>4. ids = [i \in DOMAIN cs |-> constants[i].v]
  BY <1>2 DEF constants, Ids
<1>5. DOMAIN ids = 1..Len(cs) /\ \A i \in 1..Len(cs) : ids[i] \in D
  BY <1>1, <1>3, <1>4
<1>6. ids \in [1..Len(cs) -> Nat]
  BY <1>4, <1>1, <1>5
<1>7. ids \in Seq(Nat)
  BY <1>1, <1>6
<1>8. ToSet(ids) \subseteq D
  BY <1>5 DEF ToSet
<1> QED
  BY <1>7, <1>8

(* A function is loaded: what it refers to has been loaded.                *)
LEMMA LoadChunkInv ==
  ASSUME Inv, LoadChunk
  PROVE  Inv'
<1> SUFFICES ASSUME ~Exit PROVE Inv'
  BY ExitInv
<1> DEFINE D == DOMAIN heap
<1>1. /\ pc = "chunks" /\ gc_disabled /\ script = 0 /\ at >= 1 /\ at \in Nat
      /\ evalstack = <<>> /\ compilers = <<>> /\ from_file
      /\ source \in Sources /\ bytecode = Images[source] /\ at <= Len(bytecode.bytecode)
  BY DEF Inv, Stages, LoadChunk, Before, Reading
<1>2. PICK chunk : chunk = bytecode.bytecode[at]
  OBVIOUS
<1>3. chunk.constants \in Seq([type : {"F", "S"}, data : Nat])
  <2>1. PICK cs : cs = bytecode.bytecode
    OBVIOUS
  <2>2. cs \in Seq(Chunk)
    BY <1>1, <2>1, ImagesAssumption
  <2>3. Len(cs) \in Nat /\ at \in 1..Len(cs)
    BY <1>1, <2>1, <2>2
  <2>4. chunk \in Chunk
    BY <1>2, <2>1, <2>2, <2>3, ElementOfSeq
  <2> QED
    BY <2>4 DEF Chunk
<1>4. PICK ids : ids = Ids(chunk.constants, functions, strings)
  OBVIOUS
<1>5. /\ PoolOk(chunk.constants, functions, strings) /\ chunk.name \in DOMAIN strings
      /\ objects_created' = NewId /\ functions' = With(functions, chunk.id, NewId) /\ at' = at + 1
      /\ UNCHANGED <<writer, control, pc, gc_disabled, evalstack, names, values,
                     compilers, strings, script>>
  BY <1>2 DEF LoadChunk
<1>6. PICK h \in AfterGc(heap, Roots, gc_disabled) :
        heap' = With(h, NewId, Object("function", strings[chunk.name], ids, chunk.code))
  BY <1>2, <1>4 DEF LoadChunk, ConstantIds, Ids
<1>7. /\ Closed(heap) /\ DOMAIN heap \subseteq 1..objects_created /\ h = heap
      /\ objects_created \in Nat /\ NewId \notin D /\ D \subseteq Nat
  BY <1>1, CollectState, InvHeap DEF Inv
<1>8. {strings[o] : o \in DOMAIN strings} \subseteq D /\ {functions[i] : i \in DOMAIN functions} \subseteq D
  BY <1>1 DEF Inv, Kept, Needed
<1> HIDE DEF D
<1>9. ids \in Seq(Nat) /\ ToSet(ids) \subseteq D
  <2>1. PICK cs, fs, ss : cs = chunk.constants /\ fs = functions /\ ss = strings
    OBVIOUS
  <2>2. /\ PoolOk(cs, fs, ss) /\ cs \in Seq([type : {"F", "S"}, data : Nat])
        /\ ids = Ids(cs, fs, ss)
    BY <1>3, <1>4, <1>5, <2>1
  <2>3. {fs[i] : i \in DOMAIN fs} \subseteq D /\ {ss[o] : o \in DOMAIN ss} \subseteq D
    BY <1>8, <2>1
  <2> QED
    BY <1>7, <2>2, <2>3, ConstantPool
<1>10. strings[chunk.name] \in D /\ strings[chunk.name] \in Nat
  BY <1>5, <1>7, <1>8
<1>11. PICK obj : obj = Object("function", strings[chunk.name], ids, chunk.code)
  OBVIOUS
<1>12. IsObject(obj) /\ Refs(obj) \subseteq D
  <2>1. /\ IsObject(obj)
        /\ Refs(obj) = ({strings[chunk.name]} \cup ToSet(ids)) \ {0}
    BY <1>9, <1>10, <1>11 DEF IsObject, Refs, Object
  <2> QED
    BY <1>9, <1>10, <2>1
<1>13. heap' = With(heap, NewId, obj)
  BY <1>6, <1>7, <1>11
<1>14. Closed(heap') /\ DOMAIN heap' = D \cup {NewId}
  <2>1. Closed(With(heap, NewId, obj))
    BY <1>7, <1>12, NewObject DEF D
  <2>2. DOMAIN With(heap, NewId, obj) = D \cup {NewId}
    BY DEF With, D
  <2> QED
    BY <1>13, <2>1, <2>2
<1>15. HeapClosed'
  BY <1>5, <1>7, <1>14 DEF Closed, HeapClosed, NewId, D
<1>16. Needed' \subseteq Needed \cup {NewId} /\ Needed \subseteq D
  <2>1. Roots' = Roots /\ pc' = pc /\ script' = script /\ strings' = strings
    BY <1>5 DEF Roots
  <2>2. PICK f, u : f = functions /\ u = functions'
    OBVIOUS
  <2>3. u = With(f, chunk.id, NewId)
    BY <1>5, <2>2
  <2>4. {u[y] : y \in DOMAIN u} \subseteq {f[y] : y \in DOMAIN f} \cup {NewId}
    BY <2>3 DEF With
  <2>5. {functions'[y] : y \in DOMAIN functions'} \subseteq
          {functions[y] : y \in DOMAIN functions} \cup {NewId}
    BY <2>2, <2>4
  <2>6. Needed \subseteq D
    BY DEF Inv, Kept, D
  <2> QED
    BY <1>1, <2>1, <2>5, <2>6 DEF Needed
<1>17. Kept'
  <2>1. Needed' \subseteq DOMAIN heap'
    BY <1>14, <1>16
  <2> QED
    BY <1>5, <2>1 DEF Inv, Kept
<1>18. Stages'
  BY <1>1, <1>5 DEF Inv, Stages, control, Before, Reading
<1>19. FileOk' /\ pc' \in Pcs /\ Counted'
  BY <1>1, <1>5 DEF Inv, FileOk, writer, Counted
<1> QED
  BY <1>15, <1>17, <1>18, <1>19 DEF Inv

(* The script is the function with id 0, and exists.                       *)
LEMMA EndLoadInv ==
  ASSUME Inv, EndLoad
  PROVE  Inv'
<1> SUFFICES ASSUME ~Exit PROVE Inv'
  BY ExitInv
<1>1. /\ pc = "chunks" /\ evalstack = <<>> /\ compilers = <<>> /\ from_file
  BY DEF Inv, Stages, EndLoad, Before, Reading
<1>2. /\ 0 \in DOMAIN functions /\ script' = functions[0]
      /\ ~gc_disabled' /\ gc_disabled' \in BOOLEAN
      /\ pc' = "natives" /\ at' = 1
      /\ UNCHANGED <<writer, control, heap, objects_created, evalstack, names, values,
                     compilers, strings, functions>>
  BY DEF EndLoad
<1>3. script' \in DOMAIN heap
  BY <1>1, <1>2 DEF Inv, Kept, Needed
<1>4. script' \in Nat /\ script' # 0
  BY <1>3, InvHeap DEF Inv
<1>5. HeapClosed' /\ FileOk'
  BY <1>2 DEF Inv, HeapClosed, FileOk, writer
<1>6. Needed' \subseteq Needed \cup {script'}
  BY <1>2 DEF Needed, Roots
<1>7. Kept'
  BY <1>2, <1>3, <1>4, <1>6 DEF Inv, Kept
<1>8. Stages'
  BY <1>1, <1>2, <1>4 DEF Inv, Stages, Before, Reading, control
<1>9. pc' \in Pcs /\ Counted'
  BY <1>2 DEF Pcs, Counted
<1> QED
  BY <1>5, <1>7, <1>8, <1>9 DEF Inv

-----------------------------------------------------------------------------
(* The native functions *)

(* What is needed while they are registered: the roots and, when a program *)
(* has been loaded, its script, which no root refers to.  Then the         *)
(* collector is off.                                                       *)
LEMMA NativesKeep ==
  ASSUME Inv, pc = "natives", NEW off, off <=> from_file, NEW h \in AfterGc(heap, Roots, off)
  PROVE  /\ Closed(h) /\ DOMAIN h \subseteq 1..objects_created /\ Roots \subseteq DOMAIN h
         /\ Needed = Roots \cup ({script} \ {0}) /\ Needed \subseteq DOMAIN h
         /\ \A i \in DOMAIN h : h[i] = heap[i]
<1>1. Needed = Roots \cup ({script} \ {0}) /\ Needed \subseteq DOMAIN heap
  BY DEF Needed, Inv, Kept
<1>2. /\ Closed(h) /\ DOMAIN h \subseteq 1..objects_created /\ Roots \subseteq DOMAIN h
      /\ \A i \in DOMAIN h : h[i] = heap[i]
      /\ off => h = heap
  BY <1>1, CollectState DEF Inv
<1>3. Needed \subseteq DOMAIN h
  <2>1. CASE from_file
    BY <1>1, <1>2, <2>1
  <2>2. CASE ~from_file
    <3>1. script = 0
      BY <2>2 DEF Inv, Stages
    <3> QED
      BY <1>1, <1>2, <3>1
  <2> QED
    BY <2>1, <2>2
<1> QED
  BY <1>1, <1>2, <1>3

(* The name of a native function, which the stack then holds.              *)
LEMMA NativeNameInv ==
  ASSUME Inv, NativeName
  PROVE  Inv'
<1>1. /\ pc = "natives" /\ at = 1 /\ evalstack = <<>> /\ compilers = <<>>
      /\ from_file \in BOOLEAN
  BY DEF Inv, Stages, NativeName
<1>2. PICK h \in AfterGc(heap, Roots, from_file) :
        LET r == intern_string(h, "print", NewId)
        IN heap' = r.h /\ evalstack' = Append(evalstack, r.id) /\ objects_created' = Created(r)
  BY DEF NativeName
<1>3. PICK r : /\ r = intern_string(h, "print", NewId) /\ heap' = r.h
               /\ evalstack' = <<r.id>> /\ objects_created' = Created(r)
  BY <1>1, <1>2
<1>4. /\ Closed(h) /\ DOMAIN h \subseteq 1..objects_created
      /\ Needed = Roots \cup ({script} \ {0}) /\ Needed \subseteq DOMAIN h
  BY <1>1, NativesKeep
<1>5. objects_created \in Nat
  BY InvHeap DEF Inv
<1>6. /\ Closed(r.h) /\ DOMAIN h \subseteq DOMAIN r.h /\ Created(r) \in Nat
      /\ DOMAIN r.h \subseteq 1..Created(r) /\ r.id \in DOMAIN r.h /\ r.id \in Nat \ {0}
  BY <1>3, <1>4, <1>5, InternState, Zenon
<1>7. HeapClosed'
  BY <1>3, <1>6 DEF Closed, HeapClosed
<1>8. /\ gc_disabled' = from_file /\ at' = 2
      /\ UNCHANGED <<writer, control, pc, names, values, compilers, strings, functions, script>>
  BY DEF NativeName
<1>9. evalstack' \in Seq(Nat) /\ ToSet(evalstack') = {r.id} /\ Len(evalstack') = 1
  BY <1>3, <1>6, Elements
<1>10. Needed' \subseteq Needed \cup {r.id}
  BY <1>1, <1>4, <1>8, <1>9 DEF Needed, Roots
<1>11. Kept'
  <2>1. Needed' \subseteq DOMAIN heap'
    BY <1>3, <1>4, <1>6, <1>10
  <2> QED
    BY <1>8, <1>9, <2>1 DEF Inv, Kept
<1>12. Stages'
  BY <1>1, <1>8, <1>9 DEF Inv, Stages, control, Before, Reading
<1>13. FileOk' /\ pc' \in Pcs /\ Counted'
  BY <1>1, <1>8 DEF Inv, FileOk, writer, Counted
<1> QED
  BY <1>7, <1>11, <1>12, <1>13 DEF Inv

(* The native function, which a global then holds.                         *)
LEMMA NativeFunctionInv ==
  ASSUME Inv, NativeFunction
  PROVE  Inv'
<1>1. /\ pc = "natives" /\ at = 2 /\ Len(evalstack) = 1 /\ compilers = <<>>
      /\ gc_disabled <=> from_file
      /\ from_file \in BOOLEAN /\ evalstack \in Seq(Nat)
      /\ from_file => script # 0
      /\ ~from_file => script = 0 /\ source \in Scripts
  BY DEF Inv, Stages, Kept, NativeFunction
<1>2. PICK h \in AfterGc(heap, Roots, gc_disabled) :
        heap' = With(h, NewId, Object("native", 0, <<>>, <<>>))
  BY DEF NativeFunction
<1>3. /\ objects_created' = NewId /\ names' = get_global(Last(evalstack))
      /\ values' = values \cup {NewId} /\ evalstack' = <<>>
      /\ ~gc_disabled' /\ gc_disabled' \in BOOLEAN
      /\ pc' = (IF from_file THEN "start" ELSE "compile") /\ at' = 1
      /\ UNCHANGED <<writer, control, compilers, strings, functions, script>>
  BY DEF NativeFunction, NativesEnd
<1>4. /\ Closed(h) /\ DOMAIN h \subseteq 1..objects_created
      /\ Needed = Roots \cup ({script} \ {0}) /\ Needed \subseteq DOMAIN h
  BY <1>1, NativesKeep
<1>5. objects_created \in Nat /\ NewId = objects_created + 1 /\ NewId \notin DOMAIN h
  BY <1>4, InvHeap DEF Inv, NewId
<1>6. PICK obj : obj = Object("native", 0, <<>>, <<>>)
  OBVIOUS
<1>7. IsObject(obj) /\ Refs(obj) = {}
  BY <1>6, Elements DEF IsObject, Refs, Object
<1>8. Closed(heap') /\ DOMAIN heap' = DOMAIN h \cup {NewId}
  <2>1. Closed(With(h, NewId, obj))
    BY <1>4, <1>5, <1>7, NewObject
  <2>2. DOMAIN With(h, NewId, obj) = DOMAIN h \cup {NewId}
    BY DEF With
  <2> QED
    BY <1>2, <1>6, <2>1, <2>2
<1>9. HeapClosed'
  BY <1>3, <1>4, <1>5, <1>8 DEF Closed, HeapClosed
<1>10. Last(evalstack) \in ToSet(evalstack) /\ Last(evalstack) \in Nat
  <2>1. evalstack # <<>>
    BY <1>1
  <2> QED
    BY <1>1, <2>1, ElementsFront
<1>11. names' \in Seq(Nat) /\ ToSet(names') \subseteq ToSet(names) \cup ToSet(evalstack)
  BY <1>3, <1>10, GlobalAdded DEF Inv, Kept
<1>12. Needed' \subseteq Needed \cup {NewId}
  BY <1>1, <1>3, <1>4, <1>11, Elements DEF Needed, Roots
<1>13. Kept'
  <2>1. Needed' \subseteq DOMAIN heap'
    BY <1>4, <1>8, <1>12
  <2> QED
    BY <1>3, <1>5, <1>11, <2>1, Elements DEF Inv, Kept
<1>14. Stages'
  BY <1>1, <1>3 DEF Inv, Stages, control, Before, Reading
<1>15. FileOk' /\ pc' \in Pcs
  BY <1>3 DEF Inv, FileOk, writer, Pcs
<1>16. Counted'
  <2>1. Len(<<>>) = 0
    OBVIOUS
  <2> QED
    BY <1>1, <1>3, <2>1, NoneSeen DEF Counted, control
<1> QED
  BY <1>9, <1>13, <1>14, <1>15, <1>16 DEF Inv

-----------------------------------------------------------------------------
(* The compilers *)

(* A source begins with the beginning of the script.                       *)
LEMMA FirstEvent == \A s \in Scripts : s[1].e = "begin"
<1>1. \A s \in Sources : s[1] = Begin("")
  BY SourcesAssumption
<1>2. EmptyScript[1] = Begin("")
  BY DEF EmptyScript
<1>3. Begin("").e = "begin"
  BY DEF Begin
<1> QED
  BY <1>1, <1>2, <1>3 DEF Scripts

(* What is known while compile() runs: there is a current function after   *)
(* the first event.                                                        *)
LEMMA CompileFacts ==
  ASSUME Inv, pc = "compile"
  PROVE  /\ evalstack = <<>> /\ script = 0 /\ ~gc_disabled /\ at \in Nat /\ at >= 1
         /\ source \in Scripts /\ compilers \in Seq(Nat) /\ names \in Seq(Nat)
         /\ Needed = Roots /\ Roots \subseteq DOMAIN heap
         /\ ToSet(compilers) \subseteq Roots /\ 0 \notin ToSet(compilers)
         /\ compilers = <<>> => at = 1 /\ event.e = "begin"
<1>1. /\ evalstack = <<>> /\ script = 0 /\ ~gc_disabled /\ at \in Nat /\ at >= 1
      /\ source \in Scripts
      /\ compilers = <<>> <=> at = 1
  BY DEF Inv, Stages
<1>2. compilers \in Seq(Nat) /\ names \in Seq(Nat) /\ 0 \notin ToSet(compilers)
  BY DEF Inv, Kept
<1>3. Needed = Roots /\ Roots \subseteq DOMAIN heap
  BY <1>1, InvHeap DEF Inv, Needed
<1>4. ToSet(compilers) \subseteq Roots
  BY <1>2 DEF Roots
<1>5. compilers = <<>> => at = 1 /\ event.e = "begin"
  BY <1>1, FirstEvent DEF event
<1> QED
  BY <1>1, <1>2, <1>3, <1>4, <1>5

(* The compilers grow with a beginning and shrink with an end.             *)
LEMMA CountStep ==
  ASSUME Inv, pc = "compile", at' = at + 1, source' = source,
         \/ event.e = "begin" /\ Len(compilers') = Len(compilers) + 1
         \/ event.e = "end" /\ Len(compilers') = Len(compilers) - 1
         \/ event.e \notin {"begin", "end"} /\ Len(compilers') = Len(compilers)
  PROVE  Counted'
<1>1. PICK s, n : s = source /\ n = at /\ n >= 1 /\ n \in Nat
  BY CompileFacts
<1>2. /\ Count(s, n, "begin") \in Nat /\ Count(s, n, "end") \in Nat
      /\ s[n].e = "begin" => Count(s, n + 1, "begin") = Count(s, n, "begin") + 1
      /\ s[n].e # "begin" => Count(s, n + 1, "begin") = Count(s, n, "begin")
      /\ s[n].e = "end" => Count(s, n + 1, "end") = Count(s, n, "end") + 1
      /\ s[n].e # "end" => Count(s, n + 1, "end") = Count(s, n, "end")
  BY <1>1, SeenNext
<1>3. Len(compilers) = Count(s, n, "begin") - Count(s, n, "end")
  BY <1>1 DEF Inv, Counted
<1>4. Len(compilers') = Count(s, n + 1, "begin") - Count(s, n + 1, "end")
  BY <1>1, <1>2, <1>3 DEF event
<1> QED
  BY <1>1, <1>4 DEF Counted

(* A step of compile() that goes on.                                       *)
LEMMA CompiledKeeps ==
  ASSUME Inv, pc = "compile", Compiled1, pc' = pc, script' = script, HeapClosed',
         compilers' \in Seq(Nat), compilers' # <<>>, 0 \notin ToSet(compilers'),
         names' \in Seq(Nat), Roots' \subseteq DOMAIN heap', Counted'
  PROVE  Inv'
<1>1. /\ at' = at + 1 /\ evalstack' = <<>> /\ script' = 0 /\ ~gc_disabled' /\ at \in Nat
      /\ at >= 1 /\ source' \in Scripts /\ gc_disabled' \in BOOLEAN /\ from_file' \in BOOLEAN
      /\ UNCHANGED <<file, writing, values>>
  BY CompileFacts DEF Compiled1, control, writer, Inv, Stages
<1>2. Needed' = Roots'
  BY <1>1 DEF Needed
<1>3. Kept'
  BY <1>1, <1>2, Elements DEF Inv, Kept
<1>4. Stages'
  <2>1. at' \in Nat /\ at' >= 1 /\ at' # 1 /\ pc' = "compile"
    BY <1>1
  <2> QED
    BY <1>1, <2>1 DEF Stages, Before, Reading
<1>5. FileOk' /\ pc' \in Pcs
  BY <1>1 DEF Inv, FileOk
<1> QED
  BY <1>3, <1>4, <1>5 DEF Inv

(* A compiler begins: no collection frees the name of its function.        *)
LEMMA BeginFunctionInv ==
  ASSUME Inv, BeginFunction
  PROVE  Inv'
<1>1. /\ pc = "compile" /\ event.e = "begin" /\ Compiled1 /\ UNCHANGED <<pc, names, script>>
      /\ objects_created' = NewId + 1 /\ compilers' = Append(compilers, NewId + 1)
  BY DEF BeginFunction, Compiling
<1>2. PICK h \in AfterGc(heap, Roots, gc_disabled) :
        LET n == intern_string(h, event.s, NewId)
        IN \E g \in AfterGc(n.h, Roots \cup {n.id}, gc_disabled) :
             heap' = With(g, NewId + 1, Object("function", n.id, <<>>, <<>>))
  BY DEF BeginFunction
<1>3. PICK n : /\ n = intern_string(h, event.s, NewId)
               /\ \E g \in AfterGc(n.h, Roots \cup {n.id}, gc_disabled) :
                    heap' = With(g, NewId + 1, Object("function", n.id, <<>>, <<>>))
  BY <1>2
<1>4. PICK g \in AfterGc(n.h, Roots \cup {n.id}, gc_disabled) :
        heap' = With(g, NewId + 1, Object("function", n.id, <<>>, <<>>))
  BY <1>3
<1>5. objects_created \in Nat /\ NewId = objects_created + 1
  BY InvHeap DEF Inv, NewId
<1>6. Closed(h) /\ DOMAIN h \subseteq 1..objects_created /\ Roots \subseteq DOMAIN h
  BY CollectState, InvHeap DEF Inv
<1>7. /\ Closed(n.h) /\ DOMAIN h \subseteq DOMAIN n.h /\ Created(n) \in Nat
      /\ DOMAIN n.h \subseteq 1..Created(n) /\ Created(n) <= NewId
      /\ n.id \in DOMAIN n.h /\ n.id \in Nat \ {0}
  BY <1>3, <1>5, <1>6, InternState, Zenon
<1>8. PICK k, ids, off : /\ k = n.h /\ ids = Roots \cup {n.id} /\ off = gc_disabled
                         /\ ids \subseteq DOMAIN k
  BY <1>6, <1>7
<1>9. Closed(g) /\ Left(g, k) /\ ids \subseteq DOMAIN g
  <2>1. g \in AfterGc(k, ids, off) /\ Closed(k)
    BY <1>4, <1>7, <1>8
  <2> QED
    BY <1>8, <2>1, CollectionKeeps
<1>10. DOMAIN g \subseteq 1..NewId /\ Roots \subseteq DOMAIN g /\ n.id \in DOMAIN g
       /\ NewId + 1 \notin DOMAIN g
  BY <1>5, <1>7, <1>8, <1>9 DEF Left
<1>11. PICK obj : obj = Object("function", n.id, <<>>, <<>>)
  OBVIOUS
<1>12. IsObject(obj) /\ Refs(obj) \subseteq DOMAIN g
  BY <1>7, <1>10, <1>11, Elements DEF IsObject, Refs, Object
<1>13. Closed(heap') /\ DOMAIN heap' = DOMAIN g \cup {NewId + 1}
  <2>1. Closed(With(g, NewId + 1, obj))
    BY <1>9, <1>10, <1>12, NewObject
  <2>2. DOMAIN With(g, NewId + 1, obj) = DOMAIN g \cup {NewId + 1}
    BY DEF With
  <2> QED
    BY <1>4, <1>11, <2>1, <2>2
<1>14. HeapClosed'
  <2>1. DOMAIN heap' \subseteq 1..(NewId + 1) /\ NewId + 1 \in Nat
    BY <1>5, <1>10, <1>13
  <2> QED
    BY <1>1, <1>13, <2>1 DEF Closed, HeapClosed
<1>15. /\ compilers' \in Seq(Nat) /\ Len(compilers') = Len(compilers) + 1
       /\ ToSet(compilers') = ToSet(compilers) \cup {NewId + 1}
  BY <1>1, <1>5, CompileFacts, ElementsAppend
<1>16. compilers' # <<>> /\ 0 \notin ToSet(compilers')
  <2>1. Len(compilers) \in Nat /\ Len(<<>>) = 0
    BY <1>1, CompileFacts
  <2>2. compilers' # <<>>
    BY <1>15, <2>1
  <2> QED
    BY <1>1, <1>5, <1>15, <2>2, CompileFacts
<1>17. Roots' \subseteq DOMAIN heap'
  <2>1. Roots' \subseteq Roots \cup {NewId + 1}
    BY <1>1, <1>15 DEF Roots, Compiled1
  <2> QED
    BY <1>10, <1>13, <2>1
<1>18. Counted'
  BY <1>1, <1>15, CountStep DEF Compiled1, control
<1>19. names' \in Seq(Nat)
  BY <1>1 DEF Inv, Kept
<1> QED
  BY <1>1, <1>14, <1>15, <1>16, <1>17, <1>18, <1>19, CompiledKeeps

(* A string becomes a constant of the current function.                    *)
LEMMA StringConstantInv ==
  ASSUME Inv, StringConstant
  PROVE  Inv'
<1>1. /\ pc = "compile" /\ event.e = "string" /\ Compiled1
      /\ UNCHANGED <<pc, names, compilers, script>>
  BY DEF StringConstant, Compiling
<1>2. PICK h \in AfterGc(heap, Roots, gc_disabled) :
        LET r == intern_string(h, event.s, NewId)
        IN /\ heap' = [r.h EXCEPT ![current].constants = Append(@, r.id)]
           /\ objects_created' = Created(r)
  BY DEF StringConstant
<1>3. PICK r : /\ r = intern_string(h, event.s, NewId) /\ objects_created' = Created(r)
               /\ heap' = [r.h EXCEPT ![current].constants = Append(@, r.id)]
  BY <1>2
<1>4. objects_created \in Nat
  BY InvHeap DEF Inv
<1>5. Closed(h) /\ DOMAIN h \subseteq 1..objects_created /\ Roots \subseteq DOMAIN h
  BY CollectState, InvHeap DEF Inv
<1>6. /\ Closed(r.h) /\ DOMAIN h \subseteq DOMAIN r.h /\ Created(r) \in Nat
      /\ DOMAIN r.h \subseteq 1..Created(r)
      /\ r.id \in DOMAIN r.h /\ r.id \in Nat \ {0}
  BY <1>3, <1>4, <1>5, InternState, Zenon
<1>7. compilers # <<>>
  BY <1>1, CompileFacts
<1>8. PICK k, c, x : k = r.h /\ c = current /\ x = r.id /\ c \in DOMAIN k
  <2>1. current \in ToSet(compilers)
    BY <1>1, <1>7, CompileFacts, ElementsFront DEF current
  <2> QED
    BY <1>1, <1>5, <1>6, <2>1, CompileFacts
<1>9. heap' = [k EXCEPT ![c].constants = Append(@, x)]
  BY <1>3, <1>8
<1>10. Closed(heap') /\ DOMAIN heap' = DOMAIN k
  <2>1. LET g == [k EXCEPT ![c].constants = Append(@, x)] IN Closed(g) /\ DOMAIN g = DOMAIN k
    BY <1>6, <1>8, ConstantAdded
  <2> QED
    BY <1>9, <2>1
<1>11. HeapClosed'
  BY <1>3, <1>6, <1>8, <1>10 DEF Closed, HeapClosed
<1>12. Roots' \subseteq DOMAIN heap'
  <2>1. Roots' = Roots
    BY <1>1 DEF Roots, Compiled1
  <2> QED
    BY <1>5, <1>6, <1>8, <1>10, <2>1
<1>13. Counted'
  BY <1>1, CountStep DEF Compiled1, control
<1>14. compilers' \in Seq(Nat) /\ compilers' # <<>> /\ 0 \notin ToSet(compilers') /\ names' \in Seq(Nat)
  BY <1>1, <1>7, CompileFacts
<1> QED
  BY <1>1, <1>11, <1>12, <1>13, <1>14, CompiledKeeps

(* The name of a global is a root from then on.                            *)
LEMMA GlobalNameInv ==
  ASSUME Inv, GlobalName
  PROVE  Inv'
<1>1. /\ pc = "compile" /\ event.e = "global" /\ Compiled1 /\ UNCHANGED <<pc, compilers, script>>
  BY DEF GlobalName, Compiling
<1>2. PICK h \in AfterGc(heap, Roots, gc_disabled) :
        LET r == intern_string(h, event.s, NewId)
        IN /\ names' = get_global(r.id) /\ objects_created' = Created(r)
           /\ heap' = [r.h EXCEPT ![current].code = Append(@, Position(names', r.id))]
  BY DEF GlobalName
<1>3. PICK r : /\ r = intern_string(h, event.s, NewId) /\ objects_created' = Created(r)
               /\ names' = get_global(r.id)
               /\ heap' = [r.h EXCEPT ![current].code = Append(@, Position(names', r.id))]
  BY <1>2
<1>4. objects_created \in Nat
  BY InvHeap DEF Inv
<1>5. Closed(h) /\ DOMAIN h \subseteq 1..objects_created /\ Roots \subseteq DOMAIN h
  BY CollectState, InvHeap DEF Inv
<1>6. /\ Closed(r.h) /\ DOMAIN h \subseteq DOMAIN r.h /\ Created(r) \in Nat
      /\ DOMAIN r.h \subseteq 1..Created(r)
      /\ r.id \in DOMAIN r.h /\ r.id \in Nat \ {0}
  BY <1>3, <1>4, <1>5, InternState, Zenon
<1>7. compilers # <<>>
  BY <1>1, CompileFacts
<1>8. PICK k, c, x : k = r.h /\ c = current /\ x = Position(names', r.id) /\ c \in DOMAIN k
  <2>1. current \in ToSet(compilers)
    BY <1>1, <1>7, CompileFacts, ElementsFront DEF current
  <2> QED
    BY <1>1, <1>5, <1>6, <2>1, CompileFacts
<1>9. heap' = [k EXCEPT ![c].code = Append(@, x)]
  BY <1>3, <1>8
<1>10. Closed(heap') /\ DOMAIN heap' = DOMAIN k
  <2>1. LET g == [k EXCEPT ![c].code = Append(@, x)] IN Closed(g) /\ DOMAIN g = DOMAIN k
    BY <1>6, <1>8, CodeChanged
  <2> QED
    BY <1>9, <2>1
<1>11. HeapClosed'
  BY <1>3, <1>6, <1>8, <1>10 DEF Closed, HeapClosed
<1>12. names' \in Seq(Nat) /\ ToSet(names') \subseteq ToSet(names) \cup {r.id}
  BY <1>1, <1>3, <1>6, CompileFacts, GlobalAdded
<1>13. Roots' \subseteq DOMAIN heap'
  <2>1. Roots' \subseteq Roots \cup {r.id}
    BY <1>1, <1>12 DEF Roots, Compiled1
  <2> QED
    BY <1>5, <1>6, <1>8, <1>10, <2>1
<1>14. Counted'
  BY <1>1, CountStep DEF Compiled1, control
<1>15. compilers' \in Seq(Nat) /\ compilers' # <<>> /\ 0 \notin ToSet(compilers')
  BY <1>1, <1>7, CompileFacts
<1> QED
  BY <1>1, <1>11, <1>12, <1>13, <1>14, <1>15, CompiledKeeps

(* A function becomes a constant of the one around it.                     *)
LEMMA EndFunctionInv ==
  ASSUME Inv, EndFunction
  PROVE  Inv'
<1>1. /\ pc = "compile" /\ event.e = "end" /\ Compiled1 /\ Len(compilers) > 1
      /\ compilers' = Enclosing(compilers) /\ UNCHANGED <<pc, objects_created, names, script>>
  BY DEF EndFunction, Compiling
<1>2. compilers \in Seq(Nat) /\ Len(compilers) \in Nat /\ compilers # <<>>
  <2>1. compilers \in Seq(Nat) /\ Len(<<>>) = 0
    BY <1>1, CompileFacts
  <2> QED
    BY <1>1, <2>1
<1>3. /\ current \in ToSet(compilers) /\ compilers[Len(compilers) - 1] \in ToSet(compilers)
  <2>1. DOMAIN compilers = 1..Len(compilers) /\ Len(compilers) - 1 \in 1..Len(compilers)
    BY <1>1, <1>2
  <2>2. compilers[Len(compilers) - 1] \in ToSet(compilers)
    BY <2>1 DEF ToSet
  <2> QED
    BY <1>2, <2>2, ElementsFront DEF current
<1>4. PICK c, x : /\ c = compilers[Len(compilers) - 1] /\ x = current
                  /\ c \in DOMAIN heap /\ x \in DOMAIN heap /\ x \in Nat
                  /\ heap' = [heap EXCEPT ![c].constants = Append(@, x)]
  <2>1. ToSet(compilers) \subseteq DOMAIN heap /\ DOMAIN heap \subseteq Nat
    BY <1>1, CompileFacts, InvHeap DEF Inv
  <2> QED
    BY <1>3, <2>1 DEF EndFunction
<1>5. Closed(heap') /\ DOMAIN heap' = DOMAIN heap
  <2>1. PICK k : k = heap
    OBVIOUS
  <2>2. LET g == [k EXCEPT ![c].constants = Append(@, x)] IN Closed(g) /\ DOMAIN g = DOMAIN k
    BY <1>4, <2>1, ConstantAdded, InvHeap DEF Inv
  <2> QED
    BY <1>4, <2>1, <2>2
<1>6. HeapClosed'
  BY <1>1, <1>5 DEF Inv, Closed, HeapClosed
<1>7. /\ compilers' \in Seq(Nat) /\ Len(compilers') = Len(compilers) - 1
      /\ ToSet(compilers') \subseteq ToSet(compilers)
  BY <1>1, <1>2, ElementsFront
<1>8. compilers' # <<>> /\ 0 \notin ToSet(compilers')
  <2>1. compilers' # <<>>
    <3>1. Len(<<>>) = 0
      OBVIOUS
    <3> QED
      BY <1>1, <1>2, <1>7, <3>1
  <2> QED
    BY <1>1, <1>7, <2>1, CompileFacts
<1>9. Roots' \subseteq DOMAIN heap'
  <2>1. Roots' \subseteq Roots
    BY <1>1, <1>7 DEF Roots, Compiled1
  <2> QED
    BY <1>1, <1>5, <2>1, CompileFacts
<1>10. Counted'
  BY <1>1, <1>7, CountStep DEF Compiled1, control
<1>11. names' \in Seq(Nat)
  BY <1>1, CompileFacts
<1> QED
  BY <1>1, <1>6, <1>7, <1>8, <1>9, <1>10, <1>11, CompiledKeeps

(* The script is compiled, and its compiler still there.                   *)
LEMMA EndScriptInv ==
  ASSUME Inv, EndScript
  PROVE  Inv'
<1>1. /\ pc = "compile" /\ event.e = "end" /\ Compiled1 /\ Len(compilers) = 1
      /\ pc' = "start" /\ script' = current /\ UNCHANGED <<heap, objects_created, names, compilers>>
  BY DEF EndScript, Compiling
<1>2. compilers # <<>>
  BY <1>1, CompileFacts
<1>3. current \in ToSet(compilers) /\ current \in Nat
  BY <1>1, <1>2, CompileFacts, ElementsFront DEF current
<1>4. script' \in Roots /\ script' \in Nat /\ script' # 0
  BY <1>1, <1>3, CompileFacts
<1>5. Needed' \subseteq Roots
  <2>1. Roots' = Roots
    BY <1>1 DEF Roots, Compiled1
  <2> QED
    BY <1>1, <1>4, <2>1 DEF Needed
<1>6. Kept'
  BY <1>1, <1>4, <1>5, CompileFacts DEF Inv, Kept, Compiled1
<1>7. HeapClosed' /\ FileOk'
  BY <1>1 DEF Inv, HeapClosed, FileOk, Compiled1, writer
<1>8. Stages'
  <2>1. /\ at' \in Nat /\ from_file' \in BOOLEAN /\ ~gc_disabled' /\ gc_disabled' \in BOOLEAN
        /\ evalstack' = <<>>
    BY <1>1, CompileFacts DEF Inv, Stages, Compiled1, control
  <2> QED
    BY <1>1, <1>4, <2>1 DEF Stages, Before, Reading
<1>9. pc' \in Pcs /\ Counted'
  BY <1>1 DEF Pcs, Counted
<1> QED
  BY <1>6, <1>7, <1>8, <1>9 DEF Inv

-----------------------------------------------------------------------------
(* run() *)

(* run() makes the closure of the script and puts it on the stack.         *)
LEMMA Start1Inv ==
  ASSUME Inv, Start1
  PROVE  Inv'
<1>1. /\ pc = "start" /\ script # 0 /\ script \in Nat /\ ~gc_disabled /\ gc_disabled \in BOOLEAN
      /\ evalstack = <<>> /\ at \in Nat /\ from_file \in BOOLEAN
  BY DEF Inv, Stages, Kept, Start1
<1>2. PICK h \in AfterGc(heap, Roots \cup {script}, gc_disabled) :
        heap' = With(h, NewId, Object("closure", script, <<>>, <<>>))
  BY DEF Start1
<1>3. /\ objects_created' = NewId /\ evalstack' = <<NewId>> /\ pc' = "running"
      /\ UNCHANGED <<writer, control, at, gc_disabled, names, values, compilers, strings,
                     functions, script>>
  BY DEF Start1
<1>4. Needed = Roots \cup {script} /\ Needed \subseteq DOMAIN heap
  BY <1>1 DEF Inv, Kept, Needed
<1>5. Closed(h) /\ DOMAIN h \subseteq 1..objects_created /\ Needed \subseteq DOMAIN h
  <2>1. PICK ids : ids = Roots \cup {script} /\ Roots \subseteq ids /\ ids \subseteq DOMAIN heap
    BY <1>4
  <2> QED
    BY <1>2, <1>4, <2>1, CollectState DEF Inv
<1>6. objects_created \in Nat /\ NewId = objects_created + 1 /\ NewId \notin DOMAIN h
  BY <1>5, InvHeap DEF Inv, NewId
<1>7. PICK obj : obj = Object("closure", script, <<>>, <<>>)
  OBVIOUS
<1>8. IsObject(obj) /\ Refs(obj) \subseteq DOMAIN h /\ obj.name = script
  BY <1>1, <1>4, <1>5, <1>7, Elements DEF IsObject, Refs, Object
<1>9. Closed(heap') /\ DOMAIN heap' = DOMAIN h \cup {NewId} /\ heap'[NewId] = obj
  <2>1. Closed(With(h, NewId, obj))
    BY <1>5, <1>6, <1>8, NewObject
  <2>2. DOMAIN With(h, NewId, obj) = DOMAIN h \cup {NewId} /\ With(h, NewId, obj)[NewId] = obj
    BY DEF With
  <2> QED
    BY <1>2, <1>7, <2>1, <2>2
<1>10. HeapClosed'
  BY <1>3, <1>5, <1>6, <1>9 DEF Closed, HeapClosed
<1>11. /\ evalstack' \in Seq(Nat) /\ ToSet(evalstack') = {NewId} /\ Len(evalstack') = 1
       /\ evalstack'[1] = NewId
  BY <1>3, <1>6, Elements
<1>12. Needed' \subseteq Needed \cup {NewId}
  BY <1>1, <1>3, <1>4, <1>11, Elements DEF Needed, Roots
<1>13. Kept'
  <2>1. Needed' \subseteq DOMAIN heap'
    BY <1>5, <1>9, <1>12
  <2> QED
    BY <1>3, <1>11, <2>1 DEF Inv, Kept
<1>14. Stages'
  BY <1>1, <1>3, <1>8, <1>9, <1>11 DEF Stages, Before, Reading, control
<1>15. FileOk' /\ pc' \in Pcs /\ Counted'
  BY <1>3 DEF Inv, FileOk, writer, Pcs, Counted
<1> QED
  BY <1>10, <1>13, <1>14, <1>15 DEF Inv

(* While the program runs, the closure on the stack is what keeps it.      *)
LEMMA WorkInv ==
  ASSUME Inv, Work
  PROVE  Inv'
<1>1. /\ pc = "running" /\ script # 0 /\ script \in Nat /\ ~gc_disabled /\ gc_disabled \in BOOLEAN
      /\ Len(evalstack) = 1 /\ evalstack \in Seq(Nat)
      /\ evalstack[1] \in DOMAIN heap /\ heap[evalstack[1]].name = script
      /\ at \in Nat /\ from_file \in BOOLEAN
  BY DEF Inv, Stages, Kept, Work
<1>2. PICK h \in AfterGc(heap, Roots, gc_disabled) :
        heap' = With(h, NewId, Object("list", 0, <<>>, <<>>))
  BY DEF Work
<1>3. /\ objects_created' = NewId
      /\ UNCHANGED <<writer, from_file, source, pc, at, gc_disabled,
                     evalstack, names, values, compilers, strings, functions, script>>
  BY DEF Work
<1>4. Needed = Roots \cup {script}
  BY <1>1 DEF Needed
<1>5. /\ Closed(h) /\ DOMAIN h \subseteq 1..objects_created /\ Roots \subseteq DOMAIN h
      /\ \A i \in DOMAIN h : h[i] = heap[i]
  <2>1. PICK ids, off : ids = Roots /\ off = gc_disabled /\ ids \subseteq DOMAIN heap
    BY InvHeap DEF Inv
  <2> QED
    BY <1>2, <2>1, CollectState, Zenon DEF Inv
<1>6. objects_created \in Nat /\ NewId = objects_created + 1 /\ NewId \notin DOMAIN h
  BY <1>5, InvHeap DEF Inv, NewId
<1>7. PICK c : c = evalstack[1]
  OBVIOUS
<1>8. c \in DOMAIN h /\ h[c].name = script
  <2>1. c \in ToSet(evalstack)
    BY <1>1, <1>7 DEF ToSet
  <2>2. c # 0
    BY <1>1, <1>7, InvHeap DEF Inv
  <2>3. c \in DOMAIN h
    BY <1>5, <2>1, <2>2 DEF Roots
  <2> QED
    BY <1>1, <1>5, <1>7, <2>3
<1>9. Needed \subseteq DOMAIN h
  <2>1. script \in Refs(h[c])
    BY <1>1, <1>8 DEF Refs
  <2>2. script \in DOMAIN h
    BY <1>5, <1>8, <2>1 DEF Closed
  <2> QED
    BY <1>4, <1>5, <2>2
<1>10. PICK obj : obj = Object("list", 0, <<>>, <<>>)
  OBVIOUS
<1>11. IsObject(obj) /\ Refs(obj) = {}
  BY <1>10, Elements DEF IsObject, Refs, Object
<1>12. Closed(heap') /\ DOMAIN heap' = DOMAIN h \cup {NewId} /\ heap'[c] = h[c]
  <2>1. Closed(With(h, NewId, obj))
    BY <1>5, <1>6, <1>11, NewObject
  <2>2. DOMAIN With(h, NewId, obj) = DOMAIN h \cup {NewId} /\ With(h, NewId, obj)[c] = h[c]
    BY <1>6, <1>8 DEF With
  <2> QED
    BY <1>2, <1>10, <2>1, <2>2
<1>13. HeapClosed'
  BY <1>3, <1>5, <1>6, <1>12 DEF Closed, HeapClosed
<1>14. Needed' = Needed
  BY <1>3 DEF Needed, Roots
<1>15. Kept'
  <2>1. Needed' \subseteq DOMAIN heap'
    BY <1>9, <1>12, <1>14
  <2> QED
    BY <1>3, <2>1 DEF Inv, Kept
<1>16. Stages'
  <2>1. /\ pc' = "running" /\ script' # 0 /\ ~gc_disabled' /\ gc_disabled' \in BOOLEAN
        /\ Len(evalstack') = 1 /\ at' \in Nat /\ from_file' \in BOOLEAN
        /\ evalstack'[1] \in DOMAIN heap' /\ heap'[evalstack'[1]].name = script'
    BY <1>1, <1>3, <1>7, <1>8, <1>12
  <2> QED
    BY <2>1 DEF Stages, Before, Reading
<1>17. FileOk' /\ pc' \in Pcs /\ Counted'
  BY <1>1, <1>3 DEF Inv, FileOk, writer, Counted
<1> QED
  BY <1>13, <1>15, <1>16, <1>17 DEF Inv

-----------------------------------------------------------------------------
(* The offsets of strings *)

(* f has the offsets of m strings and of the end of the block.             *)
IsOffsets(f, ss, m) ==
  f = [k \in 1..(m + 1) |-> IF k = 1 THEN 8 ELSE NextOffset(f[k - 1], ss[k - 1])]

(* There are such offsets, however many: by induction.                     *)
LEMMA OffsetsExist ==
  ASSUME NEW ss
  PROVE  \A m \in Nat : \E f : IsOffsets(f, ss, m)
<1> DEFINE G == {m \in Nat : \E f : IsOffsets(f, ss, m)}
<1>1. 0 \in G
  <2> DEFINE f == [k \in 1..1 |-> 8]
  <2>1. IsOffsets(f, ss, 0)
    BY DEF IsOffsets
  <2> QED
    BY <2>1
<1>2. ASSUME NEW m \in Nat, m \in G PROVE m + 1 \in G
  <2>1. PICK f : IsOffsets(f, ss, m)
    BY <1>2
  <2> DEFINE p == m + 1
             g == [k \in 1..(p + 1) |-> IF k = p + 1 THEN NextOffset(f[p], ss[p]) ELSE f[k]]
  <2>2. \A k \in 1..p : f[k] = IF k = 1 THEN 8 ELSE NextOffset(f[k - 1], ss[k - 1])
    BY <2>1 DEF IsOffsets
  <2>3. \A k \in 1..(p + 1) : g[k] = IF k = 1 THEN 8 ELSE NextOffset(g[k - 1], ss[k - 1])
    <3> SUFFICES ASSUME NEW k \in 1..(p + 1)
                 PROVE  g[k] = IF k = 1 THEN 8 ELSE NextOffset(g[k - 1], ss[k - 1])
      OBVIOUS
    <3>1. CASE k = p + 1
      <4>1. k # 1 /\ k - 1 = p /\ p \in 1..(p + 1) /\ p # p + 1
        BY <3>1
      <4>2. g[k - 1] = f[p] /\ g[k] = NextOffset(f[p], ss[p])
        BY <3>1, <4>1
      <4> QED
        BY <4>1, <4>2
    <3>2. CASE k # p + 1
      <4>1. k \in 1..p /\ (k # 1 => k - 1 \in 1..(p + 1) /\ k - 1 # p + 1)
        BY <3>2
      <4>2. g[k] = f[k] /\ (k # 1 => g[k - 1] = f[k - 1])
        BY <3>2, <4>1
      <4> QED
        BY <2>2, <4>1, <4>2
    <3> QED
      BY <3>1, <3>2
  <2>4. g = [k \in 1..(p + 1) |-> g[k]]
    OBVIOUS
  <2> HIDE DEF g
  <2>5. IsOffsets(g, ss, m + 1)
    BY <2>3, <2>4 DEF IsOffsets
  <2> QED
    BY <2>5
<1> HIDE DEF G
<1>3. Nat \subseteq G
  BY <1>1, <1>2, Induction
<1> QED
  BY <1>3 DEF G

(* The offset of a string is one of them.                                  *)
LEMMA OffsetsAre ==
  ASSUME NEW ss, Len(ss) \in Nat
  PROVE  \E f : IsOffsets(f, ss, Len(ss)) /\ \A n : StringOffset(ss, n) = f[n]
<1> DEFINE g == CHOOSE f : IsOffsets(f, ss, Len(ss))
<1>1. IsOffsets(g, ss, Len(ss))
  BY OffsetsExist
<1>2. \A n : StringOffset(ss, n) = g[n]
  BY DEF StringOffset, IsOffsets
<1> QED
  BY <1>1, <1>2

(* Offsets grow, so no two strings have the same.                          *)
LEMMA OffsetsDiffer ==
  ASSUME NEW ss \in Seq(STRING), \A i \in DOMAIN ss : Len(ss[i]) \in Nat,
         NEW j \in 1..Len(ss), NEW i \in 1..(j - 1)
  PROVE  StringOffset(ss, i) # StringOffset(ss, j)
<1> DEFINE m == Len(ss)
<1>1. m \in Nat /\ DOMAIN ss = 1..m
  OBVIOUS
<1>2. PICK f : IsOffsets(f, ss, m) /\ \A n : StringOffset(ss, n) = f[n]
  BY <1>1, OffsetsAre
<1>3. \A k \in 1..(m + 1) : f[k] = IF k = 1 THEN 8 ELSE NextOffset(f[k - 1], ss[k - 1])
  BY <1>2 DEF IsOffsets
<1> HIDE DEF m
<1> DEFINE Good(k) == f[k] \in Nat /\ \A l \in 1..(k - 1) : f[l] < f[k]
           G == {n \in Nat : n + 1 <= m + 1 => \A k \in 1..(n + 1) : Good(k)}
<1>4. 0 \in G
  <2>1. f[1] = 8
    BY <1>1, <1>3
  <2>2. Good(1)
    BY <2>1
  <2> QED
    BY <2>2
<1>5. ASSUME NEW n \in Nat, n \in G PROVE n + 1 \in G
  <2> SUFFICES ASSUME (n + 1) + 1 <= m + 1 PROVE \A k \in 1..((n + 1) + 1) : Good(k)
    OBVIOUS
  <2>1. \A k \in 1..(n + 1) : Good(k)
    BY <1>1, <1>5
  <2> DEFINE p == n + 1
  <2>2. p \in Nat /\ p \in 1..m /\ p + 1 \in 1..(m + 1) /\ p + 1 # 1 /\ (p + 1) - 1 = p
    BY <1>1
  <2>3. f[p + 1] = f[p] + 4 + Len(ss[p]) /\ Len(ss[p]) \in Nat
    BY <1>1, <1>3, <2>2 DEF NextOffset
  <2>4. f[p] \in Nat /\ \A l \in 1..(p - 1) : f[l] < f[p] /\ f[l] \in Nat
    BY <2>1
  <2>5. f[p + 1] \in Nat /\ f[p] < f[p + 1]
    BY <2>3, <2>4
  <2>6. \A l \in 1..p : f[l] < f[p + 1]
    <3> SUFFICES ASSUME NEW l \in 1..p PROVE f[l] < f[p + 1]
      OBVIOUS
    <3>1. CASE l = p
      BY <2>5, <3>1
    <3>2. CASE l # p
      <4>1. l \in 1..(p - 1)
        BY <2>2, <3>2
      <4> QED
        BY <2>4, <2>5, <4>1
    <3> QED
      BY <3>1, <3>2
  <2>7. Good(p + 1)
    BY <2>2, <2>5, <2>6
  <2> HIDE DEF Good
  <2> QED
    BY <2>1, <2>7
<1> HIDE DEF G
<1>6. j - 1 \in Nat /\ (j - 1) + 1 <= m + 1 /\ j \in 1..((j - 1) + 1) /\ i \in 1..(j - 1)
  BY <1>1 DEF m
<1>7. j - 1 \in G
  BY <1>4, <1>5, <1>6, Induction
<1>8. Good(j)
  BY <1>6, <1>7 DEF G
<1>9. f[i] < f[j] /\ f[j] \in Nat /\ f[i] \in Nat
  <2>1. i \in 1..((j - 1) + 1)
    BY <1>6
  <2>2. Good(i)
    BY <1>6, <1>7, <2>1 DEF G
  <2> QED
    BY <1>6, <1>8, <2>2
<1>10. f[i] # f[j]
  BY <1>9
<1> QED
  BY <1>2, <1>10

-----------------------------------------------------------------------------
(* What has been loaded *)

(* The strings ss, in a heap h and with the map m of the deserializer.     *)
AreStrings(h, m, ss, n) ==
  \A k \in 1..n :
    /\ StringOffset(ss, k) \in DOMAIN m
    /\ m[StringOffset(ss, k)] \in DOMAIN h =>
         h[m[StringOffset(ss, k)]].kind = "string" /\ h[m[StringOffset(ss, k)]].s = ss[k]

IsFunction(h, fs, m, chunk) ==
  /\ PoolOk(chunk.constants, fs, m) /\ chunk.name \in DOMAIN m /\ chunk.id \in DOMAIN fs
  /\ fs[chunk.id] \in DOMAIN h =>
       h[fs[chunk.id]] = Object("function", m[chunk.name], Ids(chunk.constants, fs, m), chunk.code)

(* The parts of the property, without state.                               *)
LEMMA WrittenMeans ==
  \A n : /\ StringsAsWritten(n) <=> AreStrings(heap, strings, bytecode.strings, n)
         /\ FunctionsAsWritten(n) <=>
              \A k \in 1..n : IsFunction(heap, functions, strings, bytecode.bytecode[k])
  BY DEF StringsAsWritten, FunctionsAsWritten, AreStrings, IsFunction, ConstantIds, Ids

(* g has nothing at the places of m that h does not have too.              *)
Agree(g, h, m) == \A o \in DOMAIN m : m[o] \in DOMAIN g => m[o] \in DOMAIN h /\ g[m[o]] = h[m[o]]

(* Strings stay what they are while objects come and go.                   *)
LEMMA StringsStay ==
  ASSUME NEW h, NEW g, NEW m, NEW ss, NEW n, AreStrings(h, m, ss, n), Agree(g, h, m)
  PROVE  AreStrings(g, m, ss, n)
  BY DEF AreStrings, Agree

(* So do functions.                                                        *)
LEMMA FunctionStays ==
  ASSUME NEW h, NEW g, NEW fs, NEW m, NEW chunk, IsFunction(h, fs, m, chunk), Agree(g, h, fs)
  PROVE  IsFunction(g, fs, m, chunk)
  BY DEF IsFunction, Agree

(* intern_string() returns a string with the contents asked for.           *)
LEMMA InternFinds ==
  ASSUME NEW h, NEW s, NEW id, NEW r, r = intern_string(h, s, id)
  PROVE  r.h[r.id].kind = "string" /\ r.h[r.id].s = s
<1>1. CASE Interned(h, s) = {}
  <2>1. r.h = With(h, id, StringObject(s)) /\ r.id = id
    BY <1>1 DEF intern_string
  <2>2. r.h[r.id] = StringObject(s)
    BY <2>1 DEF With
  <2> QED
    BY <2>2 DEF StringObject
<1>2. CASE Interned(h, s) # {}
  <2>1. r.h = h /\ r.id \in Interned(h, s)
    BY <1>2 DEF intern_string
  <2> QED
    BY <2>1 DEF Interned
<1> QED
  BY <1>1, <1>2

(* One string more, at an offset of its own.                               *)
LEMMA StringLoaded ==
  ASSUME NEW ss \in Seq(STRING), \A i \in DOMAIN ss : Len(ss[i]) \in Nat,
         NEW n \in 1..Len(ss), NEW h, NEW m, AreStrings(h, m, ss, n - 1),
         NEW g, Agree(g, h, m), NEW id, g[id].kind = "string", g[id].s = ss[n]
  PROVE  AreStrings(g, With(m, StringOffset(ss, n), id), ss, n)
<1> DEFINE w == With(m, StringOffset(ss, n), id)
<1>1. /\ StringOffset(ss, n) \in DOMAIN w /\ w[StringOffset(ss, n)] = id
      /\ \A o \in DOMAIN m : o \in DOMAIN w /\ (o # StringOffset(ss, n) => w[o] = m[o])
  BY DEF With
<1> HIDE DEF w
<1>2. AreStrings(g, m, ss, n - 1)
  BY StringsStay
<1> SUFFICES ASSUME NEW k \in 1..n
             PROVE  /\ StringOffset(ss, k) \in DOMAIN w
                    /\ w[StringOffset(ss, k)] \in DOMAIN g =>
                         /\ g[w[StringOffset(ss, k)]].kind = "string"
                         /\ g[w[StringOffset(ss, k)]].s = ss[k]
  BY DEF AreStrings, w
<1>3. CASE k = n
  BY <1>1, <1>3
<1>4. CASE k # n
  <2>1. k \in 1..(n - 1)
    BY <1>4
  <2>2. StringOffset(ss, k) # StringOffset(ss, n)
    BY <2>1, OffsetsDiffer
  <2>3. StringOffset(ss, k) \in DOMAIN m
    BY <1>2, <2>1 DEF AreStrings
  <2>4. w[StringOffset(ss, k)] = m[StringOffset(ss, k)]
    BY <1>1, <2>2, <2>3
  <2> QED
    BY <1>1, <1>2, <2>1, <2>3, <2>4 DEF AreStrings
<1> QED
  BY <1>3, <1>4

(* A function more leaves the constants of the others alone.               *)
LEMMA PoolStays ==
  ASSUME NEW cs \in Seq([type : {"F", "S"}, data : Nat]), NEW fs, NEW m, PoolOk(cs, fs, m),
         NEW x, x \notin DOMAIN fs, NEW id, NEW w, w = With(fs, x, id)
  PROVE  PoolOk(cs, w, m) /\ Ids(cs, w, m) = Ids(cs, fs, m)
<1>1. \A y \in DOMAIN fs : y \in DOMAIN w /\ w[y] = fs[y]
  BY DEF With
<1>2. PoolOk(cs, w, m)
  BY <1>1 DEF PoolOk
<1>3. DOMAIN cs = 1..Len(cs) /\ \A i \in DOMAIN cs : cs[i].type \in {"F", "S"}
  <2>1. DOMAIN cs = 1..Len(cs)
    OBVIOUS
  <2>2. ASSUME NEW i \in DOMAIN cs PROVE cs[i].type \in {"F", "S"}
    <3>1. cs[i] \in [type : {"F", "S"}, data : Nat]
      BY <2>1, ElementOfSeq
    <3> QED
      BY <3>1
  <2> QED
    BY <2>1, <2>2
<1>4. deserialize_constant_pool(cs, w, m) = deserialize_constant_pool(cs, fs, m)
  <2>1. \A i \in DOMAIN cs : cs[i].type = "F" => w[cs[i].data] = fs[cs[i].data]
    BY <1>1 DEF PoolOk
  <2> QED
    BY <1>3, <2>1 DEF deserialize_constant_pool
<1> QED
  BY <1>2, <1>4 DEF Ids

(* And leaves the others alone.                                            *)
LEMMA FunctionsStay ==
  ASSUME NEW h, NEW fs, NEW m, NEW chunk, IsFunction(h, fs, m, chunk),
         chunk.constants \in Seq([type : {"F", "S"}, data : Nat]),
         NEW x, x \notin DOMAIN fs, NEW id, NEW g, Agree(g, h, fs)
  PROVE  IsFunction(g, With(fs, x, id), m, chunk)
<1>1. PICK w, cs : w = With(fs, x, id) /\ cs = chunk.constants
  OBVIOUS
<1>2. PoolOk(cs, fs, m)
  BY <1>1 DEF IsFunction
<1>3. PoolOk(cs, w, m) /\ Ids(cs, w, m) = Ids(cs, fs, m)
  BY <1>1, <1>2, PoolStays
<1>4. w[chunk.id] = fs[chunk.id] /\ chunk.id \in DOMAIN w
  BY <1>1 DEF IsFunction, With
<1>5. IsFunction(g, fs, m, chunk)
  BY FunctionStays
<1>6. IsFunction(g, w, m, chunk)
  BY <1>1, <1>3, <1>4, <1>5 DEF IsFunction
<1> QED
  BY <1>1, <1>6

-----------------------------------------------------------------------------
(* The steps, and what has been loaded *)

After == {"natives", "start", "running"}

(* The maps of the deserializer have objects that have been created, and   *)
(* a program that comes from a file is not compiled.                       *)
Ranged ==
  /\ from_file => pc # "compile"
  /\ from_file /\ pc \in Reading \cup After =>
       /\ \A o \in DOMAIN strings : strings[o] \in 1..objects_created
       /\ \A i \in DOMAIN functions : functions[i] \in 1..objects_created

Written == LoadedAsWritten /\ Ranged

(* Before anything is read, and when a source is run, there is nothing to  *)
(* show.                                                                   *)
LEMMA NothingRead ==
  ASSUME ~from_file' \/ pc' \in Before
  PROVE  Written'
  BY DEF Written, LoadedAsWritten, Ranged, Before, Reading, After

(* Nor when nothing changes.                                               *)
LEMMA NothingChanged ==
  ASSUME Written, UNCHANGED <<pc, at, from_file, source, bytecode, heap, objects_created, names,
                              strings, functions, script>>
  PROVE  Written'
<1>1. Ranged'
  BY DEF Written, Ranged
<1>2. GlobalsAsWritten' <=> GlobalsAsWritten
  BY DEF GlobalsAsWritten
<1>3. LoadedAsWritten'
  <2>1. /\ StringsAsWritten(at - 1)' <=> StringsAsWritten(at - 1)
        /\ StringsAsWritten(Len(bytecode.strings))' <=> StringsAsWritten(Len(bytecode.strings))
        /\ FunctionsAsWritten(at - 1)' <=> FunctionsAsWritten(at - 1)
        /\ FunctionsAsWritten(Len(bytecode.bytecode))' <=> FunctionsAsWritten(Len(bytecode.bytecode))
    BY DEF StringsAsWritten, FunctionsAsWritten, ConstantIds
  <2> QED
    BY <1>2, <2>1 DEF Written, LoadedAsWritten
<1> QED
  BY <1>1, <1>3 DEF Written

(* What has to be shown of a step while strings are read.                  *)
LEMMA StringsShown ==
  ASSUME pc' = "strings", AreStrings(heap', strings', bytecode'.strings, at' - 1)
  PROVE  LoadedAsWritten'
  BY DEF LoadedAsWritten, StringsAsWritten, AreStrings

(* While functions are.                                                    *)
LEMMA FunctionsShown ==
  ASSUME pc' = "chunks", AreStrings(heap', strings', bytecode'.strings, Len(bytecode'.strings)),
         GlobalsAsWritten',
         \A k \in 1..(at' - 1) : IsFunction(heap', functions', strings', bytecode'.bytecode[k])
  PROVE  LoadedAsWritten'
<1>1. StringsAsWritten(Len(bytecode.strings))'
  BY DEF StringsAsWritten, AreStrings
<1>2. FunctionsAsWritten(at - 1)'
  BY DEF FunctionsAsWritten, IsFunction, ConstantIds, Ids
<1> QED
  BY <1>1, <1>2 DEF LoadedAsWritten

(* And later.                                                              *)
LEMMA LoadedShown ==
  ASSUME pc' \in After, AreStrings(heap', strings', bytecode'.strings, Len(bytecode'.strings)),
         GlobalsAsWritten', source' \in Sources, bytecode' = Images[source'],
         0 \in DOMAIN functions', script' = functions'[0],
         \A k \in 1..Len(bytecode'.bytecode) :
           IsFunction(heap', functions', strings', bytecode'.bytecode[k])
  PROVE  LoadedAsWritten'
<1>1. StringsAsWritten(Len(bytecode.strings))'
  BY DEF StringsAsWritten, AreStrings
<1>2. FunctionsAsWritten(Len(bytecode.bytecode))'
  BY DEF FunctionsAsWritten, IsFunction, ConstantIds, Ids
<1> QED
  BY <1>1, <1>2 DEF LoadedAsWritten, After

(* The first string is next.                                               *)
LEMMA ReadBytesWritten ==
  ASSUME Inv, ReadBytes
  PROVE  Written'
<1>1. CASE Exit
  BY <1>1, NothingRead DEF Exit
<1>2. CASE ~Exit
  <2>1. pc' = "strings" /\ at' = 1 /\ strings' = NoObjects /\ functions' = NoObjects
    BY <1>2 DEF Inv, Stages, ReadBytes, Before
  <2>2. AreStrings(heap', strings', bytecode'.strings, at' - 1)
    BY <2>1 DEF AreStrings
  <2>3. Ranged'
    BY <2>1, NothingThere DEF Ranged
  <2> QED
    BY <2>1, <2>2, <2>3, StringsShown DEF Written
<1> QED
  BY <1>1, <1>2

(* A string is read: interning it adds at most one object.                 *)
LEMMA LoadStringWritten ==
  ASSUME Inv, Written, LoadString
  PROVE  Written'
<1>1. /\ pc = "strings" /\ pc' = "strings" /\ gc_disabled /\ from_file /\ from_file' /\ at \in Nat
      /\ at' = at + 1 /\ at >= 1 /\ source \in Sources /\ bytecode = Images[source]
      /\ bytecode' = bytecode /\ at <= Len(bytecode.strings) /\ functions' = functions
      /\ functions = NoObjects
  BY DEF Inv, Stages, LoadString, Before, Reading, control, NextAt
<1>2. PICK ss, m, k : ss = bytecode.strings /\ m = strings /\ k = heap
  OBVIOUS
<1>3. /\ ss \in Seq(STRING) /\ \A i \in DOMAIN ss : Len(ss[i]) \in Nat
  BY <1>1, <1>2, ImagesAssumption
<1>4. at \in 1..Len(ss)
  BY <1>1, <1>2, <1>3
<1>5. PICK h \in AfterGc(heap, Roots, gc_disabled) :
        LET r == intern_string(h, bytecode.strings[at], NewId)
        IN /\ heap' = r.h /\ objects_created' = Created(r)
           /\ strings' = With(strings, StringOffset(bytecode.strings, at), r.id)
  BY DEF LoadString
<1>6. PICK r : /\ r = intern_string(h, ss[at], NewId) /\ heap' = r.h
               /\ objects_created' = Created(r)
               /\ strings' = With(m, StringOffset(ss, at), r.id)
  BY <1>2, <1>5
<1>7. /\ Closed(h) /\ DOMAIN h \subseteq 1..objects_created /\ h = k
      /\ objects_created \in Nat
  BY <1>1, <1>2, CollectState, InvHeap DEF Inv
<1>8. /\ DOMAIN h \subseteq DOMAIN r.h /\ \A i \in DOMAIN h : r.h[i] = h[i]
      /\ Created(r) \in Nat /\ DOMAIN r.h \subseteq 1..Created(r) /\ r.id \in DOMAIN r.h
  <2>1. PICK x : r = intern_string(h, x, NewId)
    BY <1>6
  <2> QED
    BY <1>7, <2>1, InternState
<1>9. r.h[r.id].kind = "string" /\ r.h[r.id].s = ss[at]
  BY <1>6, InternFinds
<1>10. \A o \in DOMAIN m : m[o] \in DOMAIN k
  BY <1>1, <1>2 DEF Inv, Kept, Needed
<1>11. Agree(r.h, k, m)
  BY <1>7, <1>8, <1>10 DEF Agree
<1>12. AreStrings(k, m, ss, at - 1)
  BY <1>1, <1>2, WrittenMeans DEF Written, LoadedAsWritten
<1>13. AreStrings(r.h, With(m, StringOffset(ss, at), r.id), ss, at)
  <2>1. PICK g, id, n : g = r.h /\ id = r.id /\ n = at
    OBVIOUS
  <2>2. /\ n \in 1..Len(ss) /\ AreStrings(k, m, ss, n - 1) /\ Agree(g, k, m)
        /\ g[id].kind = "string" /\ g[id].s = ss[n]
    BY <1>4, <1>9, <1>11, <1>12, <2>1
  <2>3. AreStrings(g, With(m, StringOffset(ss, n), id), ss, n)
    BY <1>3, <2>2, StringLoaded
  <2> QED
    BY <2>1, <2>3
<1>14. AreStrings(heap', strings', bytecode'.strings, at' - 1)
  <2>1. at' - 1 = at
    BY <1>1
  <2> QED
    BY <1>1, <1>2, <1>6, <1>13, <2>1
<1>15. LoadedAsWritten'
  BY <1>1, <1>14, StringsShown
<1>16. Ranged'
  <2>1. PICK w : w = strings' /\ w = With(m, StringOffset(ss, at), r.id)
    BY <1>6
  <2>2. \A o \in DOMAIN w : w[o] = r.id \/ (o \in DOMAIN m /\ w[o] = m[o])
    BY <2>1 DEF With
  <2>3. \A o \in DOMAIN w : w[o] \in DOMAIN r.h
    BY <1>7, <1>8, <1>10, <2>2
  <2>4. \A o \in DOMAIN w : w[o] \in 1..Created(r)
    BY <1>8, <2>3
  <2> QED
    BY <1>1, <1>6, <2>1, <2>4, NothingThere DEF Ranged
<1> QED
  BY <1>15, <1>16 DEF Written

(* The table of globals is read.                                           *)
LEMMA LoadGlobalsWritten ==
  ASSUME Inv, Written, LoadGlobals
  PROVE  Written'
<1>1. CASE Exit
  BY <1>1, NothingRead DEF Exit
<1>2. CASE ~Exit
  <2>1. /\ pc = "strings" /\ at > Len(bytecode.strings) /\ from_file /\ at \in Nat
        /\ source \in Sources /\ bytecode = Images[source]
        /\ names' = deserialize_global_table(bytecode.globals, strings).names
        /\ pc' = "chunks" /\ at' = 1
        /\ UNCHANGED <<bytecode, heap, objects_created, strings, functions, from_file>>
    BY <1>2 DEF Inv, Stages, LoadGlobals, Before, Reading, control
  <2>2. AreStrings(heap', strings', bytecode'.strings, Len(bytecode'.strings))
    <3>1. AreStrings(heap, strings, bytecode.strings, at - 1)
      BY <2>1, WrittenMeans DEF Written, LoadedAsWritten
    <3>2. PICK ss : ss = bytecode.strings /\ ss \in Seq(STRING)
      BY <2>1, ImagesAssumption
    <3>3. 1..Len(ss) \subseteq 1..(at - 1)
      BY <2>1, <3>2
    <3>4. AreStrings(heap, strings, ss, Len(ss))
      BY <3>1, <3>2, <3>3 DEF AreStrings
    <3> QED
      BY <2>1, <3>2, <3>4
  <2>3. GlobalsAsWritten'
    BY <2>1 DEF GlobalsAsWritten, deserialize_global_table
  <2>4. \A k \in 1..(at' - 1) : IsFunction(heap', functions', strings', bytecode'.bytecode[k])
    BY <2>1
  <2>5. LoadedAsWritten'
    BY <2>1, <2>2, <2>3, <2>4, FunctionsShown
  <2>6. Ranged'
    BY <2>1 DEF Written, Ranged, Reading
  <2> QED
    BY <2>5, <2>6 DEF Written
<1> QED
  BY <1>1, <1>2

(* A function is read: it gets an object that was not there.               *)
LEMMA LoadChunkWritten ==
  ASSUME Inv, Written, LoadChunk
  PROVE  Written'
<1>1. CASE Exit
  BY <1>1, NothingRead DEF Exit
<1>2. CASE ~Exit
  <2>1. /\ pc = "chunks" /\ pc' = "chunks" /\ gc_disabled /\ from_file /\ at >= 1 /\ at \in Nat
        /\ source \in Sources /\ bytecode = Images[source] /\ at <= Len(bytecode.bytecode)
        /\ at' = at + 1 /\ objects_created' = NewId
        /\ UNCHANGED <<from_file, bytecode, names, strings>>
    BY <1>2 DEF Inv, Stages, LoadChunk, Before, Reading, control
  <2>2. PICK chunk, fs, m, k, cs : /\ chunk = cs[at] /\ fs = functions /\ m = strings
                                   /\ k = heap /\ cs = bytecode.bytecode
    OBVIOUS
  <2>3. /\ PoolOk(chunk.constants, fs, m) /\ chunk.name \in DOMAIN m /\ chunk.id \notin DOMAIN fs
        /\ functions' = With(fs, chunk.id, NewId)
    BY <1>2, <2>2 DEF LoadChunk
  <2>4. PICK h \in AfterGc(heap, Roots, gc_disabled) :
          heap' = With(h, NewId, Object("function", m[chunk.name], Ids(chunk.constants, fs, m),
                                        chunk.code))
    BY <1>2, <2>2 DEF LoadChunk, ConstantIds, Ids
  <2>5. /\ h = k /\ objects_created \in Nat /\ NewId = objects_created + 1 /\ NewId \notin DOMAIN k
        /\ DOMAIN k \subseteq 1..objects_created
    BY <2>1, <2>2, CollectState, InvHeap DEF Inv, NewId
  <2>6. PICK id, obj, g, w :
          /\ id = NewId /\ g = heap' /\ w = functions' /\ g = With(k, id, obj)
          /\ w = With(fs, chunk.id, id)
          /\ obj = Object("function", m[chunk.name], Ids(chunk.constants, fs, m), chunk.code)
    BY <2>3, <2>4, <2>5
  <2>7. /\ DOMAIN g = DOMAIN k \cup {id} /\ g[id] = obj
        /\ \A i \in DOMAIN k : g[i] = k[i]
    <3>1. \A i \in DOMAIN k : i # id
      BY <2>5, <2>6
    <3> QED
      BY <2>6, <3>1 DEF With
  <2>8. (\A o \in DOMAIN m : m[o] \in DOMAIN k) /\ (\A i \in DOMAIN fs : fs[i] \in DOMAIN k)
    BY <2>1, <2>2 DEF Inv, Kept, Needed
  <2>9. Agree(g, k, m) /\ Agree(g, k, fs)
    BY <2>7, <2>8 DEF Agree
  <2>10. /\ cs \in Seq(Chunk) /\ DOMAIN cs = 1..Len(cs) /\ Len(cs) \in Nat
         /\ \A i \in 1..Len(cs) : cs[i].constants \in Seq([type : {"F", "S"}, data : Nat])
    <3>1. cs \in Seq(Chunk)
      BY <2>1, <2>2, ImagesAssumption
    <3>2. ASSUME NEW i \in 1..Len(cs)
          PROVE  cs[i].constants \in Seq([type : {"F", "S"}, data : Nat])
      <4>1. cs[i] \in Chunk
        BY <3>1, ElementOfSeq
      <4> QED
        BY <4>1 DEF Chunk
    <3> QED
      BY <3>1, <3>2
  <2>11. \A i \in 1..(at - 1) : IsFunction(k, fs, m, cs[i])
    BY <2>1, <2>2, WrittenMeans DEF Written, LoadedAsWritten
  <2>12. ASSUME NEW i \in 1..at PROVE IsFunction(g, w, m, cs[i])
    <3>1. CASE i = at
      <4>1. w[chunk.id] = id /\ chunk.id \in DOMAIN w /\ \A y \in DOMAIN fs : w[y] = fs[y]
        BY <2>3, <2>6 DEF With
      <4>2. chunk.constants \in Seq([type : {"F", "S"}, data : Nat])
        BY <2>1, <2>2, <2>10
      <4>3. PoolOk(chunk.constants, w, m) /\ Ids(chunk.constants, w, m) = Ids(chunk.constants, fs, m)
        BY <2>3, <2>6, <4>2, PoolStays
      <4> QED
        BY <2>2, <2>3, <2>6, <2>7, <3>1, <4>1, <4>3 DEF IsFunction
    <3>2. CASE i # at
      <4>1. i \in 1..(at - 1) /\ i \in 1..Len(cs)
        BY <2>1, <2>2, <2>10, <3>2
      <4>2. PICK c : c = cs[i] /\ IsFunction(k, fs, m, c)
                     /\ c.constants \in Seq([type : {"F", "S"}, data : Nat])
        BY <2>10, <2>11, <4>1
      <4>3. IsFunction(g, With(fs, chunk.id, id), m, c)
        BY <2>3, <2>9, <4>2, FunctionsStay
      <4> QED
        BY <2>6, <4>2, <4>3
    <3> QED
      BY <3>1, <3>2
  <2>13. \A i \in 1..(at' - 1) : IsFunction(heap', functions', strings', bytecode'.bytecode[i])
    <3>1. at' - 1 = at
      BY <2>1
    <3> QED
      BY <2>1, <2>2, <2>6, <2>12, <3>1
  <2>14. AreStrings(heap', strings', bytecode'.strings, Len(bytecode'.strings))
    <3>1. PICK ss : ss = bytecode.strings /\ AreStrings(k, m, ss, Len(ss))
      BY <2>1, <2>2, WrittenMeans DEF Written, LoadedAsWritten
    <3>2. AreStrings(g, m, ss, Len(ss))
      BY <2>9, <3>1, StringsStay
    <3> QED
      BY <2>1, <2>2, <2>6, <3>1, <3>2
  <2>15. GlobalsAsWritten'
    BY <2>1 DEF Written, LoadedAsWritten, GlobalsAsWritten
  <2>16. LoadedAsWritten'
    BY <2>1, <2>13, <2>14, <2>15, FunctionsShown
  <2>17. Ranged'
    <3>1. \A i \in DOMAIN w : w[i] = id \/ (i \in DOMAIN fs /\ w[i] = fs[i])
      BY <2>6 DEF With
    <3>2. \A i \in DOMAIN w : w[i] \in 1..id
      BY <2>5, <2>6, <2>8, <3>1
    <3>3. \A o \in DOMAIN m : m[o] \in 1..id
      BY <2>5, <2>6, <2>8
    <3> QED
      BY <2>1, <2>2, <2>6, <3>2, <3>3 DEF Ranged
  <2> QED
    BY <2>16, <2>17 DEF Written
<1> QED
  BY <1>1, <1>2

(* deserialize_program() returns.                                          *)
LEMMA EndLoadWritten ==
  ASSUME Inv, Written, EndLoad
  PROVE  Written'
<1>1. CASE Exit
  BY <1>1, NothingRead DEF Exit
<1>2. CASE ~Exit
  <2>1. /\ pc = "chunks" /\ at > Len(bytecode.bytecode) /\ from_file /\ at \in Nat
        /\ source \in Sources /\ bytecode = Images[source]
        /\ 0 \in DOMAIN functions /\ script' = functions[0] /\ pc' = "natives"
        /\ UNCHANGED <<from_file, source, bytecode, heap, objects_created, names, strings, functions>>
    BY <1>2 DEF Inv, Stages, EndLoad, Before, Reading, control
  <2>2. AreStrings(heap', strings', bytecode'.strings, Len(bytecode'.strings))
    BY <2>1, WrittenMeans DEF Written, LoadedAsWritten
  <2>3. GlobalsAsWritten'
    BY <2>1 DEF Written, LoadedAsWritten, GlobalsAsWritten
  <2>4. \A k \in 1..Len(bytecode'.bytecode) :
          IsFunction(heap', functions', strings', bytecode'.bytecode[k])
    <3>1. \A k \in 1..(at - 1) : IsFunction(heap, functions, strings, bytecode.bytecode[k])
      BY <2>1, WrittenMeans DEF Written, LoadedAsWritten
    <3>2. PICK cs : cs = bytecode.bytecode /\ cs \in Seq(Chunk)
      BY <2>1, ImagesAssumption
    <3>3. 1..Len(cs) \subseteq 1..(at - 1)
      BY <2>1, <3>2
    <3> QED
      BY <2>1, <3>1, <3>2, <3>3
  <2>5. LoadedAsWritten'
    BY <2>1, <2>2, <2>3, <2>4, LoadedShown DEF After
  <2>6. Ranged'
    BY <2>1 DEF Written, Ranged, Reading, After
  <2> QED
    BY <2>5, <2>6 DEF Written
<1> QED
  BY <1>1, <1>2

(* What a step leaves alone once the program has been read: identities are *)
(* not used twice, so what is in the place of an object is that object.    *)
LEMMA AfterKeeps ==
  ASSUME Inv, Written, from_file, pc \in After, pc' \in After,
         UNCHANGED <<from_file, source, bytecode, strings, functions, script>>,
         objects_created' \in Nat, objects_created <= objects_created',
         \A i \in DOMAIN heap' : i <= objects_created => i \in DOMAIN heap /\ heap'[i] = heap[i],
         \A i \in DOMAIN names : i \in DOMAIN names' /\ names'[i] = names[i]
  PROVE  Written'
<1>1. PICK g, h, m, fs : g = heap' /\ h = heap /\ m = strings /\ fs = functions
  OBVIOUS
<1>2. objects_created \in Nat
  BY InvHeap DEF Inv
<1>3. /\ \A o \in DOMAIN m : m[o] \in 1..objects_created
      /\ \A i \in DOMAIN fs : fs[i] \in 1..objects_created
  BY <1>1 DEF Written, Ranged
<1>4. Agree(g, h, m) /\ Agree(g, h, fs)
  BY <1>1, <1>2, <1>3 DEF Agree
<1>5. /\ AreStrings(h, m, bytecode.strings, Len(bytecode.strings)) /\ GlobalsAsWritten
      /\ \A k \in 1..Len(bytecode.bytecode) : IsFunction(h, fs, m, bytecode.bytecode[k])
      /\ source \in Sources /\ bytecode = Images[source]
      /\ 0 \in DOMAIN functions /\ script = functions[0]
  BY <1>1, WrittenMeans DEF Written, LoadedAsWritten, After
<1>6. AreStrings(g, m, bytecode.strings, Len(bytecode.strings))
  <2>1. PICK ss, n : ss = bytecode.strings /\ n = Len(bytecode.strings)
    OBVIOUS
  <2>2. AreStrings(g, m, ss, n)
    BY <1>4, <1>5, <2>1, StringsStay
  <2> QED
    BY <2>1, <2>2
<1>7. ASSUME NEW k \in 1..Len(bytecode.bytecode) PROVE IsFunction(g, fs, m, bytecode.bytecode[k])
  <2>1. PICK c : c = bytecode.bytecode[k] /\ IsFunction(h, fs, m, c)
    BY <1>5
  <2>2. IsFunction(g, fs, m, c)
    BY <1>4, <2>1, FunctionStays
  <2> QED
    BY <2>1, <2>2
<1>8. GlobalsAsWritten'
  BY <1>5 DEF GlobalsAsWritten
<1>9. LoadedAsWritten'
  BY <1>1, <1>5, <1>6, <1>7, <1>8, LoadedShown
<1>10. Ranged'
  BY <1>1, <1>2, <1>3 DEF Ranged, After
<1> QED
  BY <1>9, <1>10 DEF Written

(* The name of the native function, which the program may have too.        *)
LEMMA NativeNameWritten ==
  ASSUME Inv, Written, NativeName
  PROVE  Written'
<1>1. /\ pc = "natives" /\ pc' = "natives" /\ from_file \in BOOLEAN
      /\ UNCHANGED <<from_file, source, bytecode, names, strings, functions, script>>
  BY DEF Inv, Stages, NativeName, control
<1>2. CASE ~from_file
  BY <1>1, <1>2, NothingRead
<1>3. CASE from_file
  <2>1. PICK h \in AfterGc(heap, Roots, from_file) :
          LET r == intern_string(h, "print", NewId)
          IN heap' = r.h /\ objects_created' = Created(r)
    BY DEF NativeName
  <2>2. PICK r : /\ r = intern_string(h, "print", NewId) /\ heap' = r.h
                 /\ objects_created' = Created(r)
    BY <2>1
  <2>3. /\ Closed(h) /\ DOMAIN h \subseteq 1..objects_created /\ h = heap
        /\ objects_created \in Nat
    BY <1>3, CollectState, InvHeap DEF Inv
  <2>4. /\ DOMAIN r.h \subseteq DOMAIN h \cup {NewId} /\ \A i \in DOMAIN h : r.h[i] = h[i]
        /\ Created(r) \in Nat
    <3>1. /\ Closed(r.h) /\ DOMAIN h \subseteq DOMAIN r.h /\ \A i \in DOMAIN h : r.h[i] = h[i]
          /\ Created(r) \in Nat
      BY <2>2, <2>3, InternState
    <3>2. DOMAIN r.h \subseteq DOMAIN h \cup {NewId}
      BY <2>2 DEF intern_string, With
    <3> QED
      BY <3>1, <3>2
  <2>5. objects_created <= Created(r) /\ ~(NewId <= objects_created)
    BY <2>3 DEF Created, NewId
  <2>6. \A i \in DOMAIN heap' : i <= objects_created => i \in DOMAIN heap /\ heap'[i] = heap[i]
    BY <2>2, <2>3, <2>4, <2>5
  <2> QED
    BY <1>1, <1>3, <2>2, <2>4, <2>5, <2>6, AfterKeeps DEF After
<1> QED
  BY <1>1, <1>2, <1>3

(* An object more, after a collection or without.                          *)
LEMMA ObjectAdded ==
  ASSUME Inv, NEW ids, Roots \subseteq ids, ids \subseteq DOMAIN heap, NEW off,
         NEW h \in AfterGc(heap, ids, off), NEW obj, heap' = With(h, NewId, obj),
         objects_created' = NewId
  PROVE  /\ objects_created' \in Nat /\ objects_created <= objects_created'
         /\ \A i \in DOMAIN heap' : i <= objects_created => i \in DOMAIN heap /\ heap'[i] = heap[i]
<1>1. objects_created \in Nat /\ NewId = objects_created + 1
  BY InvHeap DEF Inv, NewId
<1>2. DOMAIN h \subseteq DOMAIN heap /\ \A i \in DOMAIN h : h[i] = heap[i]
  <2>1. Closed(heap)
    BY InvHeap DEF Inv
  <2>2. Left(h, heap)
    BY <2>1, CollectionKeeps, Zenon
  <2> QED
    BY <2>2 DEF Left
<1>3. PICK g, id : g = heap' /\ id = NewId /\ g = With(h, id, obj)
  OBVIOUS
<1>4. \A i \in DOMAIN g : i # id => i \in DOMAIN h /\ g[i] = h[i]
  BY <1>3 DEF With
<1> QED
  BY <1>1, <1>2, <1>3, <1>4

(* The native function itself: its name is added after those that the      *)
(* program has, or is there.                                               *)
LEMMA NativeFunctionWritten ==
  ASSUME Inv, Written, NativeFunction
  PROVE  Written'
<1>1. /\ pc = "natives" /\ from_file \in BOOLEAN /\ (from_file => pc' = "start")
      /\ objects_created' = NewId
      /\ UNCHANGED <<from_file, source, bytecode, strings, functions, script>>
  BY DEF Inv, Stages, NativeFunction, control
<1>2. CASE ~from_file
  BY <1>1, <1>2, NothingRead
<1>3. CASE from_file
  <2>1. PICK h \in AfterGc(heap, Roots, gc_disabled) :
          heap' = With(h, NewId, Object("native", 0, <<>>, <<>>))
    BY DEF NativeFunction
  <2>2. PICK ids, off, obj : ids = Roots /\ off = gc_disabled /\ obj = Object("native", 0, <<>>, <<>>)
    OBVIOUS
  <2>3. /\ objects_created' \in Nat /\ objects_created <= objects_created'
        /\ \A i \in DOMAIN heap' : i <= objects_created => i \in DOMAIN heap /\ heap'[i] = heap[i]
    <3>1. ids \subseteq DOMAIN heap
      BY <2>2, InvHeap DEF Inv
    <3> QED
      BY <1>1, <2>1, <2>2, <3>1, ObjectAdded
  <2>4. \A i \in DOMAIN names : i \in DOMAIN names' /\ names'[i] = names[i]
    <3>1. PICK ns, x : ns = names /\ x = Last(evalstack) /\ ns \in Seq(Nat)
      BY DEF Inv, Kept
    <3>2. names' = ns \/ names' = Append(ns, x)
      BY <3>1 DEF NativeFunction, get_global
    <3>3. \A i \in DOMAIN ns : i \in DOMAIN Append(ns, x) /\ Append(ns, x)[i] = ns[i]
      BY <3>1
    <3> QED
      BY <3>1, <3>2, <3>3
  <2> QED
    BY <1>1, <1>3, <2>3, <2>4, AfterKeeps DEF After
<1> QED
  BY <1>1, <1>2, <1>3

(* The closure of the script.                                              *)
LEMMA Start1Written ==
  ASSUME Inv, Written, Start1
  PROVE  Written'
<1>1. /\ pc = "start" /\ pc' = "running" /\ from_file \in BOOLEAN /\ objects_created' = NewId
      /\ UNCHANGED <<from_file, source, bytecode, names, strings, functions, script>>
  BY DEF Inv, Stages, Start1, control
<1>2. CASE ~from_file
  BY <1>1, <1>2, NothingRead
<1>3. CASE from_file
  <2>1. PICK h \in AfterGc(heap, Roots \cup {script}, gc_disabled) :
          heap' = With(h, NewId, Object("closure", script, <<>>, <<>>))
    BY DEF Start1
  <2>2. PICK ids, off, obj : /\ ids = Roots \cup {script} /\ off = gc_disabled
                             /\ obj = Object("closure", script, <<>>, <<>>)
    OBVIOUS
  <2>3. Roots \subseteq ids /\ ids \subseteq DOMAIN heap
    BY <1>1, <2>2 DEF Inv, Stages, Kept, Needed
  <2>4. /\ objects_created' \in Nat /\ objects_created <= objects_created'
        /\ \A i \in DOMAIN heap' : i <= objects_created => i \in DOMAIN heap /\ heap'[i] = heap[i]
    BY <1>1, <2>1, <2>2, <2>3, ObjectAdded
  <2> QED
    BY <1>1, <1>3, <2>4, AfterKeeps DEF After
<1> QED
  BY <1>1, <1>2, <1>3

(* An allocation of the program.                                           *)
LEMMA WorkWritten ==
  ASSUME Inv, Written, Work
  PROVE  Written'
<1>1. /\ pc = "running" /\ pc' = "running" /\ from_file \in BOOLEAN /\ objects_created' = NewId
      /\ UNCHANGED <<from_file, source, bytecode, names, strings, functions, script>>
  BY DEF Inv, Stages, Work
<1>2. CASE ~from_file
  BY <1>1, <1>2, NothingRead
<1>3. CASE from_file
  <2>1. PICK h \in AfterGc(heap, Roots, gc_disabled) :
          heap' = With(h, NewId, Object("list", 0, <<>>, <<>>))
    BY DEF Work
  <2>2. PICK ids, off, obj : ids = Roots /\ off = gc_disabled /\ obj = Object("list", 0, <<>>, <<>>)
    OBVIOUS
  <2>3. ids \subseteq DOMAIN heap
    BY <2>2, InvHeap DEF Inv
  <2>4. /\ objects_created' \in Nat /\ objects_created <= objects_created'
        /\ \A i \in DOMAIN heap' : i <= objects_created => i \in DOMAIN heap /\ heap'[i] = heap[i]
    BY <1>1, <2>1, <2>2, <2>3, ObjectAdded
  <2> QED
    BY <1>1, <1>3, <2>4, AfterKeeps DEF After
<1> QED
  BY <1>1, <1>2, <1>3

(* The compiler runs only for sources.                                     *)
LEMMA CompileWritten ==
  ASSUME Inv, Written,
         BeginFunction \/ StringConstant \/ GlobalName \/ EndFunction \/ EndScript
  PROVE  Written'
<1>1. pc = "compile" /\ from_file' = from_file
  BY DEF BeginFunction, StringConstant, GlobalName, EndFunction, EndScript, Compiling, Compiled1,
         control
<1>2. ~from_file
  BY <1>1 DEF Written, Ranged
<1> QED
  BY <1>1, <1>2, NothingRead

(* Steps after which nothing has been read yet.                            *)
LEMMA LookWritten ==
  ASSUME Inv, CheckMagic \/ ReadText \/ FindSize \/ RunFile \/ (\E s \in Sources : RunScript(s)) \/ Finish
         \/ RefuseText
  PROVE  Written'
<1>1. ~from_file' \/ pc' \in Before
  BY DEF CheckMagic, ReadText, FindSize, RunFile, RunScript, Begins, Finish, RefuseText, Exit, Before
<1> QED
  BY <1>1, NothingRead

(* The writer changes only the file.                                       *)
LEMMA WriterWritten ==
  ASSUME Written, (\E s \in Sources : CompileFile(s)) \/ write \/ WriterEnds \/ Damage
  PROVE  Written'
<1>1. UNCHANGED <<pc, at, from_file, source, bytecode, heap, objects_created, names,
                  strings, functions, script>>
  BY DEF CompileFile, write, WriterEnds, Damage, control
<1> QED
  BY <1>1, NothingChanged

-----------------------------------------------------------------------------
(* The theorems *)

(* Every step keeps the invariant.                                         *)
LEMMA StepInv ==
  ASSUME Inv, [Next]_vars
  PROVE  Inv'
<1>1. CASE \/ (\E s \in Sources : CompileFile(s)) \/ write \/ WriterEnds \/ Damage
  BY <1>1, WriterInv
<1>2. CASE RunFile \/ (\E s \in Sources : RunScript(s))
  BY <1>2, BeginsInv
<1>3. CASE CheckMagic \/ ReadText \/ FindSize \/ ReadBytes
  BY <1>3, LookInv
<1>4. CASE LoadString \/ LoadGlobals \/ LoadChunk \/ EndLoad
  BY <1>4, LoadStringInv, LoadGlobalsInv, LoadChunkInv, EndLoadInv
<1>5. CASE NativeName \/ NativeFunction
  BY <1>5, NativeNameInv, NativeFunctionInv
<1>6. CASE BeginFunction \/ StringConstant \/ GlobalName \/ EndFunction \/ EndScript
  BY <1>6, BeginFunctionInv, StringConstantInv, GlobalNameInv, EndFunctionInv, EndScriptInv
<1>7. CASE Start1 \/ Work \/ Finish \/ RefuseText
  BY <1>7, Start1Inv, WorkInv, ExitInv DEF Finish, RefuseText
<1>8. CASE UNCHANGED vars
  <2>1. FileOk' /\ (file.exists => file'.exists)
    BY <1>8 DEF Inv, FileOk, vars
  <2> QED
    BY <1>8, <2>1, WriterKeeps DEF vars, control
<1> QED
  BY <1>1, <1>2, <1>3, <1>4, <1>5, <1>6, <1>7, <1>8 DEF Next, Loading

(* The inductive invariant: the file is one that a source has, no object   *)
(* refers to one that has been freed, what the process needs exists, and   *)
(* what is known at each stage of run_file() is so.                        *)
THEOREM LoaderInvariant == Spec => []LoaderInv
<1>1. Init => Inv
  BY InitInv
<1>2. Inv /\ [Next]_vars => Inv'
  BY StepInv
<1>3. Inv <=> LoaderInv
  BY InvMeans
<1> QED
  BY <1>1, <1>2, <1>3, PTL DEF Spec

(* The pieces of the state have their kinds, and there is one compiler for *)
(* each function that has begun and not ended, for sources of any length.  *)
THEOREM LoaderTypeCorrect == Spec => []TypeOK
<1>1. LoaderInv => TypeOK
  BY DEF LoaderInv
<1> QED
  BY <1>1, LoaderInvariant, PTL

(* Whenever the collector runs between the first byte read and the last    *)
(* instruction run, for any sources, any number of objects and any order   *)
(* of crashes, writes and runs: what the program consists of is not freed. *)
THEOREM ProgramIsKept == Spec => []NothingNeededIsFreed
<1>1. LoaderInv => NothingNeededIsFreed
  <2> SUFFICES ASSUME LoaderInv PROVE Reach(heap, Needed) \subseteq DOMAIN heap
    BY DEF NothingNeededIsFreed
  <2>1. PICK h, ids : h = heap /\ ids = Needed
    OBVIOUS
  <2>2. /\ IsFiniteSet(DOMAIN h) /\ ids \subseteq DOMAIN h
        /\ \A i \in DOMAIN h : Refs(h[i]) \subseteq DOMAIN h
    BY <2>1 DEF LoaderInv, HeapClosed, Kept
  <2>3. Reach(h, ids) \subseteq DOMAIN h
    BY <2>2, ReachBound
  <2> QED
    BY <2>1, <2>3
<1> QED
  BY <1>1, LoaderInvariant, PTL

(* The collector that loading has switched off is on when programs run.    *)
THEOREM CollectorIsOn == Spec => []CollectorRuns
<1>1. LoaderInv => CollectorRuns
  BY DEF LoaderInv, Stages, CollectorRuns
<1> QED
  BY <1>1, LoaderInvariant, PTL

(* Every step keeps what has been loaded as it was written.                *)
LEMMA StepWritten ==
  ASSUME Inv, Written, [Next]_vars
  PROVE  Written'
<1>1. CASE (\E s \in Sources : CompileFile(s)) \/ write \/ WriterEnds \/ Damage
  BY <1>1, WriterWritten
<1>2. CASE \/ CheckMagic \/ ReadText \/ FindSize \/ RunFile \/ (\E s \in Sources : RunScript(s))
           \/ Finish \/ RefuseText
  BY <1>2, LookWritten
<1>3. CASE ReadBytes \/ LoadString \/ LoadGlobals \/ LoadChunk \/ EndLoad
  BY <1>3, ReadBytesWritten, LoadStringWritten, LoadGlobalsWritten, LoadChunkWritten, EndLoadWritten
<1>4. CASE NativeName \/ NativeFunction \/ Start1 \/ Work
  BY <1>4, NativeNameWritten, NativeFunctionWritten, Start1Written, WorkWritten
<1>5. CASE BeginFunction \/ StringConstant \/ GlobalName \/ EndFunction \/ EndScript
  BY <1>5, CompileWritten
<1>6. CASE UNCHANGED vars
  BY <1>6, NothingChanged DEF vars
<1> QED
  BY <1>1, <1>2, <1>3, <1>4, <1>5, <1>6 DEF Next, Loading

(* For any sources, any number and length of strings and any collections:  *)
(* what deserialize_program() has built, and what a program from a file    *)
(* then runs, is the image of a source that was compiled.  No string       *)
(* displaces another because offsets grow, and an object that is freed     *)
(* leaves a place that nothing else takes.                                 *)
THEOREM FileIsLoadedAsWritten == Spec => []LoadedAsWritten
<1>1. Init => Inv /\ Written
  <2>1. Init => ~from_file
    BY DEF Init
  <2>2. ~from_file => Written
    BY DEF Written, LoadedAsWritten, Ranged
  <2> QED
    BY <2>1, <2>2, InitInv
<1>2. (Inv /\ Written) /\ [Next]_vars => (Inv /\ Written)'
  BY StepInv, StepWritten
<1>3. Written => LoadedAsWritten
  BY DEF Written
<1> QED
  BY <1>1, <1>2, <1>3, PTL DEF Spec
=============================================================================
