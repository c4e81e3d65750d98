---------------------------- MODULE ClosuresProofs ----------------------------
(***************************************************************************)
(* Proofs about local variables, calls and closures, for any number of     *)
(* values, closures, upvalues, parameters and captures, any height of the  *)
(* stack and any depth of calls.                                           *)
(*                                                                         *)
(* They are about the behaviours in which no error ends a script while     *)
(* upvalues are open and no continue leaves a captured variable: the runs  *)
(* closures_error and closures_continue show what happens in the others.   *)
(***************************************************************************)
EXTENDS Closures, FiniteSetTheorems, SequenceTheorems, TLAPS

-----------------------------------------------------------------------------
(* Numbers *)

(* A set of numbers up to n that is not empty has a largest one.           *)
LEMMA MaxExists ==
  ASSUME NEW n \in Nat, NEW S \in SUBSET (0..n), S # {}
  PROVE  Max(S) \in S /\ \A x \in S : x <= Max(S)
<1> DEFINE T == {n - x : x \in S}
<1>1. T \subseteq Nat /\ T # {}
  <2>1. T \subseteq Nat
    OBVIOUS
  <2>2. PICK x \in S : TRUE
    OBVIOUS
  <2>3. n - x \in T
    OBVIOUS
  <2> QED
    BY <2>1, <2>3
<1>2. PICK t \in T : \A y \in T : ~(<<y, t>> \in OpToRel(<, Nat))
  <2> HIDE DEF T
  <2> QED
    BY <1>1, NatLessThanWellFounded, WFMin
<1>3. \A y \in T : t <= y
  <2> HIDE DEF T
  <2>1. ASSUME NEW y \in Nat, y < t PROVE <<y, t>> \in OpToRel(<, Nat)
    <3>1. <<y, t>> \in Nat \X Nat /\ <<y, t>>[1] < <<y, t>>[2]
      BY <1>1, <2>1
    <3> QED
      BY <3>1, Zenon DEF OpToRel
  <2>2. \A y \in T : ~(y < t)
    BY <1>1, <1>2, <2>1, Zenon
  <2> QED
    BY <1>1, <2>2
<1>4. PICK m \in S : t = n - m
  OBVIOUS
<1>5. \A x \in S : m >= x
  BY <1>3, <1>4
<1>6. m \in S /\ \A x \in S : m >= x
  BY <1>5
<1>7. Max(S) \in S /\ \A x \in S : Max(S) >= x
  BY <1>6 DEF Max
<1>8. S \subseteq Int
  OBVIOUS
<1> QED
  BY <1>7, <1>8

(* The search in the list of open upvalues stops at the first one that     *)
(* points below slot k; in a sorted list it finds all that do not.         *)
LEMMA LeadingAtLeast ==
  ASSUME TypeOK, OpenListSorted, ListDescends, NEW k \in Nat
  PROVE  LET n == Leading(LAMBDA loc : loc >= k)
         IN /\ n \in 0..Len(open_upvalues)
            /\ \A j \in 1..Len(open_upvalues) :
                 upvalues[open_upvalues[j]].location >= k <=> j <= n
<1> DEFINE L == Len(open_upvalues)
           loc(j) == upvalues[open_upvalues[j]].location
           S == {n \in 0..L : \A j \in 1..n : loc(j) >= k}
<1>1. L \in Nat
  BY DEF TypeOK
<1>2. \A j \in 1..L : loc(j) \in Nat
  <2> TAKE j \in 1..L
  <2>1. open_upvalues[j] \in DOMAIN upvalues
    BY DEF TypeOK, OpenListSorted, ToSet
  <2> QED
    BY <2>1 DEF TypeOK, UpvalueType
<1>3. 0 \in S /\ S \in SUBSET (0..L)
  BY <1>1
<1> DEFINE n == Max(S)
<1>4. n \in S /\ \A x \in S : x <= n
  <2> HIDE DEF S, L
  <2> QED
    BY <1>1, <1>3, MaxExists
<1>5. n = Leading(LAMBDA x : x >= k)
  BY DEF Leading
<1>6. ASSUME NEW j \in 1..L, loc(j) >= k, j > n PROVE FALSE
  <2>1. \A i \in 1..L : i < j => loc(i) > loc(j)
    BY DEF ListDescends
  <2>2. \A i \in 1..j : loc(i) >= k
    BY <1>1, <1>2, <1>6, <2>1
  <2>3. j \in S
    BY <1>1, <2>2
  <2> QED
    BY <1>1, <1>4, <1>6, <2>3
<1>7. \A j \in 1..L : j <= n => loc(j) >= k
  BY <1>1, <1>4
<1>8. \A j \in 1..L : loc(j) >= k <=> j <= n
  <2> HIDE DEF n, S, loc, L
  <2>1. n \in Int
    BY <1>1, <1>4 DEF S
  <2> QED
    BY <1>1, <1>6, <1>7, <2>1
<1> QED
  <2> HIDE DEF n
  <2> QED
    BY <1>1, <1>4, <1>5, <1>8

(* The results of a function on a finite set are finitely many.            *)
LEMMA FiniteImage ==
  ASSUME NEW S, IsFiniteSet(S), NEW f, DOMAIN f = S
  PROVE  IsFiniteSet({f[x] : x \in S})
<1> DEFINE T == {f[x] : x \in S}
           g == [x \in S |-> f[x]]
<1>1. g \in Surjection(S, T)
  BY DEF Surjection
<1> HIDE DEF T, g
<1> QED
  BY <1>1, FS_Surjection DEF T

(* New variables are different from each other and from all that a slot or *)
(* an upvalue has.                                                         *)
LEMMA FreshCellsAreNew ==
  ASSUME TypeOK, IsFiniteSet(DOMAIN upvalues), NEW n \in Nat
  PROVE  /\ FreshCells(n) \in [1..n -> (Nat \ {0}) \ UsedCells]
         /\ \A i, j \in 1..n : FreshCells(n)[i] = FreshCells(n)[j] => i = j
<1>1. IsFiniteSet(UsedCells)
  <2> DEFINE f == [p \in 1..stack_top |-> evalstack[p].cell]
             g == [u \in DOMAIN upvalues |-> upvalues[u].cell]
  <2>1. IsFiniteSet({f[p] : p \in 1..stack_top})
    <3>1. IsFiniteSet(1..stack_top)
      BY FS_Interval DEF TypeOK, stack_top
    <3> HIDE DEF f
    <3>2. DOMAIN f = 1..stack_top
      BY DEF f
    <3> QED
      BY <3>1, <3>2, FiniteImage
  <2>2. IsFiniteSet({g[u] : u \in DOMAIN upvalues})
    <3> HIDE DEF g
    <3>2. DOMAIN g = DOMAIN upvalues
      BY DEF g
    <3> QED
      BY <3>2, FiniteImage
  <2>3. UsedCells = {f[p] : p \in 1..stack_top} \cup {g[u] : u \in DOMAIN upvalues}
    BY DEF UsedCells
  <2> HIDE DEF f, g
  <2> QED
    BY <2>1, <2>2, <2>3, FS_Union
<1> DEFINE k == Cardinality(UsedCells)
           I == 1..(k + n)
           F == I \ UsedCells
<1>2. k \in Nat
  BY <1>1, FS_CardinalityType
<1>3. IsFiniteSet(F) /\ Cardinality(F) >= n /\ Cardinality(F) \in Nat
  <2>1. IsFiniteSet(I) /\ Cardinality(I) = k + n
    <3> DEFINE m == k + n
    <3>1. m \in Nat
      BY <1>2
    <3> HIDE DEF m
    <3>2. IsFiniteSet(1..m) /\ Cardinality(1..m) = IF 1 > m THEN 0 ELSE m - 1 + 1
      BY <3>1, FS_Interval
    <3>3. Cardinality(1..m) = m
      BY <3>1, <3>2
    <3> QED
      BY <3>2, <3>3 DEF m
  <2> HIDE DEF I
  <2>2. IsFiniteSet(F) /\ Cardinality(F) = Cardinality(I) - Cardinality(I \cap UsedCells)
    BY <2>1, FS_Difference
  <2>3. IsFiniteSet(I \cap UsedCells) /\ Cardinality(I \cap UsedCells) <= k
    BY <1>1, FS_Intersection
  <2>4. Cardinality(I \cap UsedCells) \in Nat
    BY <2>3, FS_CardinalityType
  <2> HIDE DEF k, F
  <2> QED
    BY <1>2, <2>1, <2>2, <2>3, <2>4
<1>4. PICK b : b \in Bijection(1..Cardinality(F), F)
  <2> HIDE DEF F
  <2> QED
    BY <1>3, FS_CardinalityType DEF ExistsBijection
<1> DEFINE cells == [i \in 1..n |-> b[i]]
<1>5. cells \in [1..n -> F] /\ IsInjective(cells)
  <2> HIDE DEF F
  <2> QED
    BY <1>3, <1>4 DEF Bijection, Injection, IsInjective
<1>6. FreshCells(n) \in [1..n -> F] /\ IsInjective(FreshCells(n))
  <2> HIDE DEF cells
  <2> QED
    BY <1>5, Zenon DEF FreshCells
<1>7. F \subseteq (Nat \ {0}) \ UsedCells
  BY <1>2
<1>8. FreshCells(n) \in [1..n -> (Nat \ {0}) \ UsedCells]
  <2> HIDE DEF F
  <2> QED
    BY <1>6, <1>7
<1> QED
  BY <1>6, <1>8 DEF IsInjective

(* Inserting an element into a sequence.                                   *)
LEMMA Insertion ==
  ASSUME NEW S, NEW s \in Seq(S), NEW n \in 0..Len(s), NEW e \in S
  PROVE  /\ InsertAt(s, n + 1, e) \in Seq(S)
         /\ Len(InsertAt(s, n + 1, e)) = Len(s) + 1
         /\ \A i \in 1..(Len(s) + 1) :
              InsertAt(s, n + 1, e)[i] =
                IF i <= n THEN s[i] ELSE IF i = n + 1 THEN e ELSE s[i - 1]
<1> DEFINE a == SubSeq(s, 1, n)
           b == SubSeq(s, n + 1, Len(s))
<1>1. /\ a \in Seq(S) /\ Len(a) = n
      /\ \A i \in 1..n : a[i] = s[i]
  <2>1. Len(s) \in Nat /\ \A i \in 1..n : s[i] \in S
    OBVIOUS
  <2> QED
    BY <2>1, SubSeqProperties
<1>2. /\ b \in Seq(S) /\ Len(b) = Len(s) - n
      /\ \A i \in 1..(Len(s) - n) : b[i] = s[n + i]
  <2>1. Len(s) \in Nat /\ n + 1 \in Int /\ \A i \in (n + 1)..Len(s) : s[i] \in S
    OBVIOUS
  <2>2. /\ b \in Seq(S) /\ Len(b) = IF n + 1 <= Len(s) THEN Len(s) - (n + 1) + 1 ELSE 0
        /\ \A i \in 1..(Len(s) - (n + 1) + 1) : b[i] = s[n + 1 + i - 1]
    BY <2>1, SubSeqProperties
  <2> HIDE DEF b
  <2> QED
    BY <2>1, <2>2
<1> HIDE DEF a, b
<1> DEFINE c == a \o <<e>>
<1>3. /\ c \in Seq(S) /\ Len(c) = n + 1
      /\ \A i \in 1..(n + 1) : c[i] = IF i <= n THEN a[i] ELSE e
  BY <1>1
<1> HIDE DEF c
<1>4. /\ c \o b \in Seq(S) /\ Len(c \o b) = Len(s) + 1
      /\ \A i \in 1..(Len(s) + 1) :
           (c \o b)[i] = IF i <= n + 1 THEN c[i] ELSE b[i - (n + 1)]
  <2>1. Len(c) + Len(b) = Len(s) + 1
    BY <1>2, <1>3
  <2>2. /\ c \o b \in Seq(S) /\ Len(c \o b) = Len(c) + Len(b)
        /\ \A i \in 1..(Len(c) + Len(b)) :
             (c \o b)[i] = IF i <= Len(c) THEN c[i] ELSE b[i - Len(c)]
    BY <1>2, <1>3, ConcatProperties
  <2> HIDE DEF c, b
  <2> QED
    BY <1>3, <2>1, <2>2
<1>5. InsertAt(s, n + 1, e) = c \o b
  <2>1. (n + 1) - 1 = n
    OBVIOUS
  <2> QED
    BY <2>1, Zenon DEF InsertAt, a, b, c
<1> DEFINE r == c \o b
<1>6. \A i \in 1..(Len(s) + 1) :
        r[i] = IF i <= n THEN s[i] ELSE IF i = n + 1 THEN e ELSE s[i - 1]
  <2> TAKE i \in 1..(Len(s) + 1)
  <2>0. Len(s) \in Nat
    OBVIOUS
  <2>1. CASE i <= n
    BY <1>1, <1>3, <1>4, <2>0, <2>1
  <2>2. CASE i = n + 1
    BY <1>3, <1>4, <2>0, <2>2
  <2>3. CASE i > n + 1
    <3>1. i - (n + 1) \in 1..(Len(s) - n) /\ n + (i - (n + 1)) = i - 1
      BY <2>0, <2>3
    <3> QED
      BY <1>2, <1>4, <2>0, <2>3, <3>1, SMTT(30)
  <2>4. i <= n \/ i = n + 1 \/ i > n + 1
    BY <2>0
  <2> QED
    BY <2>1, <2>2, <2>3, <2>4, Zenon
<1> HIDE DEF r
<1>7. InsertAt(s, n + 1, e) = r
  BY <1>5, Zenon DEF r
<1>8. r \in Seq(S) /\ Len(r) = Len(s) + 1
  BY <1>4, Zenon DEF r
<1> QED
  BY <1>6, <1>7, <1>8, Zenon

-----------------------------------------------------------------------------
(* Facts that the invariant gives at once *)

(* The call in progress and its slot 0.                                    *)
LEMMA CurrentFrame ==
  ASSUME TypeOK, FramesNested, frames # <<>>
  PROVE  /\ Len(frames) \in Nat \ {0} /\ stack_top \in Nat
         /\ current_frame \in FrameType
         /\ slots \in Nat \ {0} /\ slots <= stack_top
         /\ evalstack[slots] = Temp(current_frame.closure)
<1>1. Len(frames) \in Nat \ {0} /\ stack_top \in Nat
  BY DEF TypeOK, stack_top
<1>2. current_frame \in FrameType
  BY <1>1 DEF TypeOK, current_frame
<1>3. slots \in Nat \ {0}
  BY <1>2 DEF slots, FrameType
<1> QED
  BY <1>1, <1>2, <1>3 DEF FramesNested, current_frame, slots

(* The closure of the call in progress.                                    *)
LEMMA CurrentClosure ==
  ASSUME TypeOK, FramesNested, NothingFreed, frames # <<>>
  PROVE  /\ current.arity \in Nat
         /\ current.upvalues \in Seq(Upvalue)
         /\ ToSet(current.upvalues) \subseteq DOMAIN upvalues
<1>1. Len(frames) \in Nat \ {0}
  BY CurrentFrame
<1>2. current_frame.closure \in DOMAIN closures \cup {Script}
  BY <1>1 DEF NothingFreed, current_frame
<1>3. CASE current_frame.closure = Script
  BY <1>3 DEF current, Fn, ScriptFn, Made, ToSet
<1>4. CASE current_frame.closure # Script
  <2>1. current_frame.closure \in DOMAIN closures /\ current = closures[current_frame.closure]
    BY <1>2, <1>4 DEF current, Fn
  <2>2. current \in ClosureType
    BY <2>1 DEF TypeOK
  <2>3. ToSet(current.upvalues) \subseteq DOMAIN upvalues
    BY <2>1 DEF NothingFreed
  <2> QED
    BY <2>2, <2>3, BoundsAssumption DEF ClosureType
<1> QED
  BY <1>3, <1>4

(* The elements of the list are the open upvalues.                         *)
LEMMA ListElements ==
  ASSUME TypeOK, OpenListSorted
  PROVE  /\ \A u : u \in ToSet(open_upvalues) <=> u \in DOMAIN upvalues /\ upvalues[u].location # 0
         /\ \A u : u \in ToSet(open_upvalues) <=>
                   \E j \in 1..Len(open_upvalues) : u = open_upvalues[j]
         /\ Len(open_upvalues) \in Nat
         /\ \A u \in DOMAIN upvalues : /\ upvalues[u].location \in Nat
                                       /\ upvalues[u].cell \in Nat \ {0}
                                       /\ upvalues[u].closed \in Value
  BY DEF TypeOK, OpenListSorted, ToSet, Open, UpvalueType

(* close_upvalues(last) closes the upvalues that point to slot last or     *)
(* above, and takes them, the first n, from the list.                      *)
LEMMA CloseUpvaluesEffect ==
  ASSUME TypeOK, OpenListSorted, ListDescends, OpenUpvaluesOnStack,
         NEW last \in Nat \ {0}, CloseUpvalues(last)
  PROVE  /\ DOMAIN upvalues' = DOMAIN upvalues
         /\ \A u \in DOMAIN upvalues :
              /\ upvalues'[u] \in UpvalueType
              /\ upvalues'[u].cell = upvalues[u].cell
              /\ upvalues[u].location < last => upvalues'[u] = upvalues[u]
              /\ upvalues[u].location >= last =>
                   /\ upvalues'[u].location = 0
                   /\ upvalues'[u].closed = evalstack[upvalues[u].location].val
         /\ open_upvalues' \in Seq(Upvalue)
         /\ \E n \in 0..Len(open_upvalues) :
              /\ Len(open_upvalues') = Len(open_upvalues) - n
              /\ \A j \in 1..(Len(open_upvalues) - n) : open_upvalues'[j] = open_upvalues[n + j]
              /\ \A j \in 1..Len(open_upvalues) :
                   upvalues[open_upvalues[j]].location >= last <=> j <= n
<1> DEFINE n == Leading(LAMBDA loc : loc >= last)
           L == Len(open_upvalues)
           closing == {open_upvalues[j] : j \in 1..n}
<1>1. /\ L \in Nat /\ n \in 0..L
      /\ \A j \in 1..L : upvalues[open_upvalues[j]].location >= last <=> j <= n
  <2>1. L \in Nat
    BY ListElements
  <2>2. last \in Nat
    OBVIOUS
  <2>3. /\ n \in 0..L
        /\ \A j \in 1..L : upvalues[open_upvalues[j]].location >= last <=> j <= n
    BY <2>2, LeadingAtLeast, Zenon
  <2> QED
    BY <2>1, <2>3
<1>2. /\ open_upvalues' = SubSeq(open_upvalues, n + 1, L)
      /\ upvalues' = [u \in DOMAIN upvalues |->
                       IF u \in closing
                         THEN [upvalues[u] EXCEPT !.location = 0, !.closed = Deref(u)]
                         ELSE upvalues[u]]
  BY DEF CloseUpvalues
<1> HIDE DEF n
<1>3. ASSUME NEW u \in DOMAIN upvalues
      PROVE  u \in closing <=> upvalues[u].location >= last
  <2>1. ASSUME u \in closing PROVE upvalues[u].location >= last
    BY <1>1, <2>1
  <2>2. ASSUME upvalues[u].location >= last PROVE u \in closing
    <3>1. u \in ToSet(open_upvalues)
      BY <2>2, ListElements
    <3>2. PICK j \in 1..L : u = open_upvalues[j]
      BY <3>1, ListElements
    <3> QED
      BY <1>1, <2>2, <3>2
  <2> QED
    BY <2>1, <2>2
<1>4. ASSUME NEW r \in UpvalueType, NEW v \in Value
      PROVE  LET c == [r EXCEPT !.location = 0, !.closed = v]
             IN c \in UpvalueType /\ c.cell = r.cell /\ c.location = 0 /\ c.closed = v
  BY DEF UpvalueType
<1>5. DOMAIN upvalues' = DOMAIN upvalues
  BY <1>2
<1>7. ASSUME NEW u \in DOMAIN upvalues
      PROVE  /\ upvalues'[u] \in UpvalueType
             /\ upvalues'[u].cell = upvalues[u].cell
             /\ upvalues[u].location < last => upvalues'[u] = upvalues[u]
             /\ upvalues[u].location >= last =>
                  /\ upvalues'[u].location = 0
                  /\ upvalues'[u].closed = evalstack[upvalues[u].location].val
  <2> HIDE DEF closing
  <2>1. upvalues[u] \in UpvalueType /\ upvalues[u].location \in Nat
    BY ListElements DEF TypeOK
  <2>2. CASE upvalues[u].location < last
    <3>1. ~(upvalues[u].location >= last)
      BY <2>1, <2>2
    <3>2. upvalues'[u] = upvalues[u]
      BY <1>2, <1>3, <3>1
    <3> QED
      BY <2>1, <3>1, <3>2
  <2>3. CASE upvalues[u].location >= last
    <3>1. u \in ToSet(open_upvalues) /\ upvalues[u].location # 0
      BY <2>1, <2>3, ListElements
    <3>2. upvalues[u].location \in 1..Len(evalstack)
      BY <3>1 DEF OpenUpvaluesOnStack, stack_top
    <3>3. evalstack[upvalues[u].location].val \in Value
      <4>1. evalstack[upvalues[u].location] \in SlotType
        BY <3>2 DEF TypeOK
      <4> QED
        BY <4>1 DEF SlotType
    <3>4. Deref(u) = evalstack[upvalues[u].location].val
      BY <3>1 DEF Deref, Open
    <3>5. upvalues'[u] = [upvalues[u] EXCEPT !.location = 0, !.closed = Deref(u)]
      BY <1>2, <1>3, <2>3
    <3>6. Deref(u) \in Value
      BY <3>3, <3>4
    <3>7. /\ upvalues'[u] \in UpvalueType /\ upvalues'[u].cell = upvalues[u].cell
          /\ upvalues'[u].location = 0 /\ upvalues'[u].closed = Deref(u)
      <4> DEFINE r == upvalues[u]
                 v == Deref(u)
                 c == [r EXCEPT !.location = 0, !.closed = v]
      <4>1. r \in UpvalueType /\ v \in Value
        BY <2>1, <3>6
      <4> HIDE DEF r, v
      <4>2. c \in UpvalueType /\ c.cell = r.cell /\ c.location = 0 /\ c.closed = v
        BY <1>4, <4>1
      <4>3. upvalues'[u] = c
        BY <3>5 DEF r, v
      <4> HIDE DEF c
      <4> QED
        BY <4>2, <4>3 DEF r, v
    <3>8. ~(upvalues[u].location < last)
      BY <2>1, <2>3
    <3> QED
      BY <3>4, <3>7, <3>8
  <2> QED
    BY <2>1, <2>2, <2>3
<1>6. /\ open_upvalues' \in Seq(Upvalue) /\ Len(open_upvalues') = L - n
      /\ \A j \in 1..(L - n) : open_upvalues'[j] = open_upvalues[n + j]
  <2>1. n + 1 \in Int /\ L \in Int /\ \A j \in (n + 1)..L : open_upvalues[j] \in Upvalue
    BY <1>1 DEF TypeOK
  <2> DEFINE t == SubSeq(open_upvalues, n + 1, L)
  <2>2. /\ t \in Seq(Upvalue) /\ Len(t) = IF n + 1 <= L THEN L - (n + 1) + 1 ELSE 0
        /\ \A j \in 1..(L - (n + 1) + 1) : t[j] = open_upvalues[n + 1 + j - 1]
    BY <2>1, SubSeqProperties
  <2> HIDE DEF t, L
  <2>3. Len(t) = L - n /\ \A j \in 1..(L - n) : t[j] = open_upvalues[n + j]
    BY <1>1, <2>2
  <2>4. open_upvalues' = t
    BY <1>2 DEF t
  <2> QED
    BY <2>2, <2>3, <2>4
<1> QED
  BY <1>1, <1>5, <1>6, <1>7

(* Slots and their variables.                                              *)
LEMMA SlotTypes ==
  ASSUME TypeOK
  PROVE  /\ stack_top \in Nat /\ DOMAIN evalstack = 1..stack_top
         /\ \A p \in 1..stack_top :
              /\ evalstack[p] \in SlotType
              /\ evalstack[p].val \in Value /\ evalstack[p].cell \in Nat
              /\ evalstack[p].is_captured \in BOOLEAN
<1>1. stack_top \in Nat /\ DOMAIN evalstack = 1..stack_top
      /\ \A p \in 1..stack_top : evalstack[p] \in SlotType
  BY DEF TypeOK, stack_top
<1>2. \A s \in SlotType : s.val \in Value /\ s.cell \in Nat /\ s.is_captured \in BOOLEAN
  BY DEF SlotType
<1> QED
  BY <1>1, <1>2

(* An open upvalue points to a variable.                                   *)
LEMMA OpenPointsToVariable ==
  ASSUME TypeOK, StackInv, NEW u \in DOMAIN upvalues, upvalues[u].location # 0
  PROVE  /\ u \in ToSet(open_upvalues)
         /\ upvalues[u].location \in 1..stack_top
         /\ IsVar(upvalues[u].location)
         /\ evalstack[upvalues[u].location].cell = upvalues[u].cell
         /\ evalstack[upvalues[u].location].is_captured
<1>1. u \in ToSet(open_upvalues) /\ upvalues[u].cell # 0
  BY ListElements DEF StackInv
<1> QED
  BY <1>1 DEF StackInv, OpenUpvaluesOnStack, CapturedKnown, IsVar

(* Slot 0 of a frame is not above that of the call in progress, and not a  *)
(* variable.                                                               *)
LEMMA FrameBases ==
  ASSUME TypeOK, StackInv, frames # <<>>, NEW j \in 1..Len(frames)
  PROVE  /\ frames[j].slots \in 1..slots
         /\ j < Len(frames) => frames[j].slots < slots
         /\ ~IsVar(frames[j].slots)
         /\ evalstack[frames[j].slots] = Temp(frames[j].closure)
<1>1. Len(frames) \in Nat \ {0} /\ slots \in Nat /\ slots = frames[Len(frames)].slots
  BY CurrentFrame DEF StackInv, slots, current_frame
<1>2. frames[j] \in FrameType
  BY DEF TypeOK
<1>3. frames[j].slots \in Nat \ {0}
  BY <1>2 DEF FrameType
<1>4. j < Len(frames) => frames[j].slots < slots
  BY <1>1 DEF StackInv, FramesAscend
<1>5. frames[j].slots \in 1..slots
  BY <1>1, <1>3, <1>4
<1>6. evalstack[frames[j].slots] = Temp(frames[j].closure)
  BY DEF StackInv, FramesNested
<1>7. ~IsVar(frames[j].slots)
  BY <1>6 DEF IsVar, Temp
<1> QED
  BY <1>4, <1>5, <1>6, <1>7

(* A step that changes the values of slots, removes the slots above one    *)
(* that no open upvalue points beyond, or adds a temporary, or makes a new *)
(* variable of the top one.                                                *)
SlotsKept ==
  /\ slots <= Len(evalstack')
  /\ \A u \in DOMAIN upvalues : upvalues[u].location <= Len(evalstack')
  /\ \A p \in 1..Len(evalstack') : p <= stack_top /\ IsVar(p) =>
       /\ evalstack'[p].cell = evalstack[p].cell
       /\ evalstack'[p].is_captured = evalstack[p].is_captured
  /\ \A p \in 1..slots : ~IsVar(p) => evalstack'[p] = evalstack[p]
  /\ \A p \in 1..Len(evalstack') : evalstack'[p].cell # 0 =>
       \/ p <= stack_top /\ IsVar(p)
       \/ /\ p > slots /\ p = Len(evalstack') /\ evalstack'[p].cell \notin UsedCells
          /\ \A q \in (slots + 1)..(p - 1) : evalstack'[q].cell # 0
  /\ \A p \in 1..Len(evalstack') : evalstack'[p].cell = 0 =>
       \/ p <= stack_top /\ evalstack'[p] = evalstack[p]
       \/ \E v \in Value : evalstack'[p] = Temp(v)

(* Such a step keeps stack, frames and list in order.                      *)
LEMMA SlotsChange ==
  ASSUME TypeOK, StackInv, frames # <<>>, TypeOK', SlotsKept,
         UNCHANGED <<frames, open_upvalues, upvalues>>
  PROVE  StackInv'
<1> USE DEF SlotsKept
<1> DEFINE top == Len(evalstack')
<1>1. top \in Nat /\ stack_top \in Nat /\ slots \in Nat \ {0} /\ Len(frames) \in Nat \ {0}
      /\ slots <= stack_top
  BY CurrentFrame DEF TypeOK, StackInv
<1>2. frames' = frames /\ open_upvalues' = open_upvalues /\ upvalues' = upvalues
  OBVIOUS
<1>3. \A p \in 1..stack_top : evalstack[p].cell \in UsedCells
  BY DEF UsedCells
<1>4. \A u \in DOMAIN upvalues : upvalues[u].cell \in UsedCells
  BY DEF UsedCells
<1>5. FramesNested' /\ FramesAscend'
  <2>1. ASSUME NEW j \in 1..Len(frames)
        PROVE  frames[j].slots <= top /\ evalstack'[frames[j].slots] = Temp(frames[j].closure)
    BY <1>1, <2>1, FrameBases
  <2>2. \A j \in 1..Len(frames) : j > 1 => frames[j - 1].slots < frames[j].slots
    BY DEF StackInv, FramesNested
  <2>3. FramesNested'
    BY <1>2, <2>1, <2>2 DEF FramesNested, stack_top, Temp
  <2> QED
    BY <1>2, <2>3 DEF StackInv, FramesAscend
<1>6. LocalsFirst'
  <2> SUFFICES ASSUME NEW j \in 1..Len(frames),
                      NEW p \in (frames[j].slots + 1)..(LastSlot(j)'),
                      NEW q \in (frames[j].slots + 1)..(LastSlot(j)'),
                      q < p, evalstack'[p].cell # 0
               PROVE  evalstack'[q].cell # 0
    BY <1>2 DEF LocalsFirst, IsVar
  <2>1. frames[j].slots \in Nat /\ frames[j].slots <= slots
    BY <1>1, FrameBases
  <2>2. ASSUME p \in (frames[j].slots + 1)..LastSlot(j), q \in (frames[j].slots + 1)..LastSlot(j),
               p <= stack_top, p <= top, IsVar(p)
        PROVE  evalstack'[q].cell # 0
    <3>1. IsVar(q)
      BY <2>2 DEF StackInv, LocalsFirst
    <3>2. q \in 1..top /\ q <= stack_top
      BY <1>1, <2>1, <2>2
    <3> QED
      BY <3>1, <3>2 DEF IsVar
  <2>3. CASE j = Len(frames)
    <3>1. LastSlot(j)' = top /\ LastSlot(j) = stack_top /\ frames[j].slots = slots
      BY <1>2, <2>3 DEF LastSlot, stack_top, slots, current_frame
    <3>2. p \in 1..top /\ q \in (slots + 1)..(p - 1)
      BY <1>1, <2>1, <3>1
    <3>3. CASE p <= stack_top /\ IsVar(p)
      BY <1>1, <2>2, <3>1, <3>2, <3>3
    <3>4. CASE ~(p <= stack_top /\ IsVar(p))
      BY <3>2, <3>4
    <3> QED
      BY <3>3, <3>4
  <2>4. CASE j # Len(frames)
    <3>1. LastSlot(j)' = frames[j + 1].slots - 1 /\ LastSlot(j) = frames[j + 1].slots - 1
      BY <1>2, <2>4 DEF LastSlot
    <3>2. j + 1 \in 1..Len(frames)
      BY <1>1, <2>4
    <3>3. frames[j + 1].slots \in 1..slots
      BY <3>2, FrameBases
    <3>4. p \in 1..top /\ p < slots
      BY <1>1, <2>1, <3>1, <3>3, SMTT(30)
    <3>5. p <= stack_top /\ IsVar(p)
      BY <1>1, <3>4
    <3> QED
      BY <2>2, <3>1, <3>4, <3>5
  <2> QED
    BY <2>3, <2>4
<1>7. CellsDistinct'
  <2> SUFFICES ASSUME NEW p \in 1..top, NEW q \in 1..top, evalstack'[p].cell # 0,
                      evalstack'[p].cell = evalstack'[q].cell
               PROVE  p = q
    BY DEF CellsDistinct, IsVar, stack_top
  <2> DEFINE Old(x) == x <= stack_top /\ IsVar(x)
  <2>1. ASSUME NEW x \in 1..top, evalstack'[x].cell # 0, Old(x)
        PROVE  x \in 1..stack_top /\ evalstack'[x].cell = evalstack[x].cell
               /\ evalstack'[x].cell \in UsedCells
    BY <1>1, <1>3, <2>1
  <2>2. ASSUME NEW x \in 1..top, evalstack'[x].cell # 0, ~Old(x)
        PROVE  x = top /\ evalstack'[x].cell \notin UsedCells
    BY <2>2
  <2>3. CASE Old(p) /\ Old(q)
    <3>1. p \in 1..stack_top /\ q \in 1..stack_top /\ evalstack[p].cell = evalstack[q].cell
          /\ IsVar(p)
      BY <2>1, <2>3
    <3> QED
      BY <3>1 DEF StackInv, CellsDistinct
  <2>4. CASE ~Old(p) /\ ~Old(q)
    BY <2>2, <2>4
  <2> HIDE DEF Old
  <2> QED
    BY <2>1, <2>2, <2>3, <2>4
<1>8. OpenListSorted' /\ ListDescends' /\ OneUpvaluePerVariable'
  BY <1>2 DEF StackInv, OpenListSorted, ListDescends, OneUpvaluePerVariable, Open
<1>9. OpenUpvaluesOnStack' /\ CapturedKnown'
  <2>1. ASSUME NEW u \in ToSet(open_upvalues)
        PROVE  /\ upvalues[u].location \in 1..top
               /\ evalstack'[upvalues[u].location].cell = upvalues[u].cell
               /\ evalstack'[upvalues[u].location].is_captured
    <3>1. u \in DOMAIN upvalues /\ upvalues[u].location # 0
      BY ListElements DEF StackInv
    <3>2. /\ upvalues[u].location \in 1..stack_top /\ IsVar(upvalues[u].location)
          /\ evalstack[upvalues[u].location].cell = upvalues[u].cell
          /\ evalstack[upvalues[u].location].is_captured
      BY <3>1, OpenPointsToVariable
    <3>3. upvalues[u].location \in 1..top
      BY <1>1, <3>1, <3>2
    <3> QED
      BY <1>1, <3>2, <3>3
  <2> QED
    BY <1>2, <2>1 DEF OpenUpvaluesOnStack, CapturedKnown, stack_top
<1>10. ClosedLeftStack'
  <2> SUFFICES ASSUME NEW u \in DOMAIN upvalues, upvalues[u].location = 0,
                      NEW p \in 1..top, evalstack'[p].cell = upvalues[u].cell
               PROVE  FALSE
    BY <1>2 DEF ClosedLeftStack, Open, stack_top
  <2>1. evalstack'[p].cell # 0
    BY ListElements DEF StackInv
  <2>2. p <= stack_top /\ IsVar(p)
    BY <1>4, <2>1
  <2>3. p \in 1..stack_top /\ evalstack[p].cell = upvalues[u].cell
    BY <1>1, <2>2
  <2> QED
    BY <2>3 DEF StackInv, ClosedLeftStack, Open
<1>11. TempsPlain'
  <2> SUFFICES ASSUME NEW p \in 1..top, evalstack'[p].cell = 0
               PROVE  evalstack'[p] = Temp(evalstack'[p].val)
    BY DEF TempsPlain, IsVar, stack_top, Temp
  <2>1. CASE p <= stack_top /\ evalstack'[p] = evalstack[p]
    BY <1>1, <2>1 DEF StackInv, TempsPlain, IsVar
  <2>2. CASE \E v \in Value : evalstack'[p] = Temp(v)
    BY <2>2 DEF Temp
  <2> QED
    BY <2>1, <2>2
<1> QED
  BY <1>5, <1>6, <1>7, <1>8, <1>9, <1>10, <1>11 DEF StackInv

-----------------------------------------------------------------------------
(* Instructions that change the stack only *)

(* An instruction that changes only slots, and lets the variables below    *)
(* open upvalues be, keeps the invariant.                                  *)
LEMMA StackOnly ==
  ASSUME ClosuresInv, Ready, evalstack' \in Seq(SlotType), SlotsKept,
         UNCHANGED <<frames, open_upvalues, upvalues, closures, capturing>>
  PROVE  ClosuresInv'
<1>1. TypeOK'
  BY DEF ClosuresInv, TypeOK
<1>2. StackInv'
  BY <1>1, SlotsChange DEF ClosuresInv, Ready
<1>3. NothingFreed'
  BY DEF ClosuresInv, NothingFreed
<1>4. UnderConstruction'
  BY DEF Ready, UnderConstruction
<1> QED
  BY <1>1, <1>2, <1>3, <1>4 DEF ClosuresInv

(* A temporary is a slot.                                                  *)
LEMMA TempType ==
  ASSUME NEW v \in Value
  PROVE  Temp(v) \in SlotType /\ Temp(v).cell = 0 /\ Temp(v).val = v
  BY DEF Temp, SlotType

(* Open upvalues do not point beyond the top.                              *)
LEMMA LocationsBelowTop ==
  ASSUME ClosuresInv
  PROVE  \A u \in DOMAIN upvalues : upvalues[u].location <= stack_top
<1> TAKE u \in DOMAIN upvalues
<1>1. CASE upvalues[u].location = 0
  BY <1>1, SlotTypes DEF ClosuresInv
<1>2. CASE upvalues[u].location # 0
  BY <1>2, OpenPointsToVariable, SlotTypes DEF ClosuresInv
<1> QED
  BY <1>1, <1>2

(* A temporary is pushed.                                                  *)
LEMMA PushTemp ==
  ASSUME ClosuresInv, frames # <<>>, NEW v \in Value,
         evalstack' = Append(evalstack, Temp(v))
  PROVE  evalstack' \in Seq(SlotType) /\ SlotsKept
<1>1. slots \in Nat /\ slots <= stack_top
  BY CurrentFrame DEF ClosuresInv, StackInv
<1>2. /\ evalstack' \in Seq(SlotType) /\ Len(evalstack') = stack_top + 1
      /\ \A p \in 1..stack_top : evalstack'[p] = evalstack[p]
      /\ evalstack'[stack_top + 1] = Temp(v)
  BY TempType, AppendProperties DEF ClosuresInv, TypeOK, stack_top
<1>3. stack_top \in Nat
  BY SlotTypes DEF ClosuresInv
<1>4. \A p \in 1..(stack_top + 1) : p \in 1..stack_top \/ p = stack_top + 1
  BY <1>3
<1>5. \A u \in DOMAIN upvalues : upvalues[u].location <= stack_top + 1
  BY <1>3, LocationsBelowTop, ListElements DEF ClosuresInv, StackInv
<1>6. \A p \in 1..(stack_top + 1) : p <= stack_top /\ IsVar(p) => evalstack'[p] = evalstack[p]
  BY <1>2, <1>3
<1>7. \A p \in 1..slots : evalstack'[p] = evalstack[p]
  BY <1>1, <1>2, <1>3
<1>8. \A p \in 1..(stack_top + 1) : evalstack'[p].cell # 0 => p <= stack_top /\ IsVar(p)
  BY <1>2, <1>3, <1>4, TempType DEF IsVar
<1>9. \A p \in 1..(stack_top + 1) : \/ p <= stack_top /\ evalstack'[p] = evalstack[p]
                                    \/ evalstack'[p] = Temp(v)
  BY <1>2, <1>3, <1>4
<1> QED
  BY <1>1, <1>2, <1>3, <1>5, <1>6, <1>7, <1>8, <1>9 DEF SlotsKept

(* The slots above slot n are removed; nothing open points to them.        *)
LEMMA Truncate ==
  ASSUME ClosuresInv, frames # <<>>, NEW n \in slots..stack_top,
         \A u \in DOMAIN upvalues : upvalues[u].location <= n,
         evalstack' = SubSeq(evalstack, 1, n)
  PROVE  evalstack' \in Seq(SlotType) /\ SlotsKept
<1>1. slots \in Nat /\ stack_top \in Nat
  BY CurrentFrame DEF ClosuresInv, StackInv
<1>2. n \in Nat
  BY <1>1
<1>3. /\ evalstack' \in Seq(SlotType) /\ Len(evalstack') = n
      /\ \A p \in 1..n : evalstack'[p] = evalstack[p]
  <2>1. \A p \in 1..n : evalstack[p] \in SlotType
    BY <1>1, SlotTypes DEF ClosuresInv
  <2>2. /\ evalstack' \in Seq(SlotType) /\ Len(evalstack') = IF 1 <= n THEN n - 1 + 1 ELSE 0
        /\ \A p \in 1..(n - 1 + 1) : evalstack'[p] = evalstack[1 + p - 1]
    BY <1>2, <2>1, SubSeqProperties
  <2> QED
    BY <1>2, <2>2
<1>4. \A p \in 1..slots : evalstack'[p] = evalstack[p]
  BY <1>1, <1>3
<1>5. \A p \in 1..n : p <= stack_top
  BY <1>1
<1> QED
  BY <1>1, <1>3, <1>4, <1>5 DEF SlotsKept, IsVar

(* A new variable is different from all in use.                            *)
LEMMA FreshCellIsNew ==
  ASSUME ClosuresInv
  PROVE  FreshCell \in Nat \ {0} /\ FreshCell \notin UsedCells
<1>1. FreshCells(1) \in [1..1 -> (Nat \ {0}) \ UsedCells]
  BY FreshCellsAreNew DEF ClosuresInv
<1>2. FreshCells(1)[1] \in (Nat \ {0}) \ UsedCells
  BY <1>1
<1> QED
  BY <1>2 DEF FreshCell

(* What an upvalue reads is a value, on the stack or of its own.           *)
LEMMA DerefType ==
  ASSUME ClosuresInv, NEW u \in DOMAIN upvalues
  PROVE  Deref(u) \in Value
<1>1. CASE upvalues[u].location = 0
  BY <1>1, ListElements DEF ClosuresInv, StackInv, Deref, Open
<1>2. CASE upvalues[u].location # 0
  BY <1>2, OpenPointsToVariable, SlotTypes DEF ClosuresInv, Deref, Open
<1> QED
  BY <1>1, <1>2

(* While a function runs there is a value on the top of the stack.         *)
LEMMA TopValueType ==
  ASSUME ClosuresInv, frames # <<>>
  PROVE  TopValue \in Value /\ stack_top \in 1..stack_top
<1>1. stack_top \in Nat /\ stack_top >= slots /\ slots \in Nat \ {0}
  BY CurrentFrame DEF ClosuresInv, StackInv
<1>2. stack_top \in 1..stack_top
  BY <1>1
<1> QED
  BY <1>2, SlotTypes DEF ClosuresInv, TopValue

(* The value of a variable on the stack changes.                           *)
LEMMA StoreSlot ==
  ASSUME ClosuresInv, frames # <<>>, NEW p \in 1..stack_top, IsVar(p), NEW v \in Value,
         evalstack' = [evalstack EXCEPT ![p].val = v]
  PROVE  evalstack' \in Seq(SlotType) /\ SlotsKept
<1>1. slots \in Nat /\ stack_top \in Nat /\ slots <= stack_top
  BY CurrentFrame DEF ClosuresInv, StackInv
<1> DEFINE s == [evalstack[p] EXCEPT !.val = v]
<1>2. ASSUME NEW r \in SlotType
      PROVE  LET t == [r EXCEPT !.val = v]
             IN t \in SlotType /\ t.cell = r.cell /\ t.is_captured = r.is_captured
  BY DEF SlotType
<1>3. evalstack[p] \in SlotType
  BY SlotTypes DEF ClosuresInv
<1>4. s \in SlotType /\ s.cell = evalstack[p].cell /\ s.is_captured = evalstack[p].is_captured
  BY <1>2, <1>3
<1>5. evalstack' = [evalstack EXCEPT ![p] = s]
  OBVIOUS
<1> HIDE DEF s
<1>6. /\ evalstack' \in Seq(SlotType) /\ Len(evalstack') = stack_top
      /\ \A q \in 1..stack_top : evalstack'[q] = IF q = p THEN s ELSE evalstack[q]
  <2>1. evalstack \in Seq(SlotType) /\ p \in 1..Len(evalstack) /\ s \in SlotType
    BY <1>4 DEF ClosuresInv, TypeOK, stack_top
  <2> QED
    BY <1>5, <2>1, ExceptSeq DEF stack_top
<1>7. \A q \in 1..stack_top : /\ evalstack'[q].cell = evalstack[q].cell
                              /\ evalstack'[q].is_captured = evalstack[q].is_captured
                              /\ ~IsVar(q) => evalstack'[q] = evalstack[q]
  BY <1>4, <1>6
<1>8. \A q \in 1..slots : q \in 1..stack_top
  BY <1>1
<1>9. \A q \in 1..stack_top : q <= stack_top
  BY <1>1
<1>10. \A u \in DOMAIN upvalues : upvalues[u].location <= Len(evalstack')
  BY <1>6, LocationsBelowTop
<1> QED
  BY <1>1, <1>6, <1>7, <1>8, <1>9, <1>10 DEF SlotsKept, IsVar

(* Values of closed upvalues change.                                       *)
LEMMA UpvaluesKept ==
  ASSUME ClosuresInv, TypeOK', UNCHANGED <<evalstack, frames, open_upvalues>>,
         DOMAIN upvalues' = DOMAIN upvalues,
         \A u \in DOMAIN upvalues : /\ upvalues'[u].location = upvalues[u].location
                                    /\ upvalues'[u].cell = upvalues[u].cell
  PROVE  StackInv'
<1> USE DEF ClosuresInv, StackInv
<1>1. FramesNested' /\ FramesAscend'
  BY DEF FramesNested, FramesAscend, stack_top, Temp
<1>2. LocalsFirst' /\ CellsDistinct' /\ TempsPlain'
  BY DEF LocalsFirst, LastSlot, stack_top, CellsDistinct, TempsPlain, IsVar, Temp
<1>3. ToSet(open_upvalues') = ToSet(open_upvalues) /\ ToSet(open_upvalues) \subseteq DOMAIN upvalues
  BY ListElements
<1>4. \A j \in 1..Len(open_upvalues) : open_upvalues[j] \in DOMAIN upvalues
  BY <1>3 DEF TypeOK, ToSet
<1>5. OpenListSorted'
  <2>1. ToSet(open_upvalues') = {u \in DOMAIN upvalues' : upvalues'[u].location # 0}
    BY <1>3 DEF OpenListSorted, Open
  <2>2. \A j \in 1..(Len(open_upvalues) - 1) :
          upvalues'[open_upvalues[j]].location > upvalues'[open_upvalues[j + 1]].location
    <3> TAKE j \in 1..(Len(open_upvalues) - 1)
    <3>1. j \in 1..Len(open_upvalues) /\ j + 1 \in 1..Len(open_upvalues)
      BY ListElements
    <3> QED
      BY <1>4, <3>1 DEF OpenListSorted
  <2> QED
    BY <2>1, <2>2 DEF OpenListSorted, Open
<1>6. ListDescends'
  BY <1>4 DEF ListDescends
<1>7. OpenUpvaluesOnStack' /\ CapturedKnown'
  BY <1>3 DEF OpenUpvaluesOnStack, CapturedKnown, stack_top
<1>8. ClosedLeftStack' /\ OneUpvaluePerVariable'
  BY DEF ClosedLeftStack, OneUpvaluePerVariable, Open, stack_top
<1> QED
  BY <1>1, <1>2, <1>5, <1>6, <1>7, <1>8

(* One lemma for each of these instructions *)

(* Pushing a constant, a global or a closure keeps the invariant.          *)
LEMMA PushInv ==
  ASSUME ClosuresInv, NEW v \in Vals \cup DOMAIN closures, Push(v)
  PROVE  ClosuresInv'
<1>1. v \in Value
  BY DEF ClosuresInv, TypeOK, Value
<1> QED
  BY <1>1, PushTemp, StackOnly DEF Push, Ready

(* LOAD_LOCAL keeps the invariant.                                         *)
LEMMA LoadLocalInv ==
  ASSUME ClosuresInv, NEW p \in 1..stack_top, LoadLocal(p)
  PROVE  ClosuresInv'
<1>1. evalstack[p].val \in Value
  BY SlotTypes DEF ClosuresInv
<1> QED
  BY <1>1, PushTemp, StackOnly DEF LoadLocal, Ready

(* An upvalue of the running closure exists.                               *)
LEMMA CurrentUpvalue ==
  ASSUME ClosuresInv, frames # <<>>, NEW j \in DOMAIN current.upvalues
  PROVE  current.upvalues[j] \in DOMAIN upvalues
  BY CurrentClosure DEF ClosuresInv, StackInv, ToSet

(* LOAD_UPVALUE keeps the invariant.                                       *)
LEMMA LoadUpvalueInv ==
  ASSUME ClosuresInv, NEW j, LoadUpvalue(j)
  PROVE  ClosuresInv'
<1>1. Deref(current.upvalues[j]) \in Value
  BY CurrentUpvalue, DerefType DEF LoadUpvalue, Ready
<1> QED
  BY <1>1, PushTemp, StackOnly DEF LoadUpvalue, Ready

(* Popping a temporary keeps the invariant.                                *)
LEMMA PopTempInv ==
  ASSUME ClosuresInv, PopTemp
  PROVE  ClosuresInv'
<1>1. frames # <<>> /\ Ready /\ evalstack' = SubSeq(evalstack, 1, stack_top - 1)
      /\ stack_top > slots /\ ~IsVar(stack_top)
      /\ UNCHANGED <<frames, open_upvalues, upvalues, closures, capturing>>
  BY DEF PopTemp, Ready, Pop
<1>2. slots \in Nat /\ stack_top \in Nat
  BY <1>1, CurrentFrame DEF ClosuresInv, StackInv
<1>3. stack_top - 1 \in slots..stack_top
  BY <1>1, <1>2
<1>4. ASSUME NEW u \in DOMAIN upvalues
      PROVE  upvalues[u].location <= stack_top - 1
  <2>1. CASE upvalues[u].location = 0
    BY <1>1, <1>2, <2>1
  <2>2. CASE upvalues[u].location # 0
    <3>1. upvalues[u].location \in 1..stack_top /\ upvalues[u].location # stack_top
      BY <1>1, <2>2, OpenPointsToVariable DEF ClosuresInv
    <3> QED
      BY <1>2, <3>1
  <2> QED
    BY <2>1, <2>2
<1>5. evalstack' \in Seq(SlotType) /\ SlotsKept
  BY <1>1, <1>3, <1>4, Truncate
<1> QED
  BY <1>1, <1>5, StackOnly

(* A continue that leaves no captured variables pops them without closing  *)
(* anything, and keeps the invariant.                                      *)
LEMMA ContinueInv ==
  ASSUME ClosuresInv, ~UnsafeContinue, NEW p \in 1..stack_top, Continue(p)
  PROVE  ClosuresInv'
<1>1. /\ frames # <<>> /\ Ready /\ evalstack' = SubSeq(evalstack, 1, p - 1)
      /\ p > slots + current.arity
      /\ \A q \in p..stack_top : ~evalstack[q].is_captured
      /\ UNCHANGED <<frames, open_upvalues, upvalues, closures, capturing>>
  BY DEF Continue, Ready, ScopedFrom
<1>2. slots \in Nat /\ stack_top \in Nat /\ current.arity \in Nat
  BY <1>1, CurrentFrame, CurrentClosure DEF ClosuresInv, StackInv
<1>3. p - 1 \in slots..stack_top
  BY <1>1, <1>2
<1>4. ASSUME NEW u \in DOMAIN upvalues
      PROVE  upvalues[u].location <= p - 1
  <2>1. CASE upvalues[u].location = 0
    BY <1>1, <1>2, <2>1
  <2>2. CASE upvalues[u].location # 0
    <3>1. upvalues[u].location \in 1..stack_top /\ upvalues[u].location \notin p..stack_top
      BY <1>1, <2>2, OpenPointsToVariable DEF ClosuresInv
    <3> QED
      BY <1>2, <3>1
  <2> QED
    BY <2>1, <2>2
<1>5. evalstack' \in Seq(SlotType) /\ SlotsKept
  BY <1>1, <1>3, <1>4, Truncate
<1> QED
  BY <1>1, <1>5, StackOnly

(* STORE_LOCAL keeps the invariant.                                        *)
LEMMA StoreLocalInv ==
  ASSUME ClosuresInv, NEW p \in 1..stack_top, StoreLocal(p)
  PROVE  ClosuresInv'
<1>1. TopValue \in Value /\ IsVar(p)
  BY TopValueType DEF StoreLocal, Ready, Locals
<1> QED
  BY <1>1, StoreSlot, StackOnly DEF StoreLocal, Ready

(* STORE_UPVALUE, to a slot or to a closed upvalue, keeps the invariant.   *)
LEMMA StoreUpvalueInv ==
  ASSUME ClosuresInv, NEW j, StoreUpvalue(j)
  PROVE  ClosuresInv'
<1> DEFINE u == current.upvalues[j]
<1>1. frames # <<>> /\ Ready /\ j \in DOMAIN current.upvalues
      /\ UNCHANGED <<frames, open_upvalues, closures, capturing>>
  BY DEF StoreUpvalue, Ready
<1>2. u \in DOMAIN upvalues /\ TopValue \in Value
  BY <1>1, CurrentUpvalue, TopValueType
<1>3. CASE upvalues[u].location # 0
  <2>1. evalstack' = [evalstack EXCEPT ![upvalues[u].location].val = TopValue]
        /\ UNCHANGED upvalues
    BY <1>3 DEF StoreUpvalue, Open
  <2>2. upvalues[u].location \in 1..stack_top /\ IsVar(upvalues[u].location)
    BY <1>2, <1>3, OpenPointsToVariable DEF ClosuresInv
  <2> HIDE DEF u
  <2>3. evalstack' \in Seq(SlotType) /\ SlotsKept
    BY <1>1, <1>2, <2>1, <2>2, StoreSlot
  <2> QED
    BY <1>1, <2>1, <2>3, StackOnly
<1>4. CASE upvalues[u].location = 0
  <2>1. upvalues' = [upvalues EXCEPT ![u].closed = TopValue] /\ UNCHANGED evalstack
    BY <1>4 DEF StoreUpvalue, Open
  <2> HIDE DEF u
  <2>2. ASSUME NEW r \in UpvalueType, NEW v \in Value
        PROVE  LET c == [r EXCEPT !.closed = v]
               IN c \in UpvalueType /\ c.cell = r.cell /\ c.location = r.location
    BY DEF UpvalueType
  <2>3. ASSUME NEW w \in DOMAIN upvalues
        PROVE  /\ upvalues'[w] \in UpvalueType
               /\ upvalues'[w].location = upvalues[w].location
               /\ upvalues'[w].cell = upvalues[w].cell
    <3>1. upvalues[w] \in UpvalueType
      BY DEF ClosuresInv, TypeOK
    <3>2. CASE w = u
      <4>1. upvalues'[w] = [upvalues[w] EXCEPT !.closed = TopValue]
        BY <1>2, <2>1, <3>2
      <4> QED
        BY <1>2, <2>2, <3>1, <4>1
    <3>3. CASE w # u
      BY <2>1, <3>1, <3>3
    <3> QED
      BY <3>2, <3>3
  <2>4. DOMAIN upvalues' = DOMAIN upvalues
    BY <2>1
  <2>5. TypeOK'
    BY <1>1, <2>1, <2>3, <2>4 DEF ClosuresInv, TypeOK
  <2>6. StackInv'
    BY <1>1, <2>1, <2>3, <2>4, <2>5, UpvaluesKept
  <2>7. NothingFreed'
    BY <1>1, <2>4 DEF ClosuresInv, NothingFreed
  <2>8. UnderConstruction'
    BY <1>1 DEF Ready, UnderConstruction
  <2> QED
    BY <2>4, <2>5, <2>6, <2>7, <2>8 DEF ClosuresInv
<1> QED
  BY <1>3, <1>4

(* The top slot becomes a variable.                                        *)
LEMMA DefineLocalInv ==
  ASSUME ClosuresInv, NEW captured \in BOOLEAN, DefineLocal(captured)
  PROVE  ClosuresInv'
<1> DEFINE s == Var(TopValue, FreshCell, captured)
<1>1. /\ frames # <<>> /\ Ready /\ stack_top > slots /\ ~IsVar(stack_top)
      /\ \A p \in (slots + 1)..(stack_top - 1) : IsVar(p)
      /\ evalstack' = [evalstack EXCEPT ![stack_top] = s]
      /\ UNCHANGED <<frames, open_upvalues, upvalues, closures, capturing>>
  BY DEF DefineLocal, Ready
<1>2. slots \in Nat /\ stack_top \in Nat
  BY <1>1, CurrentFrame DEF ClosuresInv, StackInv
<1>3. s \in SlotType /\ s.cell # 0 /\ s.cell \notin UsedCells
  BY <1>1, FreshCellIsNew, TopValueType DEF Var, SlotType
<1> HIDE DEF s
<1>4. /\ evalstack' \in Seq(SlotType) /\ Len(evalstack') = stack_top
      /\ \A q \in 1..stack_top : evalstack'[q] = IF q = stack_top THEN s ELSE evalstack[q]
  <2>1. evalstack \in Seq(SlotType) /\ stack_top \in 1..Len(evalstack) /\ s \in SlotType
    BY <1>1, <1>3, TopValueType DEF ClosuresInv, TypeOK, stack_top
  <2> QED
    BY <1>1, <2>1, ExceptSeq DEF stack_top
<1>5. SlotsKept
  <2>1. slots <= Len(evalstack')
    BY <1>1, <1>2, <1>4
  <2>2. \A u \in DOMAIN upvalues : upvalues[u].location <= Len(evalstack')
    BY <1>4, LocationsBelowTop
  <2>3. \A q \in 1..stack_top : IsVar(q) => evalstack'[q] = evalstack[q]
    BY <1>1, <1>4
  <2>4. \A q \in 1..slots : evalstack'[q] = evalstack[q]
    BY <1>1, <1>2, <1>4
  <2>5. \A q \in (slots + 1)..(stack_top - 1) : evalstack'[q].cell # 0
    BY <1>1, <1>2, <1>4 DEF IsVar
  <2>6. \A q \in 1..stack_top : evalstack'[q].cell # 0 => IsVar(q) \/ q = stack_top
    BY <1>4 DEF IsVar
  <2>7. evalstack'[stack_top] = s
    BY <1>1, <1>2, <1>4
  <2> QED
    BY <1>1, <1>2, <1>3, <1>4, <2>1, <2>2, <2>3, <2>4, <2>5, <2>6, <2>7 DEF SlotsKept
<1> QED
  BY <1>1, <1>4, <1>5, StackOnly

-----------------------------------------------------------------------------
(* The end of variables *)

(* close_upvalues(last), when the slots from last on are given up.         *)
LEMMA UpvaluesClosed ==
  ASSUME ClosuresInv, NEW last \in 1..stack_top, CloseUpvalues(last),
         evalstack' \in Seq(SlotType), last - 1 <= Len(evalstack'),
         \A p \in 1..(last - 1) : evalstack'[p] = evalstack[p],
         \A p \in last..Len(evalstack') : evalstack'[p].cell = 0
  PROVE  /\ DOMAIN upvalues' = DOMAIN upvalues
         /\ \A u \in DOMAIN upvalues : upvalues'[u] \in UpvalueType
         /\ open_upvalues' \in Seq(Upvalue)
         /\ CellsDistinct' /\ OpenListSorted' /\ ListDescends' /\ OpenUpvaluesOnStack'
         /\ CapturedKnown' /\ ClosedLeftStack' /\ OneUpvaluePerVariable'
<1> DEFINE L == Len(open_upvalues)
           top == Len(evalstack')
<1>0. stack_top \in Nat /\ top \in Nat /\ L \in Nat /\ last \in Nat \ {0}
  BY SlotTypes, ListElements DEF ClosuresInv, StackInv
<1>1. /\ DOMAIN upvalues' = DOMAIN upvalues
      /\ \A u \in DOMAIN upvalues :
           /\ upvalues'[u] \in UpvalueType
           /\ upvalues'[u].cell = upvalues[u].cell
           /\ upvalues[u].location < last => upvalues'[u] = upvalues[u]
           /\ upvalues[u].location >= last => upvalues'[u].location = 0
      /\ open_upvalues' \in Seq(Upvalue)
  BY <1>0, CloseUpvaluesEffect DEF ClosuresInv, StackInv
<1>2. PICK n \in 0..L :
        /\ Len(open_upvalues') = L - n
        /\ \A j \in 1..(L - n) : open_upvalues'[j] = open_upvalues[n + j]
        /\ \A j \in 1..L : upvalues[open_upvalues[j]].location >= last <=> j <= n
  BY <1>0, CloseUpvaluesEffect DEF ClosuresInv, StackInv
<1>3. \A u \in DOMAIN upvalues : /\ upvalues[u].location \in Nat
                                 /\ upvalues[u].cell \in Nat \ {0}
  BY ListElements DEF ClosuresInv, StackInv
<1>4. \A j \in 1..L : open_upvalues[j] \in DOMAIN upvalues
  BY ListElements DEF ClosuresInv, StackInv
<1>5. \A u : u \in ToSet(open_upvalues') <=>
              u \in DOMAIN upvalues /\ upvalues[u].location # 0 /\ upvalues[u].location < last
  <2>1. ASSUME NEW u \in ToSet(open_upvalues')
        PROVE  u \in DOMAIN upvalues /\ upvalues[u].location # 0 /\ upvalues[u].location < last
    <3>1. PICK j \in 1..(L - n) : u = open_upvalues'[j]
      BY <1>1, <1>2 DEF ToSet
    <3>2. u = open_upvalues[n + j] /\ n + j \in 1..L /\ ~(n + j <= n)
      BY <1>0, <1>2, <3>1
    <3>3. u \in DOMAIN upvalues /\ upvalues[u].location # 0
      BY <1>0, <3>2, ListElements DEF ClosuresInv, StackInv
    <3>4. ~(upvalues[u].location >= last)
      BY <1>2, <3>2
    <3> QED
      BY <1>0, <1>3, <3>3, <3>4
  <2>2. ASSUME NEW u \in DOMAIN upvalues, upvalues[u].location # 0, upvalues[u].location < last
        PROVE  u \in ToSet(open_upvalues')
    <3>1. PICK j \in 1..L : u = open_upvalues[j]
      BY <2>2, ListElements DEF ClosuresInv, StackInv
    <3>2. ~(upvalues[u].location >= last)
      BY <1>0, <1>3, <2>2
    <3>3. j > n
      BY <1>0, <1>2, <3>1, <3>2
    <3>4. j - n \in 1..(L - n) /\ n + (j - n) = j
      BY <1>0, <3>3
    <3>5. u = open_upvalues'[j - n] /\ j - n \in DOMAIN open_upvalues'
      BY <1>1, <1>2, <3>1, <3>4
    <3> QED
      BY <3>5 DEF ToSet
  <2> QED
    BY <2>1, <2>2
<1>6. \A u \in DOMAIN upvalues :
        upvalues'[u].location # 0 <=> upvalues[u].location # 0 /\ upvalues[u].location < last
  BY <1>0, <1>1, <1>3
<1>7. CellsDistinct'
  <2> SUFFICES ASSUME NEW p \in 1..top, NEW q \in 1..top, evalstack'[p].cell # 0,
                      evalstack'[p].cell = evalstack'[q].cell
               PROVE  p = q
    BY DEF CellsDistinct, IsVar, stack_top
  <2>1. p \in 1..(last - 1) /\ q \in 1..(last - 1)
    BY <1>0
  <2>2. p \in 1..stack_top /\ q \in 1..stack_top /\ evalstack[p].cell = evalstack[q].cell
        /\ IsVar(p)
    BY <1>0, <2>1 DEF IsVar
  <2> QED
    BY <2>2 DEF ClosuresInv, StackInv, CellsDistinct
<1>8. ListDescends'
  <2> SUFFICES ASSUME NEW i \in 1..(L - n), NEW j \in 1..(L - n), i < j
               PROVE  upvalues'[open_upvalues'[i]].location > upvalues'[open_upvalues'[j]].location
    BY <1>2 DEF ListDescends
  <2>1. n + i \in 1..L /\ n + j \in 1..L /\ n + i < n + j
        /\ open_upvalues'[i] = open_upvalues[n + i] /\ open_upvalues'[j] = open_upvalues[n + j]
    BY <1>0, <1>2
  <2>2. upvalues[open_upvalues[n + i]].location > upvalues[open_upvalues[n + j]].location
    BY <2>1 DEF ClosuresInv, StackInv, ListDescends
  <2>3. ASSUME NEW k \in 1..(L - n) PROVE upvalues'[open_upvalues'[k]] = upvalues[open_upvalues'[k]]
    <3>1. open_upvalues'[k] \in ToSet(open_upvalues')
      BY <1>1, <1>2 DEF ToSet
    <3> QED
      BY <1>1, <1>5, <3>1
  <2> QED
    BY <2>1, <2>2, <2>3
<1>9. OpenListSorted'
  <2>1. ToSet(open_upvalues') = {u \in DOMAIN upvalues' : upvalues'[u].location # 0}
    BY <1>1, <1>5, <1>6
  <2>2. Len(open_upvalues') \in Nat
    BY <1>1
  <2>3. \A j \in 1..(Len(open_upvalues') - 1) :
          upvalues'[open_upvalues'[j]].location > upvalues'[open_upvalues'[j + 1]].location
    BY <1>8, <2>2 DEF ListDescends
  <2> QED
    BY <2>1, <2>3 DEF OpenListSorted, Open
<1>10. OpenUpvaluesOnStack' /\ CapturedKnown'
  <2>1. ASSUME NEW u \in ToSet(open_upvalues')
        PROVE  /\ upvalues'[u].location \in 1..top
               /\ evalstack'[upvalues'[u].location].cell = upvalues'[u].cell
               /\ evalstack'[upvalues'[u].location].is_captured
    <3>1. u \in DOMAIN upvalues /\ upvalues[u].location # 0 /\ upvalues[u].location < last
          /\ upvalues'[u] = upvalues[u]
      BY <1>1, <1>5
    <3>2. /\ evalstack[upvalues[u].location].cell = upvalues[u].cell
          /\ evalstack[upvalues[u].location].is_captured
      BY <3>1, OpenPointsToVariable DEF ClosuresInv
    <3>3. upvalues[u].location \in 1..(last - 1)
      BY <1>0, <1>3, <3>1
    <3>4. upvalues[u].location \in 1..top
      BY <1>0, <3>3
    <3> QED
      BY <3>1, <3>2, <3>3, <3>4
  <2> QED
    BY <2>1 DEF OpenUpvaluesOnStack, CapturedKnown, stack_top
<1>11. ClosedLeftStack'
  <2> SUFFICES ASSUME NEW u \in DOMAIN upvalues, upvalues'[u].location = 0,
                      NEW p \in 1..top, evalstack'[p].cell = upvalues'[u].cell
               PROVE  FALSE
    BY <1>1 DEF ClosedLeftStack, Open, stack_top
  <2>1. evalstack'[p].cell = upvalues[u].cell /\ evalstack'[p].cell # 0
    BY <1>1, <1>3
  <2>2. p \in 1..(last - 1)
    BY <1>0, <2>1
  <2>3. p \in 1..stack_top /\ evalstack[p].cell = upvalues[u].cell
    BY <1>0, <2>1, <2>2
  <2>4. CASE upvalues[u].location = 0
    BY <2>3, <2>4 DEF ClosuresInv, StackInv, ClosedLeftStack, Open
  <2>5. CASE upvalues[u].location # 0
    <3>1. upvalues[u].location \in 1..stack_top
          /\ IsVar(upvalues[u].location)
          /\ evalstack[upvalues[u].location].cell = upvalues[u].cell
      BY <2>5, OpenPointsToVariable DEF ClosuresInv
    <3>2. p = upvalues[u].location
      BY <2>3, <3>1 DEF ClosuresInv, StackInv, CellsDistinct
    <3> QED
      BY <1>0, <1>6, <2>2, <2>5, <3>2
  <2> QED
    BY <2>4, <2>5
<1>12. OneUpvaluePerVariable'
  BY <1>1 DEF ClosuresInv, StackInv, OneUpvaluePerVariable
<1> QED
  BY <1>1, <1>7, <1>8, <1>9, <1>10, <1>11, <1>12

(* The slots above slot n, which belongs to the call in progress, go.      *)
LEMMA FramesTruncated ==
  ASSUME ClosuresInv, frames # <<>>, NEW n \in slots..stack_top, UNCHANGED frames,
         Len(evalstack') = n, \A p \in 1..n : evalstack'[p] = evalstack[p]
  PROVE  FramesNested' /\ FramesAscend' /\ LocalsFirst' /\ TempsPlain'
<1>1. slots \in Nat \ {0} /\ stack_top \in Nat /\ n \in Nat /\ Len(frames) \in Nat \ {0}
  BY CurrentFrame DEF ClosuresInv, StackInv
<1>2. FramesNested' /\ FramesAscend'
  <2>1. ASSUME NEW j \in 1..Len(frames)
        PROVE  frames[j].slots <= n /\ evalstack'[frames[j].slots] = Temp(frames[j].closure)
    BY <1>1, FrameBases DEF ClosuresInv
  <2>2. \A j \in 1..Len(frames) : j > 1 => frames[j - 1].slots < frames[j].slots
    BY DEF ClosuresInv, StackInv, FramesNested
  <2> QED
    BY <2>1, <2>2 DEF ClosuresInv, StackInv, FramesNested, FramesAscend, stack_top, Temp
<1>3. LocalsFirst'
  <2> SUFFICES ASSUME NEW j \in 1..Len(frames),
                      NEW p \in (frames[j].slots + 1)..(LastSlot(j)'),
                      NEW q \in (frames[j].slots + 1)..(LastSlot(j)'),
                      q < p, evalstack'[p].cell # 0
               PROVE  evalstack'[q].cell # 0
    BY DEF LocalsFirst, IsVar
  <2>1. frames[j].slots \in Nat
    BY <1>1, FrameBases DEF ClosuresInv
  <2>2. LastSlot(j)' <= n /\ LastSlot(j)' <= LastSlot(j) /\ LastSlot(j) \in Int /\ LastSlot(j)' \in Int
    <3>1. CASE j = Len(frames)
      BY <1>1, <3>1 DEF LastSlot, stack_top
    <3>2. CASE j # Len(frames)
      <4>1. j + 1 \in 1..Len(frames)
        BY <1>1, <3>2
      <4>2. frames[j + 1].slots \in 1..slots
        BY <4>1, FrameBases DEF ClosuresInv
      <4> QED
        BY <1>1, <3>2, <4>2 DEF LastSlot
    <3> QED
      BY <3>1, <3>2
  <2>3. /\ p \in 1..n /\ q \in 1..n
        /\ p \in (frames[j].slots + 1)..LastSlot(j) /\ q \in (frames[j].slots + 1)..LastSlot(j)
    BY <1>1, <2>1, <2>2
  <2> QED
    BY <2>3 DEF ClosuresInv, StackInv, LocalsFirst, IsVar
<1>4. TempsPlain'
  <2>1. ASSUME NEW p \in 1..n, evalstack'[p].cell = 0
        PROVE  evalstack'[p] = Temp(evalstack'[p].val)
    <3>1. p \in 1..stack_top /\ ~IsVar(p) /\ evalstack'[p] = evalstack[p]
      BY <1>1, <2>1 DEF IsVar
    <3>2. evalstack[p] = Temp(evalstack[p].val)
      BY <3>1 DEF ClosuresInv, StackInv, TempsPlain
    <3> QED
      BY <3>1, <3>2
  <2> QED
    BY <2>1 DEF TempsPlain, IsVar, stack_top, Temp
<1> QED
  BY <1>2, <1>3, <1>4

(* POP_TOP or CLOSE_UPVALUE at the end of a scope keeps the invariant: a   *)
(* variable that is not marked as captured has no upvalue.                 *)
LEMMA EndScopeInv ==
  ASSUME ClosuresInv, EndScope
  PROVE  ClosuresInv'
<1>1. /\ frames # <<>> /\ Ready /\ evalstack' = SubSeq(evalstack, 1, stack_top - 1)
      /\ stack_top > slots + current.arity
      /\ UNCHANGED <<frames, closures, capturing>>
  BY DEF EndScope, Ready, Pop, ScopedFrom
<1>2. slots \in Nat \ {0} /\ stack_top \in Nat /\ current.arity \in Nat
  BY <1>1, CurrentFrame, CurrentClosure DEF ClosuresInv, StackInv
<1> DEFINE n == stack_top - 1
<1>3. n \in slots..stack_top /\ n \in Nat /\ stack_top \in 1..stack_top
  BY <1>1, <1>2
<1>4. CASE ~evalstack[stack_top].is_captured
  <2>1. UNCHANGED <<open_upvalues, upvalues>>
    BY <1>4 DEF EndScope
  <2>2. ASSUME NEW u \in DOMAIN upvalues
        PROVE  upvalues[u].location <= n
    <3>1. CASE upvalues[u].location = 0
      BY <1>3, <3>1
    <3>2. CASE upvalues[u].location # 0
      <4>1. upvalues[u].location \in 1..stack_top /\ upvalues[u].location # stack_top
        BY <1>4, <3>2, OpenPointsToVariable DEF ClosuresInv
      <4> QED
        BY <1>2, <4>1
    <3> QED
      BY <3>1, <3>2
  <2>3. evalstack' \in Seq(SlotType) /\ SlotsKept
    BY <1>1, <1>3, <2>2, Truncate
  <2> QED
    BY <1>1, <2>1, <2>3, StackOnly
<1>5. CASE evalstack[stack_top].is_captured
  <2>1. CloseUpvalues(stack_top)
    BY <1>5 DEF EndScope
  <2>2. /\ evalstack' \in Seq(SlotType) /\ Len(evalstack') = n
        /\ \A p \in 1..n : evalstack'[p] = evalstack[p]
    <3>1. \A p \in 1..n : evalstack[p] \in SlotType
      BY <1>2, SlotTypes DEF ClosuresInv
    <3> HIDE DEF n
    <3>2. evalstack' = SubSeq(evalstack, 1, n)
      BY <1>1 DEF n
    <3>3. /\ evalstack' \in Seq(SlotType) /\ Len(evalstack') = IF 1 <= n THEN n - 1 + 1 ELSE 0
          /\ \A p \in 1..(n - 1 + 1) : evalstack'[p] = evalstack[1 + p - 1]
      BY <1>3, <3>1, <3>2, SubSeqProperties
    <3> QED
      BY <1>3, <3>3
  <2>3. /\ DOMAIN upvalues' = DOMAIN upvalues
        /\ \A u \in DOMAIN upvalues : upvalues'[u] \in UpvalueType
        /\ open_upvalues' \in Seq(Upvalue)
        /\ CellsDistinct' /\ OpenListSorted' /\ ListDescends' /\ OpenUpvaluesOnStack'
        /\ CapturedKnown' /\ ClosedLeftStack' /\ OneUpvaluePerVariable'
    <3>1. stack_top - 1 <= Len(evalstack') /\ stack_top..Len(evalstack') = {}
      BY <1>2, <2>2
    <3> QED
      BY <1>3, <2>1, <2>2, <3>1, UpvaluesClosed
  <2>4. TypeOK'
    BY <1>1, <2>2, <2>3 DEF ClosuresInv, TypeOK
  <2>5. FramesNested' /\ FramesAscend' /\ LocalsFirst' /\ TempsPlain'
    <3> HIDE DEF n
    <3> QED
      BY <1>1, <1>3, <2>2, FramesTruncated
  <2>6. NothingFreed' /\ UnderConstruction'
    BY <1>1, <2>3 DEF ClosuresInv, NothingFreed, UnderConstruction, Ready
  <2> QED
    BY <2>3, <2>4, <2>5, <2>6 DEF ClosuresInv, StackInv
<1> QED
  BY <1>4, <1>5

(* RETURN closes the upvalues of the frame before the frame goes, and      *)
(* keeps the invariant.                                                    *)
LEMMA ReturnInv ==
  ASSUME ClosuresInv, Return
  PROVE  ClosuresInv'
<1> DEFINE below == SubSeq(evalstack, 1, slots - 1)
           top == Len(evalstack')
<1>1. /\ frames # <<>> /\ Ready /\ CloseUpvalues(slots)
      /\ frames' = SubSeq(frames, 1, Len(frames) - 1)
      /\ evalstack' = IF Len(frames) = 1 THEN below ELSE Append(below, Temp(TopValue))
      /\ UNCHANGED <<closures, capturing>>
  BY DEF Return, Ready
<1>2. /\ slots \in Nat \ {0} /\ stack_top \in Nat /\ slots <= stack_top
      /\ Len(frames) \in Nat \ {0} /\ slots = frames[Len(frames)].slots
  BY <1>1, CurrentFrame DEF ClosuresInv, StackInv, slots, current_frame
<1>3. below \in Seq(SlotType) /\ Len(below) = slots - 1
      /\ \A p \in 1..(slots - 1) : below[p] = evalstack[p]
  <2> DEFINE n == slots - 1
  <2>1. n \in Nat /\ \A p \in 1..n : evalstack[p] \in SlotType
    BY <1>2, SlotTypes DEF ClosuresInv
  <2> HIDE DEF n
  <2>2. /\ SubSeq(evalstack, 1, n) \in Seq(SlotType)
        /\ Len(SubSeq(evalstack, 1, n)) = IF 1 <= n THEN n - 1 + 1 ELSE 0
        /\ \A p \in 1..(n - 1 + 1) : SubSeq(evalstack, 1, n)[p] = evalstack[1 + p - 1]
    BY <2>1, SubSeqProperties
  <2>3. /\ SubSeq(evalstack, 1, n) \in Seq(SlotType) /\ Len(SubSeq(evalstack, 1, n)) = n
        /\ \A p \in 1..n : SubSeq(evalstack, 1, n)[p] = evalstack[p]
    BY <2>1, <2>2
  <2> QED
    BY <2>3 DEF n
<1> HIDE DEF below
<1>4. /\ evalstack' \in Seq(SlotType) /\ top \in {slots - 1, slots}
      /\ Len(frames) = 1 => top = slots - 1
      /\ Len(frames) # 1 => top = slots
      /\ \A p \in 1..(slots - 1) : evalstack'[p] = evalstack[p]
      /\ \A p \in slots..top : evalstack'[p].cell = 0 /\ evalstack'[p] = Temp(TopValue)
  <2>1. CASE Len(frames) = 1
    BY <1>1, <1>2, <1>3, <2>1
  <2>2. CASE Len(frames) # 1
    <3>1. Temp(TopValue) \in SlotType /\ Temp(TopValue).cell = 0
      BY <1>1, TempType, TopValueType
    <3>2. /\ evalstack' \in Seq(SlotType) /\ top = slots
          /\ \A p \in 1..(slots - 1) : evalstack'[p] = below[p]
          /\ evalstack'[slots] = Temp(TopValue)
      BY <1>1, <1>2, <1>3, <2>2, <3>1, AppendProperties
    <3> QED
      BY <1>2, <1>3, <2>2, <3>1, <3>2
  <2> QED
    BY <2>1, <2>2
<1>5. /\ DOMAIN upvalues' = DOMAIN upvalues
      /\ \A u \in DOMAIN upvalues : upvalues'[u] \in UpvalueType
      /\ open_upvalues' \in Seq(Upvalue)
      /\ CellsDistinct' /\ OpenListSorted' /\ ListDescends' /\ OpenUpvaluesOnStack'
      /\ CapturedKnown' /\ ClosedLeftStack' /\ OneUpvaluePerVariable'
  <2>1. slots \in 1..stack_top /\ slots - 1 <= top
    BY <1>2, <1>4
  <2> QED
    BY <1>1, <1>4, <2>1, UpvaluesClosed
<1>6. /\ frames' \in Seq(FrameType) /\ Len(frames') = Len(frames) - 1
      /\ \A j \in 1..(Len(frames) - 1) : frames'[j] = frames[j]
  <2> DEFINE n == Len(frames) - 1
  <2>1. n \in Nat /\ \A p \in 1..n : frames[p] \in FrameType
    BY <1>2 DEF ClosuresInv, TypeOK
  <2>2. frames' = SubSeq(frames, 1, n)
    BY <1>1
  <2> HIDE DEF n
  <2>3. /\ frames' \in Seq(FrameType)
        /\ Len(frames') = IF 1 <= n THEN n - 1 + 1 ELSE 0
        /\ \A p \in 1..(n - 1 + 1) : frames'[p] = frames[1 + p - 1]
    BY <2>1, <2>2, SubSeqProperties
  <2>4. /\ frames' \in Seq(FrameType) /\ Len(frames') = n
        /\ \A p \in 1..n : frames'[p] = frames[p]
    BY <2>1, <2>3
  <2> QED
    BY <2>4 DEF n
<1>7. TypeOK'
  BY <1>1, <1>4, <1>5, <1>6 DEF ClosuresInv, TypeOK
<1>8. \A j \in 1..(Len(frames) - 1) :
        j \in 1..Len(frames) /\ frames[j].slots \in 1..(slots - 1)
  BY <1>1, <1>2, FrameBases, SMTT(30) DEF ClosuresInv
<1>9. FramesNested'
  <2>1. ASSUME NEW j \in 1..(Len(frames) - 1)
        PROVE  /\ frames'[j].slots <= top
               /\ j > 1 => frames'[j - 1].slots < frames'[j].slots
               /\ evalstack'[frames'[j].slots] = Temp(frames'[j].closure)
    <3>1. j \in 1..Len(frames) /\ frames[j].slots \in 1..(slots - 1) /\ frames'[j] = frames[j]
      BY <1>6, <1>8
    <3>2. evalstack'[frames[j].slots] = Temp(frames[j].closure)
      BY <1>1, <1>4, <3>1, FrameBases DEF ClosuresInv
    <3>3. frames[j].slots <= top
      BY <1>2, <1>4, <3>1
    <3>4. j > 1 => frames[j - 1].slots < frames[j].slots
      BY <3>1 DEF ClosuresInv, StackInv, FramesNested
    <3>5. j > 1 => j - 1 \in 1..(Len(frames) - 1)
      BY <1>2
    <3> QED
      BY <1>6, <3>1, <3>2, <3>3, <3>4, <3>5
  <2>2. frames' = <<>> => evalstack' = <<>>
    <3> SUFFICES ASSUME frames' = <<>> PROVE evalstack' = <<>>
      OBVIOUS
    <3>1. Len(frames) = 1
      BY <1>2, <1>6
    <3>2. slots = 1
      BY <1>1, <1>2, <3>1 DEF ClosuresInv, StackInv, FramesAscend
    <3> QED
      BY <1>4, <3>1, <3>2
  <2> QED
    BY <1>6, <2>1, <2>2 DEF FramesNested, stack_top, Temp
<1>10. FramesAscend'
  <2>1. \A i, j \in 1..Len(frames') : i < j => frames'[i].slots < frames'[j].slots
    BY <1>6, <1>8 DEF ClosuresInv, StackInv, FramesAscend
  <2>2. ASSUME frames' # <<>> PROVE frames'[1].slots = 1
    <3>1. 1 \in 1..(Len(frames) - 1)
      BY <1>2, <1>6, <2>2
    <3> QED
      BY <1>1, <1>6, <3>1 DEF ClosuresInv, StackInv, FramesAscend
  <2> QED
    BY <2>1, <2>2 DEF FramesAscend
<1>11. LocalsFirst'
  <2> SUFFICES ASSUME NEW j \in 1..(Len(frames) - 1),
                      NEW p \in (frames[j].slots + 1)..(LastSlot(j)'),
                      NEW q \in (frames[j].slots + 1)..(LastSlot(j)'),
                      q < p, evalstack'[p].cell # 0
               PROVE  evalstack'[q].cell # 0
    BY <1>6 DEF LocalsFirst, IsVar
  <2>1. j \in 1..Len(frames) /\ frames[j].slots \in 1..(slots - 1)
    BY <1>8
  <2>2. /\ p \in 1..(slots - 1) /\ q \in 1..(slots - 1)
        /\ p \in (frames[j].slots + 1)..LastSlot(j) /\ q \in (frames[j].slots + 1)..LastSlot(j)
    <3>1. CASE j = Len(frames) - 1
      <4>1. LastSlot(j)' = top
        BY <1>6, <3>1 DEF LastSlot, stack_top
      <4>2. LastSlot(j) = slots - 1
        BY <1>2, <3>1 DEF LastSlot
      <4>3. p <= slots - 1
        BY <1>2, <1>4, <2>1, <4>1
      <4> QED
        BY <1>2, <2>1, <4>2, <4>3
    <3>2. CASE j # Len(frames) - 1
      <4>1. j + 1 \in 1..(Len(frames) - 1) /\ j # Len(frames)
        BY <1>2, <3>2
      <4>2. LastSlot(j)' = frames[j + 1].slots - 1 /\ LastSlot(j) = frames[j + 1].slots - 1
        BY <1>6, <3>2, <4>1 DEF LastSlot
      <4>3. frames[j + 1].slots \in 1..(slots - 1)
        BY <1>8, <4>1
      <4> QED
        BY <1>2, <2>1, <4>2, <4>3, SMTT(30)
    <3> QED
      BY <3>1, <3>2
  <2> QED
    BY <1>4, <2>1, <2>2, SMTT(30) DEF ClosuresInv, StackInv, LocalsFirst, IsVar
<1>12. NothingFreed' /\ UnderConstruction'
  <2>1. NothingFreed'
    BY <1>1, <1>5, <1>6, <1>8 DEF ClosuresInv, NothingFreed
  <2> QED
    BY <1>1, <2>1 DEF UnderConstruction, Ready
<1>13. TempsPlain'
  <2> SUFFICES ASSUME NEW p \in 1..top, evalstack'[p].cell = 0
               PROVE  evalstack'[p] = Temp(evalstack'[p].val)
    BY DEF TempsPlain, IsVar, stack_top, Temp
  <2>1. CASE p \in 1..(slots - 1)
    <3>1. p \in 1..stack_top /\ ~IsVar(p) /\ evalstack'[p] = evalstack[p]
      BY <1>2, <1>4, <2>1 DEF IsVar
    <3>2. evalstack[p] = Temp(evalstack[p].val)
      BY <3>1 DEF ClosuresInv, StackInv, TempsPlain
    <3> QED
      BY <3>1, <3>2
  <2>2. CASE p \in slots..top
    <3>1. evalstack'[p] = Temp(TopValue)
      BY <1>4, <2>2
    <3>2. Temp(TopValue).val = TopValue
      BY DEF Temp
    <3> QED
      BY <3>1, <3>2
  <2> QED
    BY <1>2, <1>4, <2>1, <2>2
<1> QED
  BY <1>5, <1>7, <1>9, <1>10, <1>11, <1>12, <1>13 DEF ClosuresInv, StackInv

-----------------------------------------------------------------------------
(* Calls *)

(* Without frames nothing is open and no closure is under construction.    *)
LEMMA NothingRuns ==
  ASSUME ClosuresInv, frames = <<>>
  PROVE  evalstack = <<>> /\ open_upvalues = <<>> /\ ~capturing
<1>1. evalstack = <<>> /\ ~capturing
  BY DEF ClosuresInv, StackInv, FramesNested, UnderConstruction
<1>2. ASSUME open_upvalues # <<>> PROVE FALSE
  <2>1. 1 \in 1..Len(open_upvalues)
    BY <1>2 DEF ClosuresInv, TypeOK
  <2>2. open_upvalues[1] \in ToSet(open_upvalues)
    BY <2>1, ListElements DEF ClosuresInv, StackInv
  <2>3. upvalues[open_upvalues[1]].location \in 1..0
    BY <1>1, <2>2 DEF ClosuresInv, StackInv, OpenUpvaluesOnStack, stack_top
  <2> QED
    BY <2>3
<1> QED
  BY <1>1, <1>2

(* The first frame of a line finds an empty stack and an empty list, and   *)
(* establishes the invariant again.                                        *)
LEMMA RunInv ==
  ASSUME ClosuresInv, Run
  PROVE  ClosuresInv'
<1> DEFINE s == Temp(Script)
           fr == [closure |-> Script, slots |-> 1]
<1>1. /\ evalstack = <<>> /\ open_upvalues = <<>> /\ ~capturing
      /\ UNCHANGED <<open_upvalues, upvalues, closures, capturing>>
  BY NothingRuns DEF Run
<1>2. s \in SlotType /\ s.cell = 0 /\ s.val = Script
  BY TempType DEF Value
<1>3. fr \in FrameType /\ fr.closure = Script /\ fr.slots = 1
  BY DEF FrameType
<1>4. evalstack' = <<s>> /\ frames' = <<fr>>
  <2>1. Len(evalstack) = 0 /\ Append(evalstack, s) = <<s>> /\ 0 + 1 = 1
    BY <1>1
  <2>2. evalstack' = Append(evalstack, s)
        /\ frames' = <<[closure |-> Script, slots |-> Len(evalstack) + 1]>>
    BY DEF Run, stack_top
  <2> QED
    BY <2>1, <2>2
<1> HIDE DEF s, fr
<1>5. /\ evalstack' \in Seq(SlotType) /\ Len(evalstack') = 1 /\ evalstack'[1] = s
      /\ frames' \in Seq(FrameType) /\ Len(frames') = 1 /\ frames'[1] = fr
  BY <1>2, <1>3, <1>4
<1>6. TypeOK'
  BY <1>1, <1>5 DEF ClosuresInv, TypeOK
<1>7. 1..1 = {1}
  OBVIOUS
<1>8. FramesNested'
  <2>1. evalstack'[frames'[1].slots] = Temp(frames'[1].closure)
    BY <1>3, <1>5 DEF s
  <2>2. ASSUME NEW j \in 1..Len(frames')
        PROVE  /\ frames'[j].slots <= Len(evalstack') /\ ~(j > 1)
               /\ evalstack'[frames'[j].slots] = Temp(frames'[j].closure)
    <3>1. j = 1
      BY <1>5
    <3> QED
      BY <1>3, <1>5, <2>1, <3>1
  <2>3. frames' # <<>>
    BY <1>4
  <2> QED
    BY <2>2, <2>3 DEF FramesNested, stack_top, Temp
<1>9. FramesAscend' /\ LocalsFirst'
  <2>1. \A p \in 2..1 : FALSE
    OBVIOUS
  <2>2. LastSlot(1)' = 1
    BY <1>5 DEF LastSlot, stack_top
  <2> QED
    BY <1>3, <1>5, <1>7, <2>1, <2>2 DEF FramesAscend, LocalsFirst
<1>10. CellsDistinct' /\ TempsPlain'
  <2>1. evalstack'[1] = Temp(evalstack'[1].val)
    BY <1>2, <1>5 DEF s
  <2> QED
    BY <1>2, <1>5, <1>7, <2>1 DEF CellsDistinct, TempsPlain, IsVar, stack_top, Temp
<1>11. OpenListSorted' /\ ListDescends' /\ OneUpvaluePerVariable'
  BY <1>1 DEF ClosuresInv, StackInv, OpenListSorted, ListDescends, OneUpvaluePerVariable, Open
<1>12. OpenUpvaluesOnStack' /\ CapturedKnown'
  BY <1>1 DEF OpenUpvaluesOnStack, CapturedKnown, ToSet
<1>13. ClosedLeftStack'
  <2>1. \A u \in DOMAIN upvalues : upvalues[u].cell # 0
    BY ListElements DEF ClosuresInv, StackInv
  <2> QED
    BY <1>1, <1>2, <1>5, <1>7, <2>1 DEF ClosedLeftStack, Open, stack_top
<1>14. NothingFreed'
  BY <1>1, <1>3, <1>5, <1>7 DEF ClosuresInv, NothingFreed
<1>15. UnderConstruction'
  BY <1>1 DEF UnderConstruction
<1> QED
  BY <1>1, <1>6, <1>8, <1>9, <1>10, <1>11, <1>12, <1>13, <1>14, <1>15 DEF ClosuresInv, StackInv

(* An error while no upvalue is open leaves a machine with the invariant.  *)
LEMMA RuntimeErrorInv ==
  ASSUME ClosuresInv, ~UnsafeErrors, RuntimeError
  PROVE  ClosuresInv'
<1>1. /\ Ready /\ open_upvalues = <<>> /\ evalstack' = <<>> /\ frames' = <<>>
      /\ UNCHANGED <<open_upvalues, upvalues, closures, capturing>>
  BY DEF RuntimeError
<1>2. TypeOK'
  BY <1>1 DEF ClosuresInv, TypeOK
<1>3. Len(evalstack') = 0 /\ Len(frames') = 0 /\ 1..0 = {}
  BY <1>1
<1>4. FramesNested' /\ FramesAscend' /\ LocalsFirst' /\ CellsDistinct' /\ TempsPlain'
  BY <1>1, <1>3 DEF FramesNested, FramesAscend, LocalsFirst, CellsDistinct, TempsPlain, stack_top
<1>5. OpenListSorted' /\ ListDescends' /\ OneUpvaluePerVariable'
  BY <1>1 DEF ClosuresInv, StackInv, OpenListSorted, ListDescends, OneUpvaluePerVariable, Open
<1>6. OpenUpvaluesOnStack' /\ CapturedKnown' /\ ClosedLeftStack'
  BY <1>1, <1>3 DEF OpenUpvaluesOnStack, CapturedKnown, ClosedLeftStack, ToSet, stack_top
<1>7. NothingFreed' /\ UnderConstruction'
  BY <1>1, <1>3 DEF ClosuresInv, NothingFreed, UnderConstruction, Ready
<1> QED
  BY <1>1, <1>2, <1>4, <1>5, <1>6, <1>7 DEF ClosuresInv, StackInv

(* What a call does to the stack: above slot 0 of the new frame, the       *)
(* temporaries become new variables.                                       *)
LEMMA CallEffect ==
  ASSUME ClosuresInv, NEW n \in Arities, Call(n)
  PROVE  LET base == stack_top - n
         IN /\ frames # <<>> /\ Ready /\ n \in Nat
            /\ base \in Nat /\ base > slots /\ base <= stack_top
            /\ \A p \in base..stack_top : ~IsVar(p)
            /\ evalstack[base].val \in DOMAIN closures
            /\ frames' = Append(frames, [closure |-> evalstack[base].val, slots |-> base])
            /\ evalstack' \in Seq(SlotType) /\ Len(evalstack') = stack_top
            /\ \A p \in 1..base : evalstack'[p] = evalstack[p]
            /\ \A p \in (base + 1)..stack_top :
                 /\ evalstack'[p].val = evalstack[p].val
                 /\ evalstack'[p].cell # 0 /\ evalstack'[p].cell \notin UsedCells
                 /\ \A q \in (base + 1)..stack_top : evalstack'[p].cell = evalstack'[q].cell => p = q
            /\ UNCHANGED <<open_upvalues, upvalues, closures, capturing>>
<1> DEFINE base == stack_top - n
           cells == FreshCells(n)
<1>1. /\ frames # <<>> /\ Ready /\ base > slots
      /\ \A p \in base..stack_top : ~IsVar(p)
      /\ evalstack[base].val \in DOMAIN closures
      /\ frames' = Append(frames, [closure |-> evalstack[base].val, slots |-> base])
      /\ UNCHANGED <<open_upvalues, upvalues, closures, capturing>>
  BY DEF Call, Ready
<1>2. /\ n \in Nat /\ slots \in Nat /\ stack_top \in Nat
      /\ base \in Nat /\ base <= stack_top
  <2>1. n \in Nat /\ slots \in Nat /\ stack_top \in Nat
    BY <1>1, CurrentFrame, BoundsAssumption DEF ClosuresInv, StackInv
  <2> QED
    BY <1>1, <2>1
<1>3. PICK captured \in [1..n -> BOOLEAN] : evalstack' = Parameters(n, cells, captured)
  BY DEF Call
<1>4. /\ cells \in [1..n -> (Nat \ {0}) \ UsedCells]
      /\ \A i, j \in 1..n : cells[i] = cells[j] => i = j
  BY <1>2, FreshCellsAreNew DEF ClosuresInv
<1> HIDE DEF cells
<1> DEFINE new(p) == Var(evalstack[p].val, cells[p - stack_top + n], captured[p - stack_top + n])
<1>5. evalstack' = [p \in 1..stack_top |-> IF p <= base THEN evalstack[p] ELSE new(p)]
  BY <1>3 DEF Parameters
<1>6. ASSUME NEW p \in (base + 1)..stack_top
      PROVE  /\ p - stack_top + n \in 1..n /\ new(p) \in SlotType
             /\ new(p).val = evalstack[p].val /\ new(p).cell = cells[p - stack_top + n]
             /\ new(p).cell # 0 /\ new(p).cell \notin UsedCells
  <2>1. p - stack_top + n \in 1..n /\ p \in 1..stack_top
    BY <1>2
  <2>2. /\ cells[p - stack_top + n] \in Nat \ {0} /\ cells[p - stack_top + n] \notin UsedCells
        /\ captured[p - stack_top + n] \in BOOLEAN /\ evalstack[p].val \in Value
    BY <1>3, <1>4, <2>1, SlotTypes DEF ClosuresInv
  <2>3. /\ new(p) \in SlotType
        /\ new(p).val = evalstack[p].val /\ new(p).cell = cells[p - stack_top + n]
    BY <2>2 DEF Var, SlotType
  <2> HIDE DEF new
  <2> QED
    BY <2>1, <2>2, <2>3
<1>7. ASSUME NEW p \in 1..stack_top
      PROVE  (IF p <= base THEN evalstack[p] ELSE new(p)) \in SlotType
  <2>1. CASE p <= base
    BY <2>1, SlotTypes DEF ClosuresInv
  <2>2. CASE ~(p <= base)
    <3>1. p \in (base + 1)..stack_top
      BY <1>2, <2>2
    <3> HIDE DEF new
    <3> QED
      BY <1>6, <2>2, <3>1
  <2> QED
    BY <2>1, <2>2
<1> HIDE DEF new
<1>8. evalstack' \in Seq(SlotType) /\ Len(evalstack') = stack_top
  BY <1>2, <1>5, <1>7
<1>9. /\ \A p \in 1..base : evalstack'[p] = evalstack[p]
      /\ \A p \in (base + 1)..stack_top : evalstack'[p] = new(p)
  BY <1>2, <1>5
<1>10. ASSUME NEW p \in (base + 1)..stack_top
       PROVE  /\ evalstack'[p].val = evalstack[p].val
              /\ evalstack'[p].cell # 0 /\ evalstack'[p].cell \notin UsedCells
              /\ \A q \in (base + 1)..stack_top : evalstack'[p].cell = evalstack'[q].cell => p = q
  <2>1. evalstack'[p].val = evalstack[p].val
        /\ evalstack'[p].cell # 0 /\ evalstack'[p].cell \notin UsedCells
    BY <1>6, <1>9
  <2>2. ASSUME NEW q \in (base + 1)..stack_top, evalstack'[p].cell = evalstack'[q].cell
        PROVE  p = q
    <3>1. cells[p - stack_top + n] = cells[q - stack_top + n]
      BY <1>6, <1>9, <2>2
    <3>2. p - stack_top + n = q - stack_top + n
      BY <1>4, <1>6, <3>1
    <3> QED
      BY <1>2, <3>2
  <2> QED
    BY <2>1, <2>2
<1> QED
  BY <1>1, <1>2, <1>8, <1>9, <1>10

(* call() with arguments on the stack keeps the invariant.                 *)
LEMMA CallInv ==
  ASSUME ClosuresInv, NEW n \in Arities, Call(n)
  PROVE  ClosuresInv'
<1> DEFINE base == stack_top - n
           fr == [closure |-> evalstack[base].val, slots |-> base]
           L == Len(frames)
<1>1. /\ frames # <<>> /\ Ready /\ n \in Nat
      /\ base \in Nat /\ base > slots /\ base <= stack_top
      /\ \A p \in base..stack_top : ~IsVar(p)
      /\ evalstack[base].val \in DOMAIN closures
      /\ frames' = Append(frames, fr)
      /\ UNCHANGED <<open_upvalues, upvalues, closures, capturing>>
  BY CallEffect
<1>2. /\ evalstack' \in Seq(SlotType) /\ Len(evalstack') = stack_top
      /\ \A p \in 1..base : evalstack'[p] = evalstack[p]
      /\ \A p \in (base + 1)..stack_top :
           /\ evalstack'[p].cell # 0 /\ evalstack'[p].cell \notin UsedCells
           /\ \A q \in (base + 1)..stack_top : evalstack'[p].cell = evalstack'[q].cell => p = q
  BY CallEffect
<1> HIDE DEF base
<1>3. slots \in Nat \ {0} /\ stack_top \in Nat /\ L \in Nat \ {0}
      /\ slots = frames[L].slots
  BY <1>1, CurrentFrame DEF ClosuresInv, StackInv, slots, current_frame
<1>4. /\ fr \in FrameType /\ fr.closure = evalstack[base].val /\ fr.slots = base
  BY <1>1, <1>3 DEF ClosuresInv, TypeOK, FrameType
<1> HIDE DEF fr
<1>5. /\ frames' \in Seq(FrameType) /\ Len(frames') = L + 1 /\ frames'[L + 1] = fr
      /\ \A j \in 1..L : frames'[j] = frames[j]
  BY <1>1, <1>4, AppendProperties DEF ClosuresInv, TypeOK
<1>6. TypeOK'
  BY <1>1, <1>2, <1>5 DEF ClosuresInv, TypeOK
<1>7. \A j \in 1..L : frames[j].slots \in 1..slots /\ evalstack[frames[j].slots] = Temp(frames[j].closure)
  BY <1>1, FrameBases DEF ClosuresInv
<1>8. \A j \in 1..(L + 1) : j \in 1..L \/ j = L + 1
  BY <1>3
<1>9. evalstack[base] = Temp(evalstack[base].val) /\ base \in 1..stack_top
  <2>1. base \in 1..stack_top /\ base \in base..stack_top
    BY <1>1, <1>3
  <2>2. ~IsVar(base)
    BY <1>1, <2>1
  <2> QED
    BY <2>1, <2>2 DEF ClosuresInv, StackInv, TempsPlain
<1>10. FramesNested'
  <2>1. ASSUME NEW j \in 1..(L + 1)
        PROVE  /\ frames'[j].slots <= Len(evalstack')
               /\ j > 1 => frames'[j - 1].slots < frames'[j].slots
               /\ evalstack'[frames'[j].slots] = Temp(frames'[j].closure)
    <3>1. CASE j \in 1..L
      <4>1. frames'[j] = frames[j] /\ frames[j].slots \in 1..slots /\ frames[j].slots \in 1..base
        BY <1>1, <1>3, <1>5, <1>7, <3>1
      <4>2. evalstack'[frames[j].slots] = Temp(frames[j].closure)
        BY <1>2, <1>7, <3>1, <4>1
      <4>3. j > 1 => frames[j - 1].slots < frames[j].slots
        BY <3>1 DEF ClosuresInv, StackInv, FramesNested
      <4>4. j > 1 => j - 1 \in 1..L
        BY <1>3, <3>1
      <4>5. frames[j].slots <= stack_top
        BY <1>1, <1>3, <4>1
      <4> QED
        BY <1>2, <1>5, <4>1, <4>2, <4>3, <4>4, <4>5
    <3>2. CASE j = L + 1
      <4>1. frames'[j] = fr /\ j - 1 = L /\ frames'[j - 1] = frames[L]
        BY <1>3, <1>5, <3>2
      <4>2. evalstack'[base] = evalstack[base]
        BY <1>2, <1>9
      <4> QED
        BY <1>1, <1>2, <1>3, <1>4, <1>9, <4>1, <4>2
    <3> QED
      BY <1>8, <3>1, <3>2
  <2>2. frames' # <<>>
    BY <1>3, <1>5
  <2> QED
    BY <1>5, <2>1, <2>2 DEF FramesNested, stack_top, Temp
<1>11. FramesAscend'
  <2>1. ASSUME NEW i \in 1..(L + 1), NEW j \in 1..(L + 1), i < j
        PROVE  frames'[i].slots < frames'[j].slots
    <3>1. i \in 1..L
      BY <1>3, <2>1
    <3>2. CASE j \in 1..L
      BY <1>5, <2>1, <3>1, <3>2 DEF ClosuresInv, StackInv, FramesAscend
    <3>3. CASE j = L + 1
      BY <1>1, <1>3, <1>4, <1>5, <1>7, <3>1, <3>3
    <3> QED
      BY <1>8, <3>2, <3>3
  <2>2. frames'[1].slots = 1
    BY <1>1, <1>3, <1>5 DEF ClosuresInv, StackInv, FramesAscend
  <2> QED
    BY <1>5, <2>1, <2>2 DEF FramesAscend
<1>12. LocalsFirst'
  <2> SUFFICES ASSUME NEW j \in 1..(L + 1),
                      NEW p \in (frames'[j].slots + 1)..(LastSlot(j)'),
                      NEW q \in (frames'[j].slots + 1)..(LastSlot(j)'),
                      q < p, evalstack'[p].cell # 0
               PROVE  evalstack'[q].cell # 0
    BY <1>5 DEF LocalsFirst, IsVar
  <2>1. CASE j = L + 1
    <3>1. LastSlot(j)' = stack_top /\ frames'[j].slots = base
      BY <1>2, <1>4, <1>5, <2>1 DEF LastSlot, stack_top
    <3> QED
      BY <1>2, <3>1
  <2>2. CASE j \in 1..L
    <3>1. frames'[j] = frames[j] /\ frames[j].slots \in 1..slots
      BY <1>5, <1>7, <2>2
    <3>2. /\ p \in 1..(base - 1) /\ q \in 1..(base - 1)
          /\ p \in (frames[j].slots + 1)..LastSlot(j) /\ q \in (frames[j].slots + 1)..LastSlot(j)
      <4>1. CASE j = L
        <5>1. LastSlot(j)' = base - 1 /\ LastSlot(j) = stack_top
          BY <1>3, <1>4, <1>5, <4>1 DEF LastSlot
        <5> QED
          BY <1>1, <1>3, <3>1, <5>1
      <4>2. CASE j # L
        <5>1. j + 1 \in 1..L /\ j # L + 1
          BY <1>3, <2>2, <4>2
        <5>2. LastSlot(j)' = frames[j + 1].slots - 1 /\ LastSlot(j) = frames[j + 1].slots - 1
          BY <1>5, <4>2, <5>1 DEF LastSlot
        <5>3. frames[j + 1].slots \in 1..slots
          BY <1>7, <5>1
        <5> DEFINE a == frames[j].slots
                   b == frames[j + 1].slots
        <5>4. a \in Nat \ {0} /\ b \in Nat /\ b < base
          BY <1>1, <1>3, <3>1, <5>3, SMTT(30)
        <5>5. p \in (a + 1)..(b - 1) /\ q \in (a + 1)..(b - 1)
          BY <3>1, <5>2
        <5> HIDE DEF a, b
        <5>6. p \in 1..(base - 1) /\ q \in 1..(base - 1)
          BY <1>1, <5>4, <5>5
        <5> QED
          BY <5>2, <5>5, <5>6 DEF a, b
      <4> QED
        BY <4>1, <4>2
    <3>3. p \in 1..base /\ q \in 1..base
      BY <1>1, <3>2
    <3> QED
      BY <1>2, <2>2, <3>2, <3>3 DEF ClosuresInv, StackInv, LocalsFirst, IsVar
  <2> QED
    BY <1>8, <2>1, <2>2
<1>13. \A p \in 1..stack_top : p \in 1..base \/ p \in (base + 1)..stack_top
  BY <1>1, <1>3
<1>14. \A p \in 1..stack_top : evalstack[p].cell \in UsedCells
  BY DEF UsedCells
<1>15. \A u \in DOMAIN upvalues : upvalues[u].cell \in UsedCells
  BY DEF UsedCells
<1>16. \A p \in 1..base : p \in 1..stack_top
  BY <1>1, <1>3
<1>17. CellsDistinct'
  <2> SUFFICES ASSUME NEW p \in 1..stack_top, NEW q \in 1..stack_top, evalstack'[p].cell # 0,
                      evalstack'[p].cell = evalstack'[q].cell
               PROVE  p = q
    BY <1>2 DEF CellsDistinct, IsVar, stack_top
  <2>1. CASE p \in 1..base /\ q \in 1..base
    BY <1>2, <1>16, <2>1 DEF ClosuresInv, StackInv, CellsDistinct, IsVar
  <2>2. CASE p \in (base + 1)..stack_top /\ q \in (base + 1)..stack_top
    BY <1>2, <2>2
  <2>3. CASE p \in 1..base /\ q \in (base + 1)..stack_top
    BY <1>2, <1>14, <2>3
  <2>4. CASE p \in (base + 1)..stack_top /\ q \in 1..base
    BY <1>2, <1>14, <2>4
  <2> QED
    BY <1>13, <2>1, <2>2, <2>3, <2>4
<1>18. TempsPlain'
  <2> SUFFICES ASSUME NEW p \in 1..stack_top, evalstack'[p].cell = 0
               PROVE  evalstack'[p] = Temp(evalstack'[p].val)
    BY <1>2 DEF TempsPlain, IsVar, stack_top, Temp
  <2>1. p \in 1..base /\ evalstack'[p] = evalstack[p] /\ ~IsVar(p)
    BY <1>2, <1>13 DEF IsVar
  <2>2. evalstack[p] = Temp(evalstack[p].val)
    BY <2>1 DEF ClosuresInv, StackInv, TempsPlain
  <2> QED
    BY <2>1, <2>2
<1>19. OpenListSorted' /\ ListDescends' /\ OneUpvaluePerVariable'
  BY <1>1 DEF ClosuresInv, StackInv, OpenListSorted, ListDescends, OneUpvaluePerVariable, Open
<1>20. OpenUpvaluesOnStack' /\ CapturedKnown'
  <2>1. ASSUME NEW u \in ToSet(open_upvalues)
        PROVE  /\ upvalues[u].location \in 1..stack_top
               /\ evalstack'[upvalues[u].location].cell = upvalues[u].cell
               /\ evalstack'[upvalues[u].location].is_captured
    <3>1. u \in DOMAIN upvalues /\ upvalues[u].location # 0
      BY ListElements DEF ClosuresInv, StackInv
    <3>2. /\ upvalues[u].location \in 1..stack_top /\ IsVar(upvalues[u].location)
          /\ evalstack[upvalues[u].location].cell = upvalues[u].cell
          /\ evalstack[upvalues[u].location].is_captured
      BY <3>1, OpenPointsToVariable DEF ClosuresInv
    <3>3. upvalues[u].location \notin base..stack_top
      BY <1>1, <3>2
    <3>4. upvalues[u].location \in 1..base
      BY <1>1, <1>3, <3>2, <3>3
    <3> QED
      BY <1>2, <3>2, <3>4
  <2> QED
    BY <1>1, <1>2, <2>1 DEF OpenUpvaluesOnStack, CapturedKnown, stack_top
<1>21. ClosedLeftStack'
  <2> SUFFICES ASSUME NEW u \in DOMAIN upvalues, upvalues[u].location = 0,
                      NEW p \in 1..stack_top, evalstack'[p].cell = upvalues[u].cell
               PROVE  FALSE
    BY <1>1, <1>2 DEF ClosedLeftStack, Open, stack_top
  <2>1. p \in 1..base
    BY <1>2, <1>13, <1>15
  <2> QED
    BY <1>2, <1>16, <2>1 DEF ClosuresInv, StackInv, ClosedLeftStack, Open
<1>22. NothingFreed'
  BY <1>1, <1>4, <1>5, <1>8 DEF ClosuresInv, NothingFreed
<1>23. UnderConstruction'
  BY <1>1 DEF UnderConstruction, Ready
<1> QED
  BY <1>1, <1>6, <1>10, <1>11, <1>12, <1>17, <1>18, <1>19, <1>20, <1>21, <1>22, <1>23
     DEF ClosuresInv, StackInv

-----------------------------------------------------------------------------
(* Closures *)

(* A new variable is pushed.                                               *)
LEMMA PushVar ==
  ASSUME ClosuresInv, frames # <<>>, NEW v \in Value, NEW captured \in BOOLEAN,
         \A p \in (slots + 1)..stack_top : IsVar(p),
         evalstack' = Append(evalstack, Var(v, FreshCell, captured))
  PROVE  evalstack' \in Seq(SlotType) /\ SlotsKept
<1> DEFINE s == Var(v, FreshCell, captured)
<1>1. slots \in Nat /\ slots <= stack_top /\ stack_top \in Nat
  BY CurrentFrame DEF ClosuresInv, StackInv
<1>2. s \in SlotType /\ s.cell # 0 /\ s.cell \notin UsedCells
  BY FreshCellIsNew DEF Var, SlotType
<1> HIDE DEF s
<1>3. /\ evalstack' \in Seq(SlotType) /\ Len(evalstack') = stack_top + 1
      /\ \A p \in 1..stack_top : evalstack'[p] = evalstack[p]
      /\ evalstack'[stack_top + 1] = s
  <2>1. evalstack \in Seq(SlotType) /\ evalstack' = Append(evalstack, s)
    BY DEF ClosuresInv, TypeOK, s
  <2> QED
    BY <1>2, <2>1, AppendProperties DEF stack_top
<1>4. \A p \in 1..(stack_top + 1) : (p \in 1..stack_top /\ p <= stack_top) \/ p = stack_top + 1
  BY <1>1
<1>5. \A u \in DOMAIN upvalues : upvalues[u].location <= stack_top + 1
  BY <1>1, LocationsBelowTop, ListElements DEF ClosuresInv, StackInv
<1>6. \A p \in 1..(stack_top + 1) : p <= stack_top => evalstack'[p] = evalstack[p]
  BY <1>1, <1>3
<1>7. \A p \in 1..slots : evalstack'[p] = evalstack[p]
  BY <1>1, <1>3
<1>8. \A q \in (slots + 1)..stack_top : evalstack'[q].cell # 0
  BY <1>1, <1>3 DEF IsVar
<1>9. \A p \in 1..(stack_top + 1) : evalstack'[p].cell # 0 =>
        (p <= stack_top /\ IsVar(p)) \/ p = stack_top + 1
  BY <1>3, <1>4 DEF IsVar
<1>10. stack_top + 1 - 1 = stack_top /\ stack_top + 1 > slots /\ slots <= stack_top + 1
  BY <1>1
<1>11. \A p \in 1..(stack_top + 1) : evalstack'[p].cell = 0 => p <= stack_top
  BY <1>2, <1>3, <1>4
<1>12. ASSUME NEW p \in 1..(stack_top + 1), evalstack'[p].cell # 0
       PROVE  \/ p <= stack_top /\ IsVar(p)
              \/ /\ p > slots /\ p = Len(evalstack') /\ evalstack'[p].cell \notin UsedCells
                 /\ \A q \in (slots + 1)..(p - 1) : evalstack'[q].cell # 0
  <2>1. CASE p <= stack_top /\ IsVar(p)
    BY <2>1
  <2>2. CASE p = stack_top + 1
    <3>1. p > slots /\ p = Len(evalstack') /\ p - 1 = stack_top /\ evalstack'[p] = s
      BY <1>1, <1>3, <2>2
    <3> QED
      BY <1>2, <1>8, <3>1
  <2> QED
    BY <1>9, <1>12, <2>1, <2>2
<1> QED
  BY <1>3, <1>5, <1>6, <1>7, <1>10, <1>11, <1>12 DEF SlotsKept

(* CLOSURE makes the closure, without upvalues yet, and keeps the          *)
(* invariant.                                                              *)
LEMMA NewClosureInv ==
  ASSUME ClosuresInv, NEW f \in Closure \ DOMAIN closures, NEW arity \in Arities,
         NEW n \in 0..MaxCaptures, NewClosure(f, arity, n)
  PROVE  ClosuresInv'
<1>1. /\ frames # <<>> /\ capturing' = TRUE
      /\ closures' = [x \in DOMAIN closures \cup {f} |->
                        IF x = f THEN Made(arity, n) ELSE closures[x]]
      /\ UNCHANGED <<frames, open_upvalues, upvalues>>
  BY DEF NewClosure, Ready
<1>2. f \in Value
  BY DEF Value
<1>3. evalstack' \in Seq(SlotType) /\ SlotsKept /\ Len(evalstack') = stack_top + 1
      /\ evalstack'[Len(evalstack')].val = f
  <2>1. CASE evalstack' = Append(evalstack, Temp(f))
    <3>1. evalstack' \in Seq(SlotType) /\ SlotsKept
      BY <1>1, <1>2, <2>1, PushTemp
    <3>2. Len(evalstack') = stack_top + 1 /\ evalstack'[stack_top + 1] = Temp(f)
      BY <1>2, <2>1, TempType, AppendProperties DEF ClosuresInv, TypeOK, stack_top
    <3> QED
      BY <1>2, <3>1, <3>2, TempType
  <2>2. CASE /\ \A p \in (slots + 1)..stack_top : IsVar(p)
             /\ \E captured \in BOOLEAN :
                  evalstack' = Append(evalstack, Var(f, FreshCell, captured))
    <3>1. PICK captured \in BOOLEAN : evalstack' = Append(evalstack, Var(f, FreshCell, captured))
      BY <2>2
    <3>2. evalstack' \in Seq(SlotType) /\ SlotsKept
      BY <1>1, <1>2, <2>2, <3>1, PushVar
    <3> DEFINE s == Var(f, FreshCell, captured)
    <3>3. s \in SlotType /\ s.val = f
      BY <1>2, FreshCellIsNew DEF Var, SlotType
    <3> HIDE DEF s
    <3>4. evalstack \in Seq(SlotType) /\ evalstack' = Append(evalstack, s)
      BY <3>1 DEF ClosuresInv, TypeOK, s
    <3>5. Len(evalstack') = stack_top + 1 /\ evalstack'[stack_top + 1] = s
      BY <3>3, <3>4, AppendProperties DEF stack_top
    <3> QED
      BY <3>2, <3>3, <3>5
  <2> QED
    BY <2>1, <2>2 DEF NewClosure
<1>4. /\ Made(arity, n) \in ClosureType /\ Made(arity, n).upvalues = <<>>
      /\ Len(Made(arity, n).upvalues) <= Made(arity, n).upvalue_count
  BY BoundsAssumption DEF Made, ClosureType
<1>5. TypeOK'
  <2>1. DOMAIN closures' \subseteq Closure
    BY <1>1 DEF ClosuresInv, TypeOK
  <2>2. \A x \in DOMAIN closures' :
          closures'[x] \in ClosureType /\ Len(closures'[x].upvalues) <= closures'[x].upvalue_count
    BY <1>1, <1>4 DEF ClosuresInv, TypeOK
  <2> QED
    BY <1>1, <1>3, <2>1, <2>2 DEF ClosuresInv, TypeOK
<1>6. StackInv'
  BY <1>1, <1>3, <1>5, SlotsChange DEF ClosuresInv
<1>7. NothingFreed'
  <2>1. \A j \in 1..Len(frames) : frames[j].closure \in DOMAIN closures' \cup {Script}
    BY <1>1 DEF ClosuresInv, NothingFreed
  <2>2. ASSUME NEW x \in DOMAIN closures' PROVE ToSet(closures'[x].upvalues) \subseteq DOMAIN upvalues
    <3>1. CASE x = f
      BY <1>1, <1>4, <3>1 DEF ToSet
    <3>2. CASE x # f
      BY <1>1, <3>2 DEF ClosuresInv, NothingFreed
    <3> QED
      BY <3>1, <3>2
  <2> QED
    BY <1>1, <2>1, <2>2 DEF NothingFreed
<1>8. UnderConstruction'
  <2>1. TopValue' = f
    BY <1>3 DEF TopValue, stack_top
  <2>2. f \in DOMAIN closures' /\ closures'[f].upvalues = <<>>
    BY <1>1, <1>4
  <2>3. \A j \in 1..Len(frames') : frames'[j].closure # f
    BY <1>1, ValuesAssumption DEF ClosuresInv, NothingFreed
  <2>4. ToSet(closures'[f].upvalues) = {}
    BY <2>2 DEF ToSet
  <2> QED
    BY <1>1, <2>1, <2>2, <2>3, <2>4 DEF UnderConstruction
<1> QED
  BY <1>1, <1>5, <1>6, <1>7, <1>8 DEF ClosuresInv

(* The closure under construction gets upvalue u, which exists, new or     *)
(* not, and whose variable the maker can name.                             *)
LEMMA AddUpvalueInv ==
  ASSUME ClosuresInv, Unfilled, NEW u \in Upvalue, AddUpvalue(u),
         UNCHANGED <<evalstack, frames>>,
         open_upvalues' \in Seq(Upvalue), IsFiniteSet(DOMAIN upvalues'),
         DOMAIN upvalues' = DOMAIN upvalues \cup {u},
         \A w \in DOMAIN upvalues : upvalues'[w] = upvalues[w],
         upvalues'[u] \in UpvalueType, upvalues'[u].cell \in Nameable, StackInv'
  PROVE  ClosuresInv'
<1> DEFINE f == TopValue
           c == closures[f]
<1>1. /\ capturing /\ capturing' = capturing /\ frames # <<>> /\ f \in DOMAIN closures
      /\ \A j \in 1..Len(frames) : frames[j].closure # f
      /\ \A w \in ToSet(c.upvalues) : upvalues[w].cell \in Nameable
      /\ Len(c.upvalues) < c.upvalue_count
      /\ closures' = [closures EXCEPT ![f].upvalues = Append(@, u)]
  BY DEF ClosuresInv, UnderConstruction, Unfilled, AddUpvalue
<1>2. c \in ClosureType
  BY <1>1 DEF ClosuresInv, TypeOK
<1>3. c.upvalues \in Seq(Upvalue) /\ c.upvalue_count \in Nat
  BY <1>2, BoundsAssumption DEF ClosureType
<1> DEFINE us == Append(c.upvalues, u)
<1>4. us \in Seq(Upvalue) /\ Len(us) = Len(c.upvalues) + 1
      /\ \A w : w \in ToSet(us) <=> w \in ToSet(c.upvalues) \cup {u}
  <2> DEFINE o == c.upvalues
  <2>1. o \in Seq(Upvalue)
    BY <1>3
  <2> HIDE DEF o
  <2>2. /\ Append(o, u) \in Seq(Upvalue) /\ Len(Append(o, u)) = Len(o) + 1
        /\ \A i \in 1..Len(o) : Append(o, u)[i] = o[i]
        /\ Append(o, u)[Len(o) + 1] = u
    BY <2>1, AppendProperties
  <2>3. DOMAIN o = 1..Len(o) /\ DOMAIN Append(o, u) = 1..(Len(o) + 1) /\ Len(o) \in Nat
    BY <2>1, <2>2
  <2>4. \A w : w \in ToSet(Append(o, u)) <=> w \in ToSet(o) \cup {u}
    BY <2>2, <2>3 DEF ToSet
  <2> QED
    BY <2>2, <2>4 DEF o
<1> HIDE DEF us
<1>5. ASSUME NEW r \in ClosureType
      PROVE  LET s == [r EXCEPT !.upvalues = us]
             IN s \in ClosureType /\ s.upvalues = us /\ s.upvalue_count = r.upvalue_count
  BY <1>4 DEF ClosureType
<1>6. /\ DOMAIN closures' = DOMAIN closures
      /\ closures'[f] = [c EXCEPT !.upvalues = us]
      /\ \A x \in DOMAIN closures : x # f => closures'[x] = closures[x]
  BY <1>1 DEF us
<1>7. closures'[f] \in ClosureType /\ closures'[f].upvalues = us
      /\ closures'[f].upvalue_count = c.upvalue_count
  <2> HIDE DEF c
  <2> QED
    BY <1>2, <1>5, <1>6
<1>8. TypeOK'
  <2>1. \A w \in DOMAIN upvalues' : upvalues'[w] \in UpvalueType
    BY DEF ClosuresInv, TypeOK
  <2>2. DOMAIN upvalues' \subseteq Upvalue
    BY DEF ClosuresInv, TypeOK
  <2>3. Len(us) <= c.upvalue_count
    BY <1>1, <1>3, <1>4
  <2>4. \A x \in DOMAIN closures' :
          closures'[x] \in ClosureType /\ Len(closures'[x].upvalues) <= closures'[x].upvalue_count
    BY <1>6, <1>7, <2>3 DEF ClosuresInv, TypeOK
  <2> QED
    BY <1>1, <1>6, <2>1, <2>2, <2>4 DEF ClosuresInv, TypeOK
<1>9. NothingFreed'
  <2>1. ASSUME NEW x \in DOMAIN closures
        PROVE  ToSet(closures'[x].upvalues) \subseteq DOMAIN upvalues'
    <3>1. ToSet(closures[x].upvalues) \subseteq DOMAIN upvalues
      BY DEF ClosuresInv, NothingFreed
    <3>2. CASE x = f
      BY <1>4, <1>7, <3>1, <3>2
    <3>3. CASE x # f
      BY <1>6, <3>1, <3>3
    <3> QED
      BY <3>2, <3>3
  <2> QED
    BY <1>6, <2>1 DEF ClosuresInv, NothingFreed
<1>10. current' = current /\ Locals' = Locals
  <2>1. current_frame' = current_frame /\ slots' = slots /\ stack_top' = stack_top
    BY DEF current_frame, slots, stack_top
  <2>2. Len(frames) \in Nat \ {0}
    BY <1>1, CurrentFrame DEF ClosuresInv, StackInv
  <2>3. current_frame.closure # f
        /\ current_frame.closure \in DOMAIN closures \cup {Script}
    BY <1>1, <2>2 DEF current_frame, ClosuresInv, NothingFreed
  <2>4. current' = current
    BY <1>6, <2>1, <2>3 DEF current, Fn, ScriptFn, Made
  <2> QED
    BY <2>1, <2>4 DEF Locals, IsVar
<1>11. Nameable \subseteq Nameable'
  <2>1. ToSet(current.upvalues) \subseteq DOMAIN upvalues
    BY <1>1, CurrentClosure DEF ClosuresInv, StackInv
  <2>2. ToSet(current.upvalues)' = ToSet(current.upvalues)
    BY <1>10 DEF ToSet
  <2>3. \A w \in ToSet(current.upvalues) : upvalues'[w].cell = upvalues[w].cell
    BY <2>1
  <2> QED
    BY <1>10, <2>2, <2>3 DEF Nameable
<1>12. UnderConstruction'
  <2>1. TopValue' = f
    BY DEF TopValue, stack_top
  <2>2. \A w \in ToSet(us) : upvalues'[w].cell \in Nameable'
    <3> TAKE w \in ToSet(us)
    <3>1. CASE w = u
      BY <1>11, <3>1
    <3>2. CASE w # u
      <4>1. w \in ToSet(c.upvalues) /\ w \in DOMAIN upvalues
        BY <1>1, <1>4, <3>2 DEF ClosuresInv, NothingFreed
      <4> QED
        BY <1>1, <1>11, <4>1
    <3> QED
      BY <3>1, <3>2
  <2>3. ToSet(closures'[f].upvalues) = ToSet(us)
    BY <1>7
  <2> QED
    BY <1>1, <1>6, <2>1, <2>2, <2>3 DEF UnderConstruction
<1> QED
  BY <1>8, <1>9, <1>12 DEF ClosuresInv

(* The search stops where slot p belongs.                                  *)
LEMMA CaptureSearchSplits ==
  ASSUME ClosuresInv, NEW p \in Nat
  PROVE  LET n == CaptureSearch(p)
         IN /\ n \in 0..Len(open_upvalues)
            /\ \A j \in 1..Len(open_upvalues) : upvalues[open_upvalues[j]].location > p <=> j <= n
<1> DEFINE L == Len(open_upvalues)
           loc(j) == upvalues[open_upvalues[j]].location
           S == {n \in 0..L : \A j \in 1..n : loc(j) > p}
           T == {n \in 0..L : \A j \in 1..n : loc(j) >= p + 1}
<1>1. L \in Nat /\ \A j \in 1..L : loc(j) \in Nat
  BY ListElements DEF ClosuresInv, StackInv
<1>2. S = T
  BY <1>1
<1>3. CaptureSearch(p) = Max(S)
  BY DEF CaptureSearch, Leading
<1>4. Leading(LAMBDA x : x >= p + 1) = Max(T)
  BY DEF Leading
<1>5. p + 1 \in Nat
  OBVIOUS
<1> DEFINE k == p + 1
           n == Leading(LAMBDA x : x >= k)
<1>6. /\ n \in 0..L
      /\ \A j \in 1..L : loc(j) >= k <=> j <= n
  <2>1. k \in Nat
    BY <1>5
  <2> HIDE DEF k
  <2> QED
    BY <2>1, LeadingAtLeast DEF ClosuresInv, StackInv
<1>7. CaptureSearch(p) = n
  BY <1>2, <1>3, <1>4
<1>8. \A j \in 1..L : loc(j) > p <=> loc(j) >= k
  BY <1>1
<1> HIDE DEF n, k
<1> QED
  BY <1>6, <1>7, <1>8

(* A step that leaves stack, frames and upvalues alone.                    *)
LEMMA StackSame ==
  ASSUME StackInv, UNCHANGED <<evalstack, frames, open_upvalues, upvalues>>
  PROVE  StackInv'
<1> USE DEF StackInv
<1>1. FramesNested' /\ FramesAscend' /\ LocalsFirst' /\ CellsDistinct' /\ TempsPlain'
  BY DEF FramesNested, FramesAscend, LocalsFirst, LastSlot, CellsDistinct, TempsPlain,
         IsVar, stack_top, Temp
<1>2. OpenListSorted' /\ ListDescends' /\ OneUpvaluePerVariable'
  BY DEF OpenListSorted, ListDescends, OneUpvaluePerVariable, Open
<1>3. OpenUpvaluesOnStack' /\ CapturedKnown' /\ ClosedLeftStack'
  BY DEF OpenUpvaluesOnStack, CapturedKnown, ClosedLeftStack, Open, stack_top
<1> QED
  BY <1>1, <1>2, <1>3

(* capture_upvalue() that finds an upvalue for the slot keeps the          *)
(* invariant.                                                              *)
LEMMA CaptureExistingInv ==
  ASSUME ClosuresInv, Unfilled, NEW p \in Locals, CaptureExisting(p)
  PROVE  ClosuresInv'
<1> DEFINE n == CaptureSearch(p)
           u == open_upvalues[n + 1]
<1>1. /\ n < Len(open_upvalues) /\ upvalues[u].location = p /\ AddUpvalue(u)
      /\ UNCHANGED <<evalstack, frames, open_upvalues, upvalues>>
  BY DEF CaptureExisting, AlreadyOpen
<1>2. frames # <<>> /\ slots \in Nat /\ stack_top \in Nat
  BY CurrentFrame DEF ClosuresInv, StackInv, UnderConstruction, Unfilled
<1>3. p \in Nat \ {0}
  BY <1>2 DEF Locals
<1>4. n \in 0..Len(open_upvalues) /\ Len(open_upvalues) \in Nat
  BY <1>3, CaptureSearchSplits, ListElements DEF ClosuresInv, StackInv
<1> HIDE DEF n
<1>5. n + 1 \in 1..Len(open_upvalues)
  BY <1>1, <1>4
<1>6. u \in ToSet(open_upvalues) /\ u \in DOMAIN upvalues
  BY <1>5, ListElements DEF ClosuresInv, StackInv
<1> HIDE DEF u
<1>7. u \in Upvalue /\ upvalues[u] \in UpvalueType
  BY <1>6 DEF ClosuresInv, TypeOK
<1>8. upvalues[u].cell \in Nameable
  BY <1>1, <1>6 DEF ClosuresInv, StackInv, OpenUpvaluesOnStack, Nameable
<1>9. StackInv'
  BY <1>1, StackSame DEF ClosuresInv
<1>10. DOMAIN upvalues' = DOMAIN upvalues \cup {u} /\ IsFiniteSet(DOMAIN upvalues')
       /\ open_upvalues' \in Seq(Upvalue)
  BY <1>1, <1>6 DEF ClosuresInv, TypeOK
<1> QED
  BY <1>1, <1>7, <1>8, <1>9, <1>10, AddUpvalueInv

(* Taking over an upvalue of the running closure keeps the invariant.      *)
LEMMA CaptureUpvalueInv ==
  ASSUME ClosuresInv, NEW j, CaptureUpvalue(j)
  PROVE  ClosuresInv'
<1> DEFINE u == current.upvalues[j]
<1>1. /\ Unfilled /\ j \in DOMAIN current.upvalues /\ AddUpvalue(u)
      /\ UNCHANGED <<evalstack, frames, open_upvalues, upvalues>>
  BY DEF CaptureUpvalue
<1>2. frames # <<>>
  BY <1>1 DEF ClosuresInv, UnderConstruction, Unfilled
<1>3. u \in DOMAIN upvalues /\ u \in ToSet(current.upvalues)
  BY <1>1, <1>2, CurrentUpvalue DEF ToSet
<1> HIDE DEF u
<1>4. u \in Upvalue /\ upvalues[u] \in UpvalueType
  BY <1>3 DEF ClosuresInv, TypeOK
<1>5. upvalues[u].cell \in Nameable
  BY <1>3 DEF Nameable
<1>6. StackInv'
  BY <1>1, StackSame DEF ClosuresInv
<1>7. DOMAIN upvalues' = DOMAIN upvalues \cup {u} /\ IsFiniteSet(DOMAIN upvalues')
      /\ open_upvalues' \in Seq(Upvalue)
  BY <1>1, <1>3 DEF ClosuresInv, TypeOK
<1> QED
  BY <1>1, <1>4, <1>5, <1>6, <1>7, AddUpvalueInv

(* A new upvalue is entered in the list where slot p belongs.  No other    *)
(* upvalue has this variable: it would be open, and the search would have  *)
(* found it.                                                               *)
LEMMA CaptureNewInv ==
  ASSUME ClosuresInv, Unfilled, NEW p \in Locals, evalstack[p].is_captured, CaptureNew(p)
  PROVE  ClosuresInv'
<1> DEFINE n == CaptureSearch(p)
           L == Len(open_upvalues)
           loc(j) == upvalues[open_upvalues[j]].location
<1>1. PICK u \in Upvalue \ DOMAIN upvalues :
        /\ upvalues' = [x \in DOMAIN upvalues \cup {u} |->
                          IF x = u THEN [location |-> p, closed |-> Nil, cell |-> evalstack[p].cell]
                                   ELSE upvalues[x]]
        /\ open_upvalues' = InsertAt(open_upvalues, n + 1, u)
        /\ AddUpvalue(u)
  BY DEF CaptureNew
<1>2. /\ ~(n < L /\ loc(n + 1) = p)
      /\ UNCHANGED <<evalstack, frames>>
  BY DEF CaptureNew, AlreadyOpen
<1>3. frames # <<>> /\ slots \in Nat /\ stack_top \in Nat
  BY CurrentFrame DEF ClosuresInv, StackInv, UnderConstruction, Unfilled
<1>4. p \in Nat \ {0} /\ p \in 1..stack_top /\ IsVar(p)
  BY <1>3 DEF Locals
<1>5. /\ n \in 0..L /\ L \in Nat
      /\ \A j \in 1..L : loc(j) > p <=> j <= n
  <2>1. /\ n \in 0..L
        /\ \A j \in 1..L : loc(j) > p <=> j <= n
    BY <1>4, CaptureSearchSplits
  <2>2. L \in Nat
    BY ListElements DEF ClosuresInv, StackInv
  <2> QED
    BY <2>1, <2>2
<1> HIDE DEF n
<1>6. \A j \in 1..L : /\ open_upvalues[j] \in DOMAIN upvalues /\ open_upvalues[j] # u
                      /\ loc(j) \in Nat \ {0}
  BY ListElements DEF ClosuresInv, StackInv
<1>7. \A i, j \in 1..L : i < j => loc(i) > loc(j)
  BY DEF ClosuresInv, StackInv, ListDescends
<1>8. \A j \in 1..L : j > n => loc(j) < p
  <2> TAKE j \in 1..L
  <2> SUFFICES ASSUME j > n PROVE loc(j) < p
    OBVIOUS
  <2>1. n + 1 \in 1..L /\ n < L
    BY <1>5
  <2>2. ~(loc(n + 1) > p) /\ loc(n + 1) # p /\ loc(n + 1) \in Nat
    BY <1>2, <1>5, <1>6, <2>1
  <2>3. loc(n + 1) < p
    BY <1>4, <2>2
  <2>4. j = n + 1 \/ n + 1 < j
    BY <1>5
  <2>5. n + 1 < j => loc(n + 1) > loc(j)
    BY <1>7, <2>1
  <2> HIDE DEF loc
  <2> QED
    BY <1>4, <1>6, <2>2, <2>3, <2>4, <2>5
<1>9. \A w \in DOMAIN upvalues : upvalues[w].cell # evalstack[p].cell
  <2> SUFFICES ASSUME NEW w \in DOMAIN upvalues, upvalues[w].cell = evalstack[p].cell
               PROVE  FALSE
    OBVIOUS
  <2>1. CASE upvalues[w].location = 0
    BY <1>4, <2>1 DEF ClosuresInv, StackInv, ClosedLeftStack, Open
  <2>2. CASE upvalues[w].location # 0
    <3>1. /\ w \in ToSet(open_upvalues) /\ upvalues[w].location \in 1..stack_top
          /\ evalstack[upvalues[w].location].cell = upvalues[w].cell
      BY <2>2, OpenPointsToVariable DEF ClosuresInv
    <3>2. upvalues[w].location = p
      BY <1>4, <3>1 DEF ClosuresInv, StackInv, CellsDistinct
    <3>3. PICK j \in 1..L : w = open_upvalues[j]
      BY <3>1, ListElements DEF ClosuresInv, StackInv
    <3>4. loc(j) = p
      BY <3>2, <3>3
    <3>5. ~(j <= n) /\ ~(j > n)
      BY <1>4, <1>5, <1>8, <3>4
    <3> QED
      BY <1>5, <3>5
  <2> QED
    BY <2>1, <2>2
<1>10. /\ DOMAIN upvalues' = DOMAIN upvalues \cup {u}
       /\ \A w \in DOMAIN upvalues : upvalues'[w] = upvalues[w]
       /\ upvalues'[u].location = p /\ upvalues'[u].cell = evalstack[p].cell
       /\ upvalues'[u] \in UpvalueType
  <2> DEFINE r == [location |-> p, closed |-> Nil, cell |-> evalstack[p].cell]
  <2>1. r \in UpvalueType /\ r.location = p /\ r.cell = evalstack[p].cell
    <3>1. evalstack[p].cell \in Nat \ {0}
      BY <1>4, SlotTypes DEF ClosuresInv, IsVar
    <3> QED
      BY <1>4, <3>1, ValuesAssumption DEF UpvalueType, Value
  <2> HIDE DEF r
  <2>2. upvalues' = [x \in DOMAIN upvalues \cup {u} |-> IF x = u THEN r ELSE upvalues[x]]
    BY <1>1 DEF r
  <2> QED
    BY <2>1, <2>2
<1> DEFINE new(i) == IF i <= n THEN open_upvalues[i]
                     ELSE IF i = n + 1 THEN u ELSE open_upvalues[i - 1]
<1>11. /\ open_upvalues' \in Seq(Upvalue) /\ Len(open_upvalues') = L + 1
       /\ \A i \in 1..(L + 1) : open_upvalues'[i] = new(i)
  <2>1. open_upvalues \in Seq(Upvalue) /\ u \in Upvalue
    BY DEF ClosuresInv, TypeOK
  <2>2. n \in 0..Len(open_upvalues)
    BY <1>5
  <2> DEFINE s == InsertAt(open_upvalues, n + 1, u)
  <2>3. s \in Seq(Upvalue) /\ Len(s) = Len(open_upvalues) + 1
    BY <2>1, <2>2, Insertion
  <2>4. \A i \in 1..(Len(open_upvalues) + 1) :
          s[i] = IF i <= n THEN open_upvalues[i]
                 ELSE IF i = n + 1 THEN u ELSE open_upvalues[i - 1]
    BY <2>1, <2>2, Insertion
  <2>5. open_upvalues' = s
    BY <1>1
  <2> HIDE DEF s
  <2> QED
    BY <2>3, <2>4, <2>5
<1>12. \A w : w \in ToSet(open_upvalues') <=> w \in ToSet(open_upvalues) \cup {u}
  <2>0. DOMAIN open_upvalues' = 1..(L + 1)
    BY <1>11
  <2>1. ASSUME NEW w \in ToSet(open_upvalues') PROVE w \in ToSet(open_upvalues) \cup {u}
    <3>1. PICK i \in 1..(L + 1) : w = new(i)
      BY <1>11, <2>0 DEF ToSet
    <3>2. CASE i <= n
      <4>1. i \in 1..L /\ w = open_upvalues[i]
        BY <1>5, <3>1, <3>2
      <4> QED
        BY <4>1, ListElements DEF ClosuresInv, StackInv
    <3>3. CASE i = n + 1
      BY <1>5, <3>1, <3>3
    <3>4. CASE i > n + 1
      <4>1. i - 1 \in 1..L /\ w = open_upvalues[i - 1]
        BY <1>5, <3>1, <3>4
      <4> QED
        BY <4>1, ListElements DEF ClosuresInv, StackInv
    <3> QED
      BY <1>5, <3>2, <3>3, <3>4
  <2>2. ASSUME NEW w \in ToSet(open_upvalues) PROVE w \in ToSet(open_upvalues')
    <3>1. PICK j \in 1..L : w = open_upvalues[j]
      BY ListElements DEF ClosuresInv, StackInv
    <3>2. CASE j <= n
      <4>1. j \in 1..(L + 1) /\ new(j) = w
        BY <1>5, <3>1, <3>2
      <4> QED
        BY <1>11, <2>0, <4>1 DEF ToSet
    <3>3. CASE j > n
      <4>1. j + 1 \in 1..(L + 1) /\ ~(j + 1 <= n) /\ j + 1 # n + 1 /\ j + 1 - 1 = j
        BY <1>5, <3>3
      <4>2. new(j + 1) = w
        BY <3>1, <4>1
      <4> QED
        BY <1>11, <2>0, <4>1, <4>2 DEF ToSet
    <3> QED
      BY <1>5, <3>2, <3>3
  <2>3. u \in ToSet(open_upvalues')
    <3>1. n + 1 \in 1..(L + 1) /\ new(n + 1) = u
      BY <1>5
    <3> QED
      BY <1>11, <2>0, <3>1 DEF ToSet
  <2> QED
    BY <2>1, <2>2, <2>3
<1> HIDE DEF loc, L
<1>13. ListDescends'
  <2> DEFINE at(i) == upvalues'[open_upvalues'[i]].location
  <2>1. ASSUME NEW i \in 1..(L + 1)
        PROVE  /\ i <= n => i \in 1..L /\ at(i) = loc(i)
               /\ i = n + 1 => at(i) = p
               /\ i > n + 1 => i - 1 \in 1..L /\ i - 1 > n /\ at(i) = loc(i - 1)
    <3>1. CASE i <= n
      <4>1. i \in 1..L /\ i # n + 1 /\ ~(i > n + 1) /\ open_upvalues'[i] = open_upvalues[i]
        BY <1>5, <1>11, <3>1
      <4>2. at(i) = loc(i)
        BY <1>6, <1>10, <4>1 DEF loc
      <4> QED
        BY <4>1, <4>2
    <3>2. CASE i = n + 1
      BY <1>5, <1>10, <1>11, <3>2
    <3>3. CASE i > n + 1
      <4>1. i - 1 \in 1..L /\ i - 1 > n /\ i # n + 1 /\ ~(i <= n)
            /\ open_upvalues'[i] = open_upvalues[i - 1]
        BY <1>5, <1>11, <3>3
      <4>2. at(i) = loc(i - 1)
        BY <1>6, <1>10, <4>1 DEF loc
      <4> QED
        BY <4>1, <4>2
    <3> QED
      BY <1>5, <3>1, <3>2, <3>3
  <2> HIDE DEF at
  <2>2. ASSUME NEW i \in 1..(L + 1), NEW j \in 1..(L + 1), i < j
        PROVE  at(i) > at(j)
    <3>1. CASE i <= n
      <4>1. i \in 1..L /\ at(i) = loc(i) /\ loc(i) > p
        BY <1>5, <2>1, <3>1
      <4>2. CASE j <= n
        BY <1>7, <2>1, <2>2, <4>1, <4>2
      <4>3. CASE j = n + 1
        BY <2>1, <4>1, <4>3
      <4>4. CASE j > n + 1
        <5>1. j - 1 \in 1..L /\ at(j) = loc(j - 1) /\ loc(j - 1) < p
          BY <1>8, <2>1, <4>4
        <5> QED
          BY <1>4, <1>6, <4>1, <5>1
      <4> QED
        BY <1>5, <4>2, <4>3, <4>4
    <3>2. CASE i = n + 1
      <4>1. j - 1 \in 1..L /\ at(j) = loc(j - 1) /\ loc(j - 1) < p /\ at(i) = p
        BY <1>5, <1>8, <2>1, <2>2, <3>2
      <4> QED
        BY <1>4, <1>6, <4>1
    <3>3. CASE i > n + 1
      <4>1. j > n + 1
        BY <1>5, <2>2, <3>3
      <4>2. /\ i - 1 \in 1..L /\ at(i) = loc(i - 1)
            /\ j - 1 \in 1..L /\ at(j) = loc(j - 1) /\ i - 1 < j - 1
        BY <2>1, <2>2, <3>3, <4>1
      <4> QED
        BY <1>7, <4>2
    <3> QED
      BY <1>5, <3>1, <3>2, <3>3
  <2> QED
    BY <1>11, <2>2 DEF ListDescends, at
<1>14. OpenListSorted'
  <2>1. ToSet(open_upvalues') = {w \in DOMAIN upvalues' : upvalues'[w].location # 0}
    <3>1. \A w : w \in ToSet(open_upvalues) <=> w \in DOMAIN upvalues /\ upvalues[w].location # 0
      BY ListElements DEF ClosuresInv, StackInv
    <3> QED
      BY <1>4, <1>10, <1>12, <3>1
  <2>2. Len(open_upvalues') \in Nat
    BY <1>11
  <2>3. \A j \in 1..(Len(open_upvalues') - 1) :
          upvalues'[open_upvalues'[j]].location > upvalues'[open_upvalues'[j + 1]].location
    BY <1>13, <2>2 DEF ListDescends
  <2> QED
    BY <2>1, <2>3 DEF OpenListSorted, Open
<1>15. FramesNested' /\ FramesAscend' /\ LocalsFirst' /\ CellsDistinct' /\ TempsPlain'
  BY <1>2 DEF ClosuresInv, StackInv, FramesNested, FramesAscend, LocalsFirst, LastSlot,
              CellsDistinct, TempsPlain, IsVar, stack_top, Temp
<1>16. OpenUpvaluesOnStack' /\ CapturedKnown'
  <2>1. ASSUME NEW w \in ToSet(open_upvalues')
        PROVE  /\ upvalues'[w].location \in 1..stack_top
               /\ evalstack[upvalues'[w].location].cell = upvalues'[w].cell
               /\ evalstack[upvalues'[w].location].is_captured
    <3>1. CASE w = u
      BY <1>4, <1>10, <3>1
    <3>2. CASE w # u
      <4>1. w \in ToSet(open_upvalues) /\ w \in DOMAIN upvalues /\ upvalues'[w] = upvalues[w]
        BY <1>10, <1>12, <3>2, ListElements DEF ClosuresInv, StackInv
      <4> QED
        BY <4>1 DEF ClosuresInv, StackInv, OpenUpvaluesOnStack, CapturedKnown
    <3> QED
      BY <3>1, <3>2
  <2> QED
    BY <1>2, <2>1 DEF OpenUpvaluesOnStack, CapturedKnown, stack_top
<1>17. ClosedLeftStack'
  <2>1. ASSUME NEW w \in DOMAIN upvalues', upvalues'[w].location = 0, NEW q \in 1..stack_top
        PROVE  evalstack[q].cell # upvalues'[w].cell
    <3>1. w \in DOMAIN upvalues /\ upvalues'[w] = upvalues[w]
      BY <1>4, <1>10, <2>1
    <3> QED
      BY <2>1, <3>1 DEF ClosuresInv, StackInv, ClosedLeftStack, Open
  <2> QED
    BY <1>2, <2>1 DEF ClosedLeftStack, Open, stack_top
<1>18. OneUpvaluePerVariable'
  BY <1>9, <1>10 DEF ClosuresInv, StackInv, OneUpvaluePerVariable
<1>19. StackInv'
  BY <1>13, <1>14, <1>15, <1>16, <1>17, <1>18 DEF StackInv
<1>20. IsFiniteSet(DOMAIN upvalues')
  BY <1>10, FS_AddElement DEF ClosuresInv
<1>21. upvalues'[u].cell \in Nameable
  BY <1>10 DEF Nameable
<1> QED
  BY <1>1, <1>2, <1>10, <1>11, <1>19, <1>20, <1>21, AddUpvalueInv

(* The closure is finished.                                                *)
LEMMA ClosureDoneInv ==
  ASSUME ClosuresInv, ClosureDone
  PROVE  ClosuresInv'
<1>1. UNCHANGED <<evalstack, frames, open_upvalues, upvalues, closures>> /\ capturing' = FALSE
  BY DEF ClosureDone
<1>2. StackInv'
  BY <1>1, StackSame DEF ClosuresInv
<1>3. TypeOK' /\ IsFiniteSet(DOMAIN upvalues')
  BY <1>1 DEF ClosuresInv, TypeOK
<1>4. NothingFreed'
  BY <1>1 DEF ClosuresInv, NothingFreed
<1>5. UnderConstruction'
  BY <1>1 DEF UnderConstruction
<1> QED
  BY <1>2, <1>3, <1>4, <1>5 DEF ClosuresInv

(* The garbage collector frees a closure that does not run, and upvalues   *)
(* that are closed and that no other closure has.                          *)
LEMMA CollectInv ==
  ASSUME ClosuresInv, Collect
  PROVE  ClosuresInv'
<1>1. PICK f \in DOMAIN closures :
        /\ ~InUse(f)
        /\ closures' = [x \in DOMAIN closures \ {f} |-> closures[x]]
        /\ LET left == [x \in DOMAIN closures \ {f} |-> closures[x]]
               used == {u \in DOMAIN upvalues :
                          Open(u) \/ \E x \in DOMAIN left : u \in ToSet(left[x].upvalues)}
           IN upvalues' = [u \in used |-> upvalues[u]]
  BY DEF Collect
<1>2. UNCHANGED <<evalstack, frames, open_upvalues, capturing>>
  BY DEF Collect
<1>3. /\ DOMAIN closures' = DOMAIN closures \ {f}
      /\ \A x \in DOMAIN closures' : closures'[x] = closures[x]
  BY <1>1
<1>4. /\ DOMAIN upvalues' \subseteq DOMAIN upvalues
      /\ \A u \in DOMAIN upvalues' : upvalues'[u] = upvalues[u]
      /\ \A u \in DOMAIN upvalues : Open(u) => u \in DOMAIN upvalues'
      /\ \A u \in DOMAIN upvalues : \A x \in DOMAIN closures' :
           u \in ToSet(closures'[x].upvalues) => u \in DOMAIN upvalues'
  BY <1>1
<1>5. TypeOK' /\ IsFiniteSet(DOMAIN upvalues')
  <2>1. IsFiniteSet(DOMAIN upvalues')
    BY <1>4, FS_Subset DEF ClosuresInv
  <2> QED
    BY <1>2, <1>3, <1>4, <2>1 DEF ClosuresInv, TypeOK
<1>6. NothingFreed'
  <2>1. ASSUME NEW j \in 1..Len(frames)
        PROVE  frames[j].closure \in DOMAIN closures' \cup {Script}
    BY <1>1, <1>3 DEF InUse, ClosuresInv, NothingFreed
  <2>2. ASSUME NEW x \in DOMAIN closures'
        PROVE  ToSet(closures'[x].upvalues) \subseteq DOMAIN upvalues'
    BY <1>3, <1>4 DEF ClosuresInv, NothingFreed
  <2> QED
    BY <1>2, <2>1, <2>2 DEF NothingFreed
<1>7. \A u \in ToSet(open_upvalues) : u \in DOMAIN upvalues' /\ upvalues'[u] = upvalues[u]
  BY <1>4, ListElements DEF ClosuresInv, StackInv, Open
<1>8. FramesNested' /\ FramesAscend' /\ LocalsFirst' /\ CellsDistinct' /\ TempsPlain'
  <2>1. FramesNested'
    BY <1>2 DEF ClosuresInv, StackInv, FramesNested, LastSlot, stack_top
  <2>2. FramesAscend'
    BY <1>2 DEF ClosuresInv, StackInv, FramesAscend
  <2>3. LocalsFirst'
    BY <1>2 DEF ClosuresInv, StackInv, LocalsFirst, LastSlot, IsVar, stack_top
  <2>4. CellsDistinct'
    BY <1>2 DEF ClosuresInv, StackInv, CellsDistinct, IsVar, stack_top
  <2>5. TempsPlain'
    BY <1>2 DEF ClosuresInv, StackInv, TempsPlain, IsVar, stack_top, Temp
  <2> QED BY <2>1, <2>2, <2>3, <2>4, <2>5
<1>9. OpenListSorted' /\ ListDescends'
  <2>1. \A j \in 1..Len(open_upvalues) : upvalues'[open_upvalues[j]] = upvalues[open_upvalues[j]]
    BY <1>7, ListElements DEF ClosuresInv, StackInv
  <2>2. ListDescends'
    BY <1>2, <2>1 DEF ClosuresInv, StackInv, ListDescends
  <2>3. ToSet(open_upvalues') = {u \in DOMAIN upvalues' : upvalues'[u].location # 0}
    <3>1. \A w : w \in ToSet(open_upvalues) <=> w \in DOMAIN upvalues /\ upvalues[w].location # 0
      BY ListElements DEF ClosuresInv, StackInv
    <3> QED
      BY <1>2, <1>4, <1>7, <3>1
  <2>4. Len(open_upvalues') \in Nat
    BY <1>2, ListElements DEF ClosuresInv, StackInv
  <2>5. \A j \in 1..(Len(open_upvalues') - 1) :
          upvalues'[open_upvalues'[j]].location > upvalues'[open_upvalues'[j + 1]].location
    BY <2>2, <2>4 DEF ListDescends
  <2> QED
    BY <2>2, <2>3, <2>5 DEF OpenListSorted, Open
<1>10. OpenUpvaluesOnStack' /\ CapturedKnown'
  BY <1>2, <1>7 DEF ClosuresInv, StackInv, OpenUpvaluesOnStack, CapturedKnown, stack_top
<1>11. ClosedLeftStack' /\ OneUpvaluePerVariable'
  BY <1>2, <1>4 DEF ClosuresInv, StackInv, ClosedLeftStack, OneUpvaluePerVariable, Open, stack_top
<1>12. UnderConstruction'
  <2> SUFFICES ASSUME capturing PROVE UnderConstruction'
    BY <1>2 DEF UnderConstruction
  <2>1. /\ frames # <<>> /\ TopValue \in DOMAIN closures
        /\ \A j \in 1..Len(frames) : frames[j].closure # TopValue
        /\ \A u \in ToSet(closures[TopValue].upvalues) : upvalues[u].cell \in Nameable
    BY DEF ClosuresInv, UnderConstruction
  <2>2. /\ TopValue' = TopValue /\ stack_top' = stack_top
        /\ current_frame' = current_frame /\ slots' = slots
    BY <1>2 DEF TopValue, stack_top, current_frame, slots
  <2>3. Len(frames) \in 1..Len(frames)
    BY <2>1 DEF ClosuresInv, TypeOK
  <2>4. stack_top \in 1..stack_top
    <3>1. stack_top \in Nat /\ frames[Len(frames)] \in FrameType
      BY <2>3 DEF ClosuresInv, TypeOK, stack_top
    <3>2. frames[Len(frames)].slots \in Nat \ {0} /\ frames[Len(frames)].slots <= stack_top
      BY <2>3, <3>1 DEF ClosuresInv, StackInv, FramesNested, FrameType
    <3> QED
      BY <3>1, <3>2
  <2>5. TopValue # f /\ current_frame.closure # f
    BY <1>1, <2>3, <2>4 DEF InUse, TopValue, current_frame
  <2>6. TopValue \in DOMAIN closures' /\ closures'[TopValue] = closures[TopValue]
    BY <1>3, <2>1, <2>5
  <2>7. ToSet(closures[TopValue].upvalues) \subseteq DOMAIN upvalues'
    BY <1>6, <2>6 DEF NothingFreed
  <2>8. current' = current
    BY <1>3, <2>2, <2>3, <2>5 DEF current, Fn, current_frame, ClosuresInv, NothingFreed
  <2>9. ToSet(current.upvalues) \subseteq DOMAIN upvalues'
    <3>1. CASE current_frame.closure = Script
      BY <3>1 DEF current, Fn, ScriptFn, Made, ToSet
    <3>2. CASE current_frame.closure # Script
      <4>1. current_frame.closure \in DOMAIN closures
        BY <2>3, <3>2 DEF current_frame, ClosuresInv, NothingFreed
      <4>2. current_frame.closure \in DOMAIN closures' /\ closures'[current_frame.closure] = current
        BY <1>3, <2>5, <3>2, <4>1 DEF current, Fn
      <4> QED
        BY <1>6, <4>2 DEF NothingFreed
    <3> QED
      BY <3>1, <3>2
  <2>10. \A u \in ToSet(current.upvalues) : upvalues'[u].cell = upvalues[u].cell
    BY <1>4, <2>9
  <2>11. Locals' = Locals /\ \A q \in Locals : evalstack'[q].cell = evalstack[q].cell
    BY <1>2 DEF Locals, slots, current_frame, stack_top, IsVar
  <2>12. Nameable' = Nameable
    BY <2>8, <2>10, <2>11 DEF Nameable
  <2>13. \A u \in ToSet(closures'[TopValue'].upvalues) : upvalues'[u].cell \in Nameable'
    BY <1>4, <2>1, <2>2, <2>6, <2>7, <2>12
  <2> QED
    BY <1>2, <2>1, <2>2, <2>6, <2>13 DEF UnderConstruction
<1> QED
  BY <1>5, <1>6, <1>8, <1>9, <1>10, <1>11, <1>12 DEF ClosuresInv, StackInv

-----------------------------------------------------------------------------
(* The theorems *)

(* The machine starts with nothing.                                        *)
LEMMA InitInv ==
  ASSUME Init
  PROVE  ClosuresInv
<1>1. /\ Len(evalstack) = 0 /\ Len(frames) = 0 /\ Len(open_upvalues) = 0
      /\ DOMAIN upvalues = {} /\ DOMAIN closures = {} /\ capturing = FALSE
      /\ ToSet(open_upvalues) = {}
      /\ evalstack \in Seq(SlotType) /\ frames \in Seq(FrameType)
      /\ open_upvalues \in Seq(Upvalue)
  BY DEF Init, ToSet
<1>2. IsFiniteSet(DOMAIN upvalues)
  BY <1>1, FS_EmptySet
<1>3. TypeOK
  BY <1>1 DEF TypeOK
<1>4. FramesNested /\ FramesAscend /\ LocalsFirst /\ CellsDistinct /\ TempsPlain
  BY <1>1 DEF Init, FramesNested, FramesAscend, LocalsFirst, CellsDistinct, TempsPlain, stack_top
<1>5. OpenListSorted /\ ListDescends /\ OpenUpvaluesOnStack /\ CapturedKnown
      /\ ClosedLeftStack /\ OneUpvaluePerVariable
  BY <1>1 DEF OpenListSorted, ListDescends, OpenUpvaluesOnStack, CapturedKnown,
              ClosedLeftStack, OneUpvaluePerVariable
<1>6. NothingFreed /\ UnderConstruction
  BY <1>1 DEF NothingFreed, UnderConstruction
<1> QED
  BY <1>2, <1>3, <1>4, <1>5, <1>6 DEF ClosuresInv, StackInv

(* Every step of the machine keeps the invariant.                          *)
LEMMA NextInv ==
  ASSUME ~UnsafeErrors, ~UnsafeContinue, ClosuresInv, [Next]_vars
  PROVE  ClosuresInv'
<1>1. CASE Run
  BY <1>1, RunInv
<1>2. CASE PopTemp
  BY <1>2, PopTempInv
<1>3. CASE EndScope
  BY <1>3, EndScopeInv
<1>4. CASE Return
  BY <1>4, ReturnInv
<1>5. CASE RuntimeError
  BY <1>5, RuntimeErrorInv
<1>6. CASE ClosureDone
  BY <1>6, ClosureDoneInv
<1>7. CASE Collect
  BY <1>7, CollectInv
<1>8. CASE \E v \in Vals \cup DOMAIN closures : Push(v)
  BY <1>8, PushInv
<1>9. CASE \E captured \in BOOLEAN : DefineLocal(captured)
  BY <1>9, DefineLocalInv
<1>10. ASSUME NEW p \in 1..stack_top,
              LoadLocal(p) \/ StoreLocal(p) \/ Continue(p) \/ CaptureLocal(p)
       PROVE  ClosuresInv'
  <2>1. CASE LoadLocal(p)
    BY <2>1, LoadLocalInv
  <2>2. CASE StoreLocal(p)
    BY <2>2, StoreLocalInv
  <2>3. CASE Continue(p)
    BY <2>3, ContinueInv
  <2>4. CASE CaptureLocal(p)
    <3>1. Unfilled /\ p \in Locals /\ evalstack[p].is_captured
      BY <2>4 DEF CaptureLocal
    <3>2. CaptureExisting(p) \/ CaptureNew(p)
      BY <2>4 DEF CaptureLocal
    <3> QED
      BY <3>1, <3>2, CaptureExistingInv, CaptureNewInv
  <2> QED
    BY <1>10, <2>1, <2>2, <2>3, <2>4
<1>11. ASSUME NEW j \in 1..MaxCaptures,
              LoadUpvalue(j) \/ StoreUpvalue(j) \/ CaptureUpvalue(j)
       PROVE  ClosuresInv'
  BY <1>11, LoadUpvalueInv, StoreUpvalueInv, CaptureUpvalueInv
<1>12. CASE \E f \in Closure \ DOMAIN closures, arity \in Arities, n \in 0..MaxCaptures :
              NewClosure(f, arity, n)
  BY <1>12, NewClosureInv
<1>13. CASE \E n \in Arities : Call(n)
  BY <1>13, CallInv
<1>14. CASE UNCHANGED vars
  <2>1. UNCHANGED <<evalstack, frames, open_upvalues, upvalues, closures, capturing>>
    BY <1>14 DEF vars
  <2>2. StackInv'
    BY <2>1, StackSame DEF ClosuresInv
  <2>3. TypeOK' /\ IsFiniteSet(DOMAIN upvalues')
    BY <2>1 DEF ClosuresInv, TypeOK
  <2>4. NothingFreed' /\ UnderConstruction'
    BY <2>1 DEF ClosuresInv, NothingFreed, UnderConstruction, Nameable, Locals, TopValue,
                stack_top, slots, current, current_frame, Fn, IsVar
  <2> QED
    BY <2>2, <2>3, <2>4 DEF ClosuresInv
<1> QED
  BY <1>1, <1>2, <1>3, <1>4, <1>5, <1>6, <1>7, <1>8, <1>9, <1>10, <1>11, <1>12, <1>13, <1>14
     DEF Next

(* In a machine whose errors and continues are harmless, the invariant     *)
(* holds in every state.                                                   *)
THEOREM ClosuresInvariant ==
  ASSUME ~UnsafeErrors, ~UnsafeContinue
  PROVE  Spec => []ClosuresInv
<1>1. Init => ClosuresInv
  BY InitInv
<1>2. ClosuresInv /\ [Next]_vars => ClosuresInv'
  BY NextInv
<1> QED
  BY <1>1, <1>2, PTL DEF Spec

(* Stack, frames, upvalues and closures are well formed.                   *)
THEOREM TypeCorrect ==
  ASSUME ~UnsafeErrors, ~UnsafeContinue
  PROVE  Spec => []TypeOK
<1>1. ClosuresInv => TypeOK
  BY DEF ClosuresInv
<1> QED
  BY <1>1, ClosuresInvariant, PTL

(* Every call in progress has its closure in slot 0, below its values and  *)
(* above those of its caller, and a collection, also one in the middle of  *)
(* CLOSURE, frees neither the closures that run, nor the one being made,   *)
(* nor the upvalues of any closure.                                        *)
THEOREM MachineStaysIntact ==
  ASSUME ~UnsafeErrors, ~UnsafeContinue
  PROVE  Spec => []MachineIntact
<1>1. ClosuresInv => MachineIntact
  BY DEF ClosuresInv, StackInv, UnderConstruction, MachineIntact
<1> QED
  BY <1>1, ClosuresInvariant, PTL

(* capture_upvalue() and close_upvalues() keep the list of open upvalues   *)
(* complete and sorted.                                                    *)
THEOREM ListSorted ==
  ASSUME ~UnsafeErrors, ~UnsafeContinue
  PROVE  Spec => []OpenListSorted
<1>1. ClosuresInv => OpenListSorted
  BY DEF ClosuresInv, StackInv
<1> QED
  BY <1>1, ClosuresInvariant, PTL

(* No open upvalue dangles: its slot is in use and holds its variable.     *)
THEOREM NoDanglingUpvalue ==
  ASSUME ~UnsafeErrors, ~UnsafeContinue
  PROVE  Spec => []OpenUpvaluesOnStack
<1>1. ClosuresInv => OpenUpvaluesOnStack
  BY DEF ClosuresInv, StackInv
<1> QED
  BY <1>1, ClosuresInvariant, PTL

(* Closures that mention the same variable share one upvalue.              *)
THEOREM UpvaluesShared ==
  ASSUME ~UnsafeErrors, ~UnsafeContinue
  PROVE  Spec => []OneUpvaluePerVariable
<1>1. ClosuresInv => OneUpvaluePerVariable
  BY DEF ClosuresInv, StackInv
<1> QED
  BY <1>1, ClosuresInvariant, PTL

(* The slot of a variable that is on the stack has its value.              *)
LEMMA ValueOnStack ==
  ASSUME ClosuresInv, NEW p \in 1..stack_top, IsVar(p)
  PROVE  ValueOf(evalstack[p].cell) = evalstack[p].val
<1> DEFINE c == evalstack[p].cell
           q == CHOOSE i \in 1..stack_top : evalstack[i].cell = c
<1>1. q \in 1..stack_top /\ evalstack[q].cell = c
  OBVIOUS
<1>2. q = p
  <2> HIDE DEF q
  <2> QED
    BY <1>1 DEF ClosuresInv, StackInv, CellsDistinct
<1>3. ValueOf(c) = evalstack[q].val
  BY DEF ValueOf
<1> QED
  BY <1>2, <1>3

(* The closed upvalue of a variable that has left the stack has its value. *)
LEMMA ValueInUpvalue ==
  ASSUME ClosuresInv, NEW u \in DOMAIN upvalues, ~Open(u)
  PROVE  ValueOf(upvalues[u].cell) = upvalues[u].closed
<1> DEFINE c == upvalues[u].cell
           w == CHOOSE x \in DOMAIN upvalues : upvalues[x].cell = c
<1>1. w \in DOMAIN upvalues /\ upvalues[w].cell = c
  OBVIOUS
<1>2. w = u
  <2> HIDE DEF w
  <2> QED
    BY <1>1 DEF ClosuresInv, StackInv, OneUpvaluePerVariable
<1>3. ~\E p \in 1..stack_top : evalstack[p].cell = c
  BY DEF ClosuresInv, StackInv, ClosedLeftStack
<1>4. ValueOf(c) = upvalues[w].closed
  BY <1>3 DEF ValueOf
<1> QED
  BY <1>2, <1>4

(* What a closure reads through an upvalue, open or closed, is the present *)
(* value of the variable it was made for.                                  *)
LEMMA UpvalueReadsVariable ==
  ASSUME ClosuresInv, NEW u \in DOMAIN upvalues
  PROVE  Deref(u) = ValueOf(upvalues[u].cell)
<1>1. CASE Open(u)
  <2> DEFINE p == upvalues[u].location
  <2>1. p \in 1..stack_top /\ IsVar(p) /\ evalstack[p].cell = upvalues[u].cell
    BY <1>1, OpenPointsToVariable DEF Open, ClosuresInv
  <2> HIDE DEF p
  <2>2. ValueOf(upvalues[u].cell) = evalstack[p].val
    BY <2>1, ValueOnStack
  <2>3. Deref(u) = evalstack[p].val
    BY <1>1 DEF Deref, p
  <2> QED
    BY <2>2, <2>3
<1>2. CASE ~Open(u)
  BY <1>2, ValueInUpvalue DEF Deref
<1> QED
  BY <1>1, <1>2

(* Reading through an upvalue reads the variable.                          *)
THEOREM UpvaluesRead ==
  ASSUME ~UnsafeErrors, ~UnsafeContinue
  PROVE  Spec => []ReadsTheVariable
<1>1. ClosuresInv => ReadsTheVariable
  BY UpvalueReadsVariable DEF ReadsTheVariable
<1> QED
  BY <1>1, ClosuresInvariant, PTL
=============================================================================
