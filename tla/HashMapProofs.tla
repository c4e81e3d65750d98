---------------------------- MODULE HashMapProofs ----------------------------
(***************************************************************************)
(* Proofs about the hash table, for every set of keys (Key{} among them or *)
(* not), every hash function, and every minimum table size of at least 2.  *)
(***************************************************************************)
EXTENDS HashMap, FiniteSetTheorems, SequenceTheorems, TLAPS

-----------------------------------------------------------------------------
(* Arithmetic of the load limit.                                           *)

(* A table that is filled to its limit is never full.                      *)
LEMMA LimitBelowCapacity ==
  ASSUME NEW n \in Nat
  PROVE  /\ Limit(n) \in Nat
         /\ n > 0 => Limit(n) < n
BY DEF Limit

(* grow() makes room for at least one more key.                            *)
LEMMA GrowthMakesRoom ==
  ASSUME NEW n \in Nat, n = 0 \/ n >= MIN_TABLE_SIZE
  PROVE  /\ NewCapacity(n) \in Nat
         /\ NewCapacity(n) > n
         /\ NewCapacity(n) >= MIN_TABLE_SIZE
         /\ Limit(n) + 1 <= Limit(NewCapacity(n))
BY SizeAssumption DEF Limit, NewCapacity

-----------------------------------------------------------------------------
(* The probe sequence stays in the table.                                  *)

(* The first position that find_slot() looks at.                           *)
LEMMA HomeInTable ==
  ASSUME NEW t \in Seq(Slot), Len(t) > 0, NEW k \in AllKeys
  PROVE  Home(t, k) \in 1..Len(t)
<1>1. Hash[k] \in Nat
  BY HashAssumption
<1>2. Hash[k] % Len(t) \in 0..(Len(t) - 1)
  <2> DEFINE n == Len(t)
  <2>1. n \in Nat /\ n > 0
    OBVIOUS
  <2> HIDE DEF n
  <2> QED BY <1>1, <2>1
<1> QED BY <1>2 DEF Home

(* The next position, around the end of the vector.                        *)
LEMMA AfterInTable ==
  ASSUME NEW t \in Seq(Slot), NEW p \in 1..Len(t)
  PROVE  After(t, p) \in 1..Len(t)
BY DEF After

-----------------------------------------------------------------------------
(* Counting the slots in each state.                                       *)

(* The slots in one state are finitely many.                               *)
LEMMA InStateFinite ==
  ASSUME NEW t \in Seq(Slot), NEW st
  PROVE  /\ IsFiniteSet(InState(t, st))
         /\ Cardinality(InState(t, st)) \in Nat
<1>1. IsFiniteSet(1..Len(t))
  BY FS_Interval
<1>2. InState(t, st) \subseteq 1..Len(t)
  BY DEF InState
<1> QED BY <1>1, <1>2, FS_Subset, FS_CardinalityType

(* What writing one slot does to the table and to the counts.              *)
LEMMA WriteSlot ==
  ASSUME NEW t \in Seq(Slot), NEW p \in 1..Len(t), NEW s \in Slot
  PROVE  LET u == [t EXCEPT ![p] = s]
         IN  /\ u \in Seq(Slot)
             /\ Len(u) = Len(t)
             /\ \A st \in State :
                  InState(u, st) = IF s.state = st THEN InState(t, st) \cup {p}
                                                   ELSE InState(t, st) \ {p}
<1> DEFINE u == [t EXCEPT ![p] = s]
<1>1. u \in Seq(Slot) /\ Len(u) = Len(t)
  BY ExceptSeq
<1>2. \A q \in 1..Len(t) : u[q] = IF q = p THEN s ELSE t[q]
  OBVIOUS
<1> HIDE DEF u
<1>3. ASSUME NEW st \in State
      PROVE  InState(u, st) = IF s.state = st THEN InState(t, st) \cup {p}
                                              ELSE InState(t, st) \ {p}
  BY <1>1, <1>2 DEF InState
<1> QED BY <1>1, <1>3 DEF u

(* The count of each state after one slot has been written.                *)
LEMMA WriteSlotCounts ==
  ASSUME NEW t \in Seq(Slot), NEW p \in 1..Len(t), NEW s \in Slot, NEW st \in State
  PROVE  LET u == [t EXCEPT ![p] = s]
             before == Cardinality(InState(t, st))
             after == Cardinality(InState(u, st))
         IN  /\ before \in Nat
             /\ s.state = t[p].state => after = before
             /\ s.state = st /\ t[p].state # st => after = before + 1
             /\ s.state # st /\ t[p].state = st => after = before - 1
             /\ s.state # st /\ t[p].state # st => after = before
<1> DEFINE I == InState(t, st)
           u == [t EXCEPT ![p] = s]
<1>1. IsFiniteSet(I) /\ Cardinality(I) \in Nat
  BY InStateFinite
<1>2. p \in I <=> t[p].state = st
  BY DEF InState
<1>3. InState(u, st) = IF s.state = st THEN I \cup {p} ELSE I \ {p}
  <2>1. \A x \in State : InState(u, x) = IF s.state = x THEN InState(t, x) \cup {p}
                                                       ELSE InState(t, x) \ {p}
    BY WriteSlot
  <2> QED BY <2>1
<1>4. Cardinality(I \cup {p}) = IF p \in I THEN Cardinality(I) ELSE Cardinality(I) + 1
  BY <1>1, FS_AddElement
<1>5. Cardinality(I \ {p}) = IF p \in I THEN Cardinality(I) - 1 ELSE Cardinality(I)
  BY <1>1, FS_RemoveElement
<1> HIDE DEF I, u
<1>6. /\ Cardinality(I) \in Nat
      /\ s.state = t[p].state => Cardinality(InState(u, st)) = Cardinality(I)
      /\ s.state = st /\ t[p].state # st => Cardinality(InState(u, st)) = Cardinality(I) + 1
      /\ s.state # st /\ t[p].state = st => Cardinality(InState(u, st)) = Cardinality(I) - 1
      /\ s.state # st /\ t[p].state # st => Cardinality(InState(u, st)) = Cardinality(I)
  BY <1>1, <1>2, <1>3, <1>4, <1>5
<1> QED BY <1>6 DEF I, u

(* A table whose FILLED and TOMBSTONE slots are within the limit has an    *)
(* EMPTY slot.                                                             *)
LEMMA EmptySlotExists ==
  ASSUME NEW t \in Seq(Slot), Len(t) > 0,
         Cardinality(Filled(t)) + Cardinality(Tombs(t)) <= Limit(Len(t))
  PROVE  Empties(t) # {}
<1> SUFFICES ASSUME Empties(t) = {} PROVE FALSE
  OBVIOUS
<1>1. ASSUME NEW j \in 1..Len(t) PROVE t[j].state \in State
  <2>1. t[j] \in Slot
    OBVIOUS
  <2> QED BY <2>1 DEF Slot
<1>2. 1..Len(t) = Filled(t) \cup Tombs(t)
  BY <1>1 DEF Filled, Tombs, Empties, InState, State
<1>3. /\ IsFiniteSet(Filled(t)) /\ Cardinality(Filled(t)) \in Nat
      /\ IsFiniteSet(Tombs(t)) /\ Cardinality(Tombs(t)) \in Nat
  BY InStateFinite DEF Filled, Tombs
<1>4. Filled(t) \cap Tombs(t) = {}
  BY DEF Filled, Tombs, InState
<1>5. Cardinality(Filled(t) \cup Tombs(t)) = Cardinality(Filled(t)) + Cardinality(Tombs(t))
  <2>1. Cardinality(Filled(t) \cup Tombs(t))
          = Cardinality(Filled(t)) + Cardinality(Tombs(t)) - Cardinality(Filled(t) \cap Tombs(t))
    BY <1>3, FS_Union
  <2>2. Cardinality(Filled(t) \cap Tombs(t)) = 0
    BY <1>4, FS_EmptySet
  <2> QED BY <1>3, <2>1, <2>2
<1>6. Cardinality(1..Len(t)) = Len(t)
  BY FS_Interval
<1>7. Limit(Len(t)) < Len(t)
  BY LimitBelowCapacity
<1>8. Limit(Len(t)) \in Nat
  BY LimitBelowCapacity
<1>9. Len(t) = Cardinality(Filled(t)) + Cardinality(Tombs(t))
  BY <1>2, <1>5, <1>6
<1>10. Len(t) <= Limit(Len(t))
  BY <1>9
<1>11. Len(t) \in Nat
  OBVIOUS
<1> QED BY <1>7, <1>8, <1>10, <1>11

-----------------------------------------------------------------------------
(* The invariant of the table.                                             *)

(* The key and the value of a call, or of none.                            *)
LEMMA CallFields ==
  ASSUME NEW c \in Call \cup {Idle}
  PROVE  c.key \in AllKeys /\ c.value \in AllVals
BY DEF Call, Idle, AllKeys, AllVals

(* The slots that the code writes, and their states.                       *)
LEMMA SlotsMade ==
  /\ EmptySlot \in Slot /\ EmptySlot.state = "EMPTY"
  /\ TombSlot \in Slot /\ TombSlot.state = "TOMBSTONE"
  /\ \A k \in AllKeys, v \in AllVals :
       FilledSlot(k, v) \in Slot /\ FilledSlot(k, v).state = "FILLED"
BY DEF EmptySlot, TombSlot, FilledSlot, Slot, AllKeys, AllVals, State

(* A new table has the invariant.                                          *)
LEMMA InitTableInv == Init => TableInv
<1> SUFFICES ASSUME Init PROVE TableInv
  OBVIOUS
<1>1. Filled(<<>>) = {} /\ Tombs(<<>>) = {}
  BY DEF Filled, Tombs, InState
<1>2. Limit(0) = 0
  BY DEF Limit
<1>3. TypeOK
  BY DEF Init, TypeOK, Finding
<1>4. CountersBounded
  BY <1>1, <1>2, FS_EmptySet DEF Init, CountersBounded
<1> QED BY <1>3, <1>4 DEF Init, TableInv, RehashBounded, TombstoneRemembered, Finding

(* Where the probe can land: a position of the table it walks.             *)
LEMMA FindInTable ==
  ASSUME TableInv, Finding
  PROVE  /\ ProbedTable \in Seq(Slot)
         /\ index \in 1..Len(ProbedTable)
         /\ tombstone # 0 => tombstone \in 1..Len(ProbedTable)
         /\ ProbedTable[index] \in Slot
<1>1. ProbedTable \in Seq(Slot)
  BY DEF TableInv, TypeOK, ProbedTable
<1>2. index \in 1..Len(ProbedTable) /\ tombstone \in 0..Len(ProbedTable)
  BY DEF TableInv, TypeOK
<1> QED BY <1>1, <1>2

(* A call begins, or ends at once, or enters grow(): only pc, call and ret *)
(* change.                                                                 *)
LEMMA QuietSteps ==
  ASSUME TableInv,
         (\E c \in Call : Begin(c)) \/ StartOnEmpty \/ StartWithGrow
  PROVE  TableInv'
<1>1. /\ pc' \in {"idle", "start", "grow"} /\ call' \in Call \cup {Idle}
      /\ UNCHANGED <<slots, size_, tombstones_, new_slots, i, index, tombstone>>
  BY DEF TableInv, TypeOK, Begin, StartOnEmpty, StartWithGrow, Return, rehash, probe
<1> QED BY <1>1 DEF TableInv, TypeOK, CountersBounded, RehashBounded, Finding,
                    TombstoneRemembered, ProbedTable, Filled, Tombs, InState, Limit

(* clear() keeps the invariant.                                            *)
LEMMA ClearStep ==
  ASSUME TableInv, Clear
  PROVE  TableInv'
<1>1. Filled(<<>>) = {} /\ Tombs(<<>>) = {}
  BY DEF Filled, Tombs, InState
<1>2. Limit(0) = 0
  BY DEF Limit
<1>3. /\ pc' = "idle" /\ call' = Idle /\ slots' = <<>> /\ size_' = 0 /\ tombstones_' = 0
      /\ UNCHANGED <<new_slots, i, index, tombstone>>
  BY DEF Clear, Return, rehash, probe
<1>4. TypeOK'
  BY <1>3 DEF TableInv, TypeOK, Finding
<1>5. CountersBounded'
  BY <1>1, <1>2, <1>3, FS_EmptySet DEF CountersBounded, Filled, Tombs, InState
<1> QED BY <1>3, <1>4, <1>5 DEF TableInv, RehashBounded, TombstoneRemembered, Finding

(* The steps that start a probe of the present table.                      *)
LEMMA StartFindSteps ==
  ASSUME TableInv, StartWithFind \/ GrowNotNeeded
  PROVE  TableInv'
<1>1. /\ pc' \in {"find", "find_new"}
      /\ pc' = "find" => size_ # 0
      /\ pc' = "find_new" => size_ + 1 + tombstones_ <= Limit(Len(slots))
      /\ index' = Home(slots, call.key) /\ tombstone' = 0
      /\ UNCHANGED <<slots, size_, tombstones_, call, new_slots, i>>
  <2>1. CASE StartWithFind
    BY <2>1 DEF StartWithFind, StartFind, rehash
  <2>2. CASE GrowNotNeeded
    <3>1. Limit(Len(slots)) \in Nat
      BY LimitBelowCapacity DEF TableInv, TypeOK
    <3> QED BY <2>2, <3>1 DEF GrowNotNeeded, StartFind, rehash, NeedsGrowth, TableInv, TypeOK
  <2> QED BY <2>1, <2>2
<1>2. Len(slots) > 0
  <2>1. Limit(0) = 0
    BY DEF Limit
  <2>2. size_ + tombstones_ <= Limit(Len(slots)) /\ size_ \in Nat /\ tombstones_ \in Nat
    BY DEF TableInv, CountersBounded, TypeOK
  <2>3. Len(slots) \in Nat
    BY DEF TableInv, TypeOK
  <2> QED BY <1>1, <2>1, <2>2, <2>3
<1>3. index' \in 1..Len(slots)
  BY <1>1, <1>2, HomeInTable, CallFields DEF TableInv, TypeOK
<1>4. TypeOK'
  BY <1>1, <1>3 DEF TableInv, TypeOK, Finding, ProbedTable
<1>5. CountersBounded'
  BY <1>1 DEF TableInv, CountersBounded, Filled, Tombs, InState, Limit
<1> QED BY <1>1, <1>4, <1>5 DEF TableInv, RehashBounded, TombstoneRemembered

(* grow() starts with a vector of EMPTY slots, into which all keys fit.    *)
LEMMA GrowBeginStep ==
  ASSUME TableInv, GrowBegin
  PROVE  TableInv'
<1> DEFINE n == NewCapacity(Len(slots))
           fresh == [j \in 1..n |-> EmptySlot]
<1>1. /\ pc' = "rehash" /\ new_slots' = fresh /\ i' = 1
      /\ UNCHANGED <<slots, size_, tombstones_, call, index, tombstone>>
  BY DEF GrowBegin, probe
<1>2. Len(slots) \in Nat /\ slots \in Seq(Slot) /\ (Len(slots) = 0 \/ Len(slots) >= MIN_TABLE_SIZE)
  BY DEF TableInv, TypeOK, CountersBounded
<1>3. n \in Nat
  BY <1>2, GrowthMakesRoom
<1> HIDE DEF n
<1>4. fresh \in Seq(Slot) /\ Len(fresh) = n
  BY <1>3, SlotsMade
<1>5. Filled(fresh) = {} /\ Tombs(fresh) = {}
  BY <1>4, SlotsMade DEF Filled, Tombs, InState
<1> HIDE DEF fresh
<1>6. TypeOK'
  BY <1>1, <1>4 DEF TableInv, TypeOK, Finding
<1>7. CountersBounded'
  BY <1>1 DEF TableInv, CountersBounded, Filled, Tombs, InState, Limit
<1>8. Unmoved' = Filled(slots)
  BY <1>1, <1>2 DEF Unmoved, Filled, InState
<1>9. Cardinality(Filled(fresh)) = 0
  BY <1>5, FS_EmptySet
<1>10. Cardinality(Filled(slots)) <= size_ /\ Cardinality(Filled(slots)) \in Nat
  BY <1>2, InStateFinite DEF TableInv, CountersBounded, Filled
<1>11. RehashBounded'
  <2>1. Len(new_slots') = NewCapacity(Len(slots'))
    BY <1>1, <1>4 DEF n
  <2>2. Tombs(new_slots)' = {}
    BY <1>1, <1>5 DEF Tombs, InState
  <2>3. Filled(new_slots)' = Filled(fresh)
    BY <1>1 DEF Filled, InState
  <2>4. (Cardinality(Filled(new_slots)) + Cardinality(Unmoved) <= size_)'
    BY <1>1, <1>8, <1>9, <1>10, <2>3
  <2>5. (i \in 1..(Len(slots) + 1))'
    BY <1>1, <1>2
  <2> QED BY <1>1, <2>1, <2>2, <2>4, <2>5 DEF RehashBounded, NewCapacity
<1> QED BY <1>1, <1>6, <1>7, <1>11 DEF TableInv, TombstoneRemembered, Finding

(* The rehash passes over a slot that has no key.                          *)
LEMMA RehashSkipStep ==
  ASSUME TableInv, RehashSkip
  PROVE  TableInv'
<1>1. /\ pc = "rehash" /\ i <= Len(slots) /\ slots[i].state # "FILLED" /\ i' = i + 1
      /\ UNCHANGED <<slots, size_, tombstones_, pc, call, new_slots, index, tombstone>>
  BY DEF RehashSkip, probe
<1>2. i \in 1..(Len(slots) + 1) /\ slots \in Seq(Slot)
  BY <1>1 DEF TableInv, RehashBounded, TypeOK
<1>3. Unmoved' = Unmoved
  BY <1>1, <1>2 DEF Unmoved, Filled, InState
<1>4. TypeOK'
  BY <1>1, <1>2 DEF TableInv, TypeOK, Finding
<1>5. CountersBounded'
  BY <1>1 DEF TableInv, CountersBounded, Filled, Tombs, InState, Limit
<1>6. RehashBounded'
  BY <1>1, <1>2, <1>3 DEF TableInv, RehashBounded, NewCapacity, Filled, Tombs, InState
<1> QED BY <1>1, <1>4, <1>5, <1>6 DEF TableInv, TombstoneRemembered, Finding

(* The rehash starts a probe of the new vector for the next key.           *)
LEMMA RehashFindStep ==
  ASSUME TableInv, RehashFind
  PROVE  TableInv'
<1>1. /\ pc = "rehash" /\ i <= Len(slots) /\ slots[i].state = "FILLED" /\ pc' = "rehash_find"
      /\ index' = Home(new_slots, slots[i].key) /\ tombstone' = 0
      /\ UNCHANGED <<slots, size_, tombstones_, call, new_slots, i>>
  BY DEF RehashFind, StartFind, rehash
<1>2. /\ i \in 1..Len(slots) /\ slots \in Seq(Slot) /\ new_slots \in Seq(Slot)
      /\ Len(new_slots) = NewCapacity(Len(slots))
  BY <1>1 DEF TableInv, RehashBounded, TypeOK
<1>3. i \in Filled(slots)
  BY <1>1, <1>2 DEF Filled, InState
<1>4. slots[i].key \in AllKeys
  <2>1. slots[i] \in Slot
    BY <1>2
  <2> QED BY <2>1 DEF Slot
<1>5. Len(new_slots) > 0
  BY <1>2, GrowthMakesRoom, SizeAssumption DEF TableInv, CountersBounded
<1>6. index' \in 1..Len(new_slots)
  BY <1>1, <1>2, <1>4, <1>5, HomeInTable
<1>7. TypeOK'
  BY <1>1, <1>6 DEF TableInv, TypeOK, Finding, ProbedTable
<1>8. CountersBounded'
  BY <1>1 DEF TableInv, CountersBounded, Filled, Tombs, InState, Limit
<1>9. RehashBounded'
  BY <1>1, <1>3 DEF TableInv, RehashBounded, NewCapacity, Filled, Tombs, InState, Unmoved
<1> QED BY <1>1, <1>7, <1>8, <1>9 DEF TableInv, TombstoneRemembered

(* The rehash puts a key into the new vector: one more there, one less to  *)
(* come.                                                                   *)
LEMMA RehashPlaceStep ==
  ASSUME TableInv, NEW p \in 1..Len(new_slots), pc = "rehash_find", RehashPlace(p), EndFind
  PROVE  TableInv'
<1>1. /\ pc' = "rehash" /\ i' = i + 1 /\ new_slots' = [new_slots EXCEPT ![p] = slots[i]]
      /\ UNCHANGED <<slots, size_, tombstones_, call>> /\ index' = 0 /\ tombstone' = 0
  BY DEF RehashPlace, EndFind
<1>2. /\ slots \in Seq(Slot) /\ new_slots \in Seq(Slot) /\ size_ \in Nat
      /\ i \in Filled(slots) /\ i \in 1..Len(slots) /\ Tombs(new_slots) = {}
      /\ Len(new_slots) = NewCapacity(Len(slots))
      /\ Cardinality(Filled(new_slots)) + Cardinality(Unmoved) <= size_
  BY DEF TableInv, RehashBounded, TypeOK, Filled, InState
<1>3. slots[i] \in Slot /\ slots[i].state = "FILLED"
  BY <1>2 DEF Filled, InState
<1>4. new_slots' \in Seq(Slot) /\ Len(new_slots') = Len(new_slots)
  BY <1>1, <1>2, <1>3, WriteSlot
<1>5. Tombs(new_slots)' = {}
  <2>1. InState(new_slots', "TOMBSTONE") = InState(new_slots, "TOMBSTONE") \ {p}
    BY <1>1, <1>2, <1>3, WriteSlot, ZenonT(40) DEF State
  <2> QED BY <1>2, <2>1 DEF Tombs
<1>6. /\ Cardinality(Filled(new_slots)) \in Nat
      /\ Cardinality(Filled(new_slots)') \in Nat
      /\ Cardinality(Filled(new_slots)') <= Cardinality(Filled(new_slots)) + 1
  <2>1. new_slots[p] \in Slot
    BY <1>2
  <2>2. /\ Cardinality(InState(new_slots, "FILLED")) \in Nat
        /\ \/ Cardinality(InState(new_slots', "FILLED")) = Cardinality(InState(new_slots, "FILLED"))
           \/ Cardinality(InState(new_slots', "FILLED")) = Cardinality(InState(new_slots, "FILLED")) + 1
    <3>1. "FILLED" \in State
      BY DEF State
    <3> DEFINE u == [new_slots EXCEPT ![p] = slots[i]]
               Count(t) == Cardinality(InState(t, "FILLED"))
    <3>2. ASSUME NEW s \in Slot, s.state = "FILLED"
          PROVE  /\ Count(new_slots) \in Nat
                 /\ \/ Count([new_slots EXCEPT ![p] = s]) = Count(new_slots)
                    \/ Count([new_slots EXCEPT ![p] = s]) = Count(new_slots) + 1
      <4>1. new_slots \in Seq(Slot)
        BY <1>2
      <4> QED BY <3>1, <3>2, <4>1, WriteSlotCounts
    <3>3. new_slots' = u
      BY <1>1
    <3>4. Count(new_slots) \in Nat /\ (Count(u) = Count(new_slots) \/ Count(u) = Count(new_slots) + 1)
      BY <1>3, <3>2
    <3> HIDE DEF u
    <3> QED BY <3>3, <3>4
  <2> QED BY <2>2 DEF Filled
<1>7. /\ Cardinality(Unmoved) \in Nat
      /\ Cardinality(Unmoved') = Cardinality(Unmoved) - 1
  <2>1. IsFiniteSet(Unmoved)
    BY <1>2, InStateFinite, FS_Subset DEF Unmoved, Filled
  <2>2. i \in Unmoved
    BY <1>2 DEF Unmoved
  <2>3. Unmoved' = Unmoved \ {i}
    BY <1>1, <1>2 DEF Unmoved, Filled, InState
  <2>4. Cardinality(Unmoved \ {i}) = Cardinality(Unmoved) - 1
    BY <2>1, <2>2, FS_RemoveElement
  <2> QED BY <2>1, <2>3, <2>4, FS_CardinalityType
<1>8. TypeOK'
  BY <1>1, <1>2, <1>4 DEF TableInv, TypeOK, Finding
<1>9. CountersBounded'
  BY <1>1 DEF TableInv, CountersBounded, Filled, Tombs, InState, Limit
<1>10. RehashBounded'
  <2>1. (Cardinality(Filled(new_slots)) + Cardinality(Unmoved) <= size_)'
    BY <1>1, <1>2, <1>6, <1>7
  <2>2. (i \in 1..(Len(slots) + 1))'
    BY <1>1, <1>2
  <2>3. (Len(new_slots) = NewCapacity(Len(slots)))'
    BY <1>1, <1>2, <1>4 DEF NewCapacity
  <2> QED BY <1>1, <1>5, <2>1, <2>2, <2>3 DEF RehashBounded
<1> QED BY <1>1, <1>8, <1>9, <1>10 DEF TableInv, TombstoneRemembered, Finding

(* The new vector takes the place of the old one, and has room for the key *)
(* of the call.                                                            *)
LEMMA RehashEndStep ==
  ASSUME TableInv, RehashEnd
  PROVE  TableInv'
<1>1. /\ pc = "rehash" /\ pc' = "find_new" /\ slots' = new_slots /\ tombstones_' = 0
      /\ new_slots' = <<>> /\ i' = 0
      /\ index' = Home(new_slots, call.key) /\ tombstone' = 0 /\ UNCHANGED <<size_, call>>
  BY DEF RehashEnd, StartFind
<1>2. /\ slots \in Seq(Slot) /\ new_slots \in Seq(Slot) /\ size_ \in Nat /\ tombstones_ \in Nat
      /\ Tombs(new_slots) = {} /\ Len(new_slots) = NewCapacity(Len(slots))
      /\ Cardinality(Filled(new_slots)) + Cardinality(Unmoved) <= size_
      /\ size_ + tombstones_ <= Limit(Len(slots))
      /\ Len(slots) = 0 \/ Len(slots) >= MIN_TABLE_SIZE
  BY <1>1 DEF TableInv, TypeOK, RehashBounded, CountersBounded
<1>3. /\ Len(new_slots) >= MIN_TABLE_SIZE /\ Len(new_slots) > 0
      /\ Limit(Len(slots)) + 1 <= Limit(Len(new_slots))
  BY <1>2, GrowthMakesRoom, SizeAssumption
<1>4. index' \in 1..Len(new_slots)
  BY <1>1, <1>2, <1>3, HomeInTable, CallFields DEF TableInv, TypeOK
<1>5. TypeOK'
  BY <1>1, <1>2, <1>4 DEF TableInv, TypeOK, Finding, ProbedTable
<1>6. Cardinality(Filled(new_slots)) <= size_
  <2>1. Cardinality(Filled(new_slots)) \in Nat
    BY <1>2, InStateFinite DEF Filled
  <2>2. Cardinality(Unmoved) \in Nat
    BY <1>2, InStateFinite, FS_Subset, FS_CardinalityType DEF Unmoved, Filled
  <2> QED BY <1>2, <2>1, <2>2
<1>7. size_ + 1 + 0 <= Limit(Len(new_slots))
  <2>1. Limit(Len(slots)) \in Nat /\ Limit(Len(new_slots)) \in Nat
    BY <1>2, LimitBelowCapacity
  <2> QED BY <1>2, <1>3, <2>1
<1>8. CountersBounded'
  <2>1. Filled(slots)' = Filled(new_slots) /\ Tombs(slots)' = {}
    BY <1>1, <1>2 DEF Filled, Tombs, InState
  <2>2. Cardinality(Tombs(slots)') = 0
    BY <2>1, FS_EmptySet
  <2>3. Limit(Len(slots))' = Limit(Len(new_slots)) /\ Limit(Len(new_slots)) \in Nat
    <3>1. Limit(Len(new_slots)) \in Nat
      BY <1>2, LimitBelowCapacity
    <3> QED BY <1>1, <3>1 DEF Limit
  <2> QED BY <1>1, <1>2, <1>3, <1>6, <1>7, <2>1, <2>2, <2>3 DEF CountersBounded
<1> QED BY <1>1, <1>5, <1>8 DEF TableInv, RehashBounded, TombstoneRemembered

(* One more iteration of the probe.                                        *)
LEMMA FindNextStep ==
  ASSUME TableInv, FindNext
  PROVE  TableInv'
<1> DEFINE t == ProbedTable
<1>1. /\ Finding /\ t[index].state # "EMPTY"
      /\ tombstone' = IF t[index].state = "TOMBSTONE" THEN index ELSE tombstone
      /\ index' = After(t, index)
      /\ UNCHANGED <<slots, size_, tombstones_, pc, call, new_slots, i>>
  BY DEF FindNext, rehash
<1>2. t' = t
  BY <1>1 DEF ProbedTable
<1>3. t \in Seq(Slot) /\ index \in 1..Len(t) /\ t[index] \in Slot
  BY <1>1, FindInTable
<1>4. index' \in 1..Len(t)
  BY <1>1, <1>3, AfterInTable
<1>5. tombstone' \in 0..Len(t) /\ (tombstone' # 0 => tombstone' \in Tombs(t))
  BY <1>1, <1>3 DEF TableInv, TypeOK, TombstoneRemembered, Tombs, InState
<1>6. Finding'
  BY <1>1 DEF Finding
<1>7. TypeOK'
  <2>1. (index \in 1..Len(ProbedTable) /\ tombstone \in 0..Len(ProbedTable))'
    BY <1>2, <1>4, <1>5
  <2> HIDE DEF t
  <2>2. index' \in Nat /\ tombstone' \in Nat
    BY <1>3, <1>4, <1>5
  <2> QED BY <1>1, <2>1, <2>2 DEF TableInv, TypeOK
<1>8. CountersBounded'
  BY <1>1 DEF TableInv, CountersBounded, Filled, Tombs, InState, Limit
<1>9. RehashBounded'
  BY <1>1 DEF TableInv, RehashBounded, NewCapacity, Filled, Tombs, InState, Unmoved
<1>10. TombstoneRemembered'
  <2>1. Tombs(ProbedTable)' = Tombs(t)
    BY <1>2 DEF Tombs, InState
  <2> QED BY <1>5, <2>1 DEF TombstoneRemembered
<1> QED BY <1>7, <1>8, <1>9, <1>10 DEF TableInv

(* The calls' work on the slot found.  Outside a rehash, the invariant is   *)
(* a matter of the counters alone.                                         *)
LEMMA EndOfCall ==
  ASSUME TableInv, slots' \in Seq(Slot), Len(slots') = Len(slots),
         size_' \in Nat, tombstones_' \in Nat,
         pc' \in {"idle", "grow"}, call' \in Call \cup {Idle},
         UNCHANGED <<new_slots, i>>, index' = 0, tombstone' = 0,
         Cardinality(Filled(slots')) <= size_', Cardinality(Tombs(slots')) <= tombstones_',
         size_' + tombstones_' <= Limit(Len(slots))
  PROVE  TableInv'
<1>1. TypeOK'
  BY DEF TableInv, TypeOK, Finding
<1>2. CountersBounded'
  BY DEF TableInv, CountersBounded, Filled, Tombs, InState
<1> QED BY <1>1, <1>2 DEF TableInv, RehashBounded, TombstoneRemembered, Finding

(* insert() or get_ref() writes the slot that the probe found.             *)
LEMMA InsertStep ==
  ASSUME TableInv, NEW p \in 1..Len(slots), pc = "find_new", InsertAt(p), EndFind,
         UNCHANGED rehash
  PROVE  TableInv'
<1> DEFINE s == IF slots[p].state = "FILLED" THEN [slots[p] EXCEPT !.value = call.value]
                                             ELSE FilledSlot(call.key, call.value)
<1>1. /\ slots' = [slots EXCEPT ![p] = s]
      /\ size_' = IF slots[p].state = "FILLED" THEN size_ ELSE size_ + 1
      /\ tombstones_' = IF slots[p].state = "TOMBSTONE" THEN tombstones_ - 1 ELSE tombstones_
      /\ pc' = "idle" /\ call' = Idle /\ index' = 0 /\ tombstone' = 0 /\ UNCHANGED <<new_slots, i>>
  BY DEF InsertAt, Return, EndFind, rehash
<1>2. /\ slots \in Seq(Slot) /\ size_ \in Nat /\ tombstones_ \in Nat
      /\ Cardinality(Filled(slots)) <= size_ /\ Cardinality(Tombs(slots)) <= tombstones_
      /\ size_ + 1 + tombstones_ <= Limit(Len(slots))
      /\ call.key \in AllKeys /\ call.value \in AllVals
  BY CallFields DEF TableInv, TypeOK, CountersBounded
<1>3. slots[p] \in Slot
  BY <1>2
<1>4. s \in Slot /\ s.state = "FILLED"
  BY <1>2, <1>3, SlotsMade DEF Slot
<1> HIDE DEF s
<1>5. slots' \in Seq(Slot) /\ Len(slots') = Len(slots)
  BY <1>1, <1>2, <1>4, WriteSlot
<1>6. /\ Cardinality(Filled(slots)) \in Nat
      /\ Cardinality(Filled(slots')) = IF slots[p].state = "FILLED" THEN Cardinality(Filled(slots))
                                       ELSE Cardinality(Filled(slots)) + 1
  BY <1>1, <1>2, <1>4, WriteSlotCounts DEF Filled, State
<1>7. /\ Cardinality(Tombs(slots)) \in Nat
      /\ Cardinality(Tombs(slots')) = IF slots[p].state = "TOMBSTONE" THEN Cardinality(Tombs(slots)) - 1
                                      ELSE Cardinality(Tombs(slots))
  BY <1>1, <1>2, <1>4, WriteSlotCounts DEF Tombs, State
<1>8. slots[p].state = "TOMBSTONE" => Cardinality(Tombs(slots)) > 0
  <2>1. slots[p].state = "TOMBSTONE" => p \in Tombs(slots)
    BY DEF Tombs, InState
  <2>2. IsFiniteSet(Tombs(slots))
    BY <1>2, InStateFinite DEF Tombs
  <2> QED BY <1>7, <2>1, <2>2, FS_EmptySet
<1>9. Limit(Len(slots)) \in Nat
  BY <1>2, LimitBelowCapacity
<1>10. /\ size_' \in Nat /\ tombstones_' \in Nat
       /\ Cardinality(Filled(slots')) <= size_' /\ Cardinality(Tombs(slots')) <= tombstones_'
       /\ size_' + tombstones_' <= Limit(Len(slots))
  BY <1>1, <1>2, <1>6, <1>7, <1>8, <1>9
<1> QED BY <1>1, <1>5, <1>10, EndOfCall

(* get(), contains(), erase() or the first probe of get_ref() uses the     *)
(* slot that the probe found.                                              *)
LEMMA LookupStep ==
  ASSUME TableInv, NEW p \in 1..Len(slots), pc = "find",
         GetAt(p) \/ ContainsAt(p) \/ EraseAt(p) \/ GetRefAt(p),
         EndFind, UNCHANGED rehash
  PROVE  TableInv'
<1>1. /\ slots \in Seq(Slot) /\ size_ \in Nat /\ tombstones_ \in Nat
      /\ call \in Call \cup {Idle} /\ call.value \in AllVals
      /\ Cardinality(Filled(slots)) <= size_ /\ Cardinality(Tombs(slots)) <= tombstones_
      /\ size_ + tombstones_ <= Limit(Len(slots))
  BY CallFields DEF TableInv, TypeOK, CountersBounded
<1>2. index' = 0 /\ tombstone' = 0 /\ UNCHANGED <<new_slots, i>>
  BY DEF EndFind, rehash
<1>3. slots[p] \in Slot
  BY <1>1
<1>4. Limit(Len(slots)) \in Nat
  BY <1>1, LimitBelowCapacity
<1>5. CASE UNCHANGED <<slots, size_, tombstones_>>
  <2>1. pc' \in {"idle", "grow"} /\ call' \in Call \cup {Idle}
    BY <1>1 DEF GetAt, ContainsAt, EraseAt, GetRefAt, Return
  <2>2. /\ slots' \in Seq(Slot) /\ Len(slots') = Len(slots) /\ size_' \in Nat /\ tombstones_' \in Nat
        /\ Cardinality(Filled(slots')) <= size_' /\ Cardinality(Tombs(slots')) <= tombstones_'
        /\ size_' + tombstones_' <= Limit(Len(slots))
    BY <1>1, <1>5
  <2> QED BY <1>2, <2>1, <2>2, EndOfCall
<1>6. CASE EraseAt(p) /\ slots[p].state = "FILLED"
  <2>1. /\ slots' = [slots EXCEPT ![p] = TombSlot]
        /\ tombstones_' = tombstones_ + 1 /\ size_' = size_ - 1
        /\ pc' = "idle" /\ call' = Idle
    BY <1>6 DEF EraseAt, Return
  <2>2. slots' \in Seq(Slot) /\ Len(slots') = Len(slots)
    BY <1>1, <2>1, SlotsMade, WriteSlot
  <2>3. /\ Cardinality(Filled(slots)) \in Nat
        /\ Cardinality(Filled(slots')) = Cardinality(Filled(slots)) - 1
    BY <1>1, <1>6, <2>1, SlotsMade, WriteSlotCounts DEF Filled, State
  <2>4. /\ Cardinality(Tombs(slots)) \in Nat
        /\ Cardinality(Tombs(slots')) = Cardinality(Tombs(slots)) + 1
    BY <1>1, <1>6, <2>1, SlotsMade, WriteSlotCounts DEF Tombs, State
  <2>5. Cardinality(Filled(slots)) > 0
    <3>1. p \in Filled(slots)
      BY <1>6 DEF Filled, InState
    <3>2. IsFiniteSet(Filled(slots))
      BY <1>1, InStateFinite DEF Filled
    <3> QED BY <2>3, <3>1, <3>2, FS_EmptySet
  <2>6. /\ size_' \in Nat /\ tombstones_' \in Nat
        /\ Cardinality(Filled(slots')) <= size_' /\ Cardinality(Tombs(slots')) <= tombstones_'
        /\ size_' + tombstones_' <= Limit(Len(slots))
    BY <1>1, <1>4, <2>1, <2>3, <2>4, <2>5
  <2> QED BY <1>2, <2>1, <2>2, <2>6, EndOfCall
<1>7. CASE GetRefAt(p) /\ slots[p].state = "FILLED"
  <2> DEFINE s == [slots[p] EXCEPT !.value = call.value]
  <2>1. /\ slots' = [slots EXCEPT ![p] = s] /\ pc' = "idle" /\ call' = Idle
        /\ UNCHANGED <<size_, tombstones_>>
    BY <1>7 DEF GetRefAt, Return
  <2>2. s \in Slot /\ s.state = slots[p].state
    BY <1>1, <1>3 DEF Slot
  <2> HIDE DEF s
  <2>3. slots' \in Seq(Slot) /\ Len(slots') = Len(slots)
    BY <1>1, <2>1, <2>2, WriteSlot
  <2>4. /\ Cardinality(Filled(slots')) = Cardinality(Filled(slots))
        /\ Cardinality(Tombs(slots')) = Cardinality(Tombs(slots))
    BY <1>1, <2>1, <2>2, WriteSlotCounts DEF Filled, Tombs, State
  <2> QED BY <1>1, <1>2, <2>1, <2>3, <2>4, EndOfCall
<1> QED BY <1>5, <1>6, <1>7 DEF GetAt, ContainsAt, EraseAt, GetRefAt

(* find_slot() returns a position of the table to the code that called it. *)
LEMMA FoundStep ==
  ASSUME TableInv, Finding, NEW p \in 1..Len(ProbedTable), FoundAt(p)
  PROVE  TableInv'
<1>1. CASE pc = "rehash_find"
  <2>1. RehashPlace(p) /\ EndFind /\ p \in 1..Len(new_slots)
    BY <1>1 DEF FoundAt, ProbedTable
  <2> QED BY <1>1, <2>1, RehashPlaceStep
<1>2. CASE pc = "find_new"
  <2>1. InsertAt(p) /\ EndFind /\ UNCHANGED rehash /\ p \in 1..Len(slots)
    BY <1>2 DEF FoundAt, ProbedTable
  <2> QED BY <1>2, <2>1, InsertStep
<1>3. CASE pc = "find"
  <2>1. /\ GetAt(p) \/ ContainsAt(p) \/ EraseAt(p) \/ GetRefAt(p)
        /\ EndFind /\ UNCHANGED rehash /\ p \in 1..Len(slots)
    BY <1>3 DEF FoundAt, ProbedTable
  <2> QED BY <1>3, <2>1, LookupStep
<1> QED BY <1>1, <1>2, <1>3 DEF Finding

-----------------------------------------------------------------------------
(* The table keeps its invariant, whatever the callers do.                 *)
THEOREM TableInvariant == Spec => []TableInv
<1>1. Init => TableInv
  BY InitTableInv
<1>2. TableInv /\ [Next]_vars => TableInv'
  <2> SUFFICES ASSUME TableInv, [Next]_vars PROVE TableInv'
    OBVIOUS
  <2>1. CASE (\E c \in Call : Begin(c)) \/ StartOnEmpty \/ StartWithGrow
    BY <2>1, QuietSteps
  <2>2. CASE Clear
    BY <2>2, ClearStep
  <2>3. CASE StartWithFind \/ GrowNotNeeded
    BY <2>3, StartFindSteps
  <2>4. CASE GrowBegin
    BY <2>4, GrowBeginStep
  <2>5. CASE RehashSkip
    BY <2>5, RehashSkipStep
  <2>6. CASE RehashFind
    BY <2>6, RehashFindStep
  <2>7. CASE RehashEnd
    BY <2>7, RehashEndStep
  <2>8. CASE FindMatch
    <3>1. Finding /\ FoundAt(index)
      BY <2>8 DEF FindMatch
    <3> QED BY <3>1, FindInTable, FoundStep
  <2>9. CASE FindEmpty
    <3>1. Finding /\ FoundAt(IF tombstone # 0 THEN tombstone ELSE index)
      BY <2>9 DEF FindEmpty
    <3>2. (IF tombstone # 0 THEN tombstone ELSE index) \in 1..Len(ProbedTable)
      BY <3>1, FindInTable
    <3> QED BY <3>1, <3>2, FoundStep
  <2>10. CASE FindNext
    BY <2>10, FindNextStep
  <2>11. CASE UNCHANGED vars
    <3>1. UNCHANGED <<slots, size_, tombstones_, pc, call, new_slots, i, index, tombstone>>
      BY <2>11 DEF vars
    <3> QED BY <3>1 DEF TableInv, TypeOK, CountersBounded, RehashBounded, TombstoneRemembered,
               Finding, ProbedTable, Filled, Tombs, InState, Limit, NewCapacity, Unmoved
  <2> QED BY <2>1, <2>2, <2>3, <2>4, <2>5, <2>6, <2>7, <2>8, <2>9, <2>10, <2>11
          DEF Next, Step
<1> QED BY <1>1, <1>2, PTL DEF Spec

(* Type correctness: in particular the probe never leaves the table.       *)
THEOREM TypeCorrect == Spec => []TypeOK
BY TableInvariant, PTL DEF TableInv

(* The table that a probe walks has an EMPTY slot.                         *)
LEMMA EmptyAhead ==
  ASSUME TableInv, Finding
  PROVE  Empties(ProbedTable) # {}
<1>1. ProbedTable \in Seq(Slot) /\ Len(ProbedTable) > 0
  BY FindInTable
<1>2. /\ slots \in Seq(Slot) /\ new_slots \in Seq(Slot) /\ size_ \in Nat /\ tombstones_ \in Nat
      /\ Limit(Len(slots)) \in Nat
  BY LimitBelowCapacity DEF TableInv, TypeOK
<1>3. CASE pc = "rehash_find"
  <2>1. /\ Tombs(new_slots) = {}
        /\ Cardinality(Filled(new_slots)) + Cardinality(Unmoved) <= size_
        /\ Len(new_slots) = NewCapacity(Len(slots))
        /\ size_ + tombstones_ <= Limit(Len(slots))
        /\ Len(slots) = 0 \/ Len(slots) >= MIN_TABLE_SIZE
    BY <1>3 DEF TableInv, RehashBounded, CountersBounded
  <2>2. Cardinality(Tombs(new_slots)) = 0
    BY <2>1, FS_EmptySet
  <2>3. Limit(Len(slots)) + 1 <= Limit(Len(new_slots)) /\ Limit(Len(new_slots)) \in Nat
    BY <1>2, <2>1, GrowthMakesRoom, LimitBelowCapacity
  <2>4. Cardinality(Filled(new_slots)) \in Nat
    BY <1>2, InStateFinite DEF Filled
  <2>5. Cardinality(Unmoved) \in Nat
    BY <1>2, InStateFinite, FS_Subset, FS_CardinalityType DEF Unmoved, Filled
  <2>6. Cardinality(Filled(new_slots)) + Cardinality(Tombs(new_slots)) <= Limit(Len(new_slots))
    BY <1>2, <2>1, <2>2, <2>3, <2>4, <2>5
  <2>7. ProbedTable = new_slots
    BY <1>3 DEF ProbedTable
  <2> QED BY <1>1, <2>6, <2>7, EmptySlotExists
<1>4. CASE pc # "rehash_find"
  <2>1. ProbedTable = slots
    BY <1>4 DEF ProbedTable
  <2>2. Cardinality(Filled(slots)) \in Nat /\ Cardinality(Tombs(slots)) \in Nat
    BY <1>2, InStateFinite DEF Filled, Tombs
  <2>3. Cardinality(Filled(slots)) + Cardinality(Tombs(slots)) <= Limit(Len(slots))
    BY <1>2, <2>2 DEF TableInv, CountersBounded
  <2> QED BY <1>1, <2>1, <2>3, EmptySlotExists
<1> QED BY <1>3, <1>4

(* The while (true) of find_slot always has an EMPTY slot ahead of it: no  *)
(* sequence of insertions and erasures, and no moment of a rehash, leaves  *)
(* a table in which a probe could run for ever.                            *)
THEOREM ProbeTermination == Spec => []ProbeEnds
<1>1. TableInv => ProbeEnds
  BY EmptyAhead DEF ProbeEnds
<1> QED BY <1>1, TableInvariant, PTL
=============================================================================
