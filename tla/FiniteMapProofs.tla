--------------------------- MODULE FiniteMapProofs ---------------------------
(***************************************************************************)
(* Proofs that the hash table is a finite map, for every set of keys that  *)
(* does not hold Key{}, every hash function, and every minimum table size  *)
(* of at least 2: the counters are exact, every key that is stored is      *)
(* found, and each call does what the operation of FiniteMap does.         *)
(***************************************************************************)
EXTENDS HashMapProofs

-----------------------------------------------------------------------------
(* The order in which a probe visits the positions of a table.             *)

(* Of two positions, the probe for a key comes to one before the other.    *)
LEMMA PathSplits ==
  ASSUME NEW t \in Seq(Slot), NEW k \in AllKeys, NEW p \in 1..Len(t), NEW q \in 1..Len(t), p # q
  PROVE  p \in ProbePath(t, k, q) \/ q \in ProbePath(t, k, p)
<1>1. Home(t, k) \in 1..Len(t)
  BY HomeInTable
<1> QED BY <1>1 DEF ProbePath

(* What it passes on the way to p it also passes on the way to what comes  *)
(* after p.                                                                *)
LEMMA PathGrows ==
  ASSUME NEW t \in Seq(Slot), NEW k \in AllKeys, NEW q \in 1..Len(t), NEW p \in ProbePath(t, k, q)
  PROVE  p \in 1..Len(t) /\ ProbePath(t, k, p) \subseteq ProbePath(t, k, q)
<1>1. Home(t, k) \in 1..Len(t)
  BY HomeInTable DEF ProbePath
<1> QED BY <1>1 DEF ProbePath

(* At home nothing has been passed.                                        *)
LEMMA PathFromHome ==
  ASSUME NEW t \in Seq(Slot), NEW k \in AllKeys, Len(t) > 0
  PROVE  ProbePath(t, k, Home(t, k)) = {}
<1>1. Home(t, k) \in 1..Len(t)
  BY HomeInTable
<1> QED BY <1>1 DEF ProbePath

(* One step of the probe passes the position it leaves, unless it has been *)
(* all around the table.                                                   *)
LEMMA PathStep ==
  ASSUME NEW t \in Seq(Slot), NEW k \in AllKeys, NEW p \in 1..Len(t)
  PROVE  /\ ProbePath(t, k, After(t, p)) \subseteq ProbePath(t, k, p) \cup {p}
         /\ \/ ProbePath(t, k, After(t, p)) = ProbePath(t, k, p) \cup {p}
            \/ 1..Len(t) = ProbePath(t, k, p) \cup {p}
<1>1. Home(t, k) \in 1..Len(t)
  BY HomeInTable
<1>2. After(t, p) \in 1..Len(t) /\ After(t, p) = IF p = Len(t) THEN 1 ELSE p + 1
  BY AfterInTable DEF After
<1>3. CASE After(t, p) = Home(t, k)
  BY <1>1, <1>2, <1>3 DEF ProbePath
<1>4. CASE After(t, p) # Home(t, k)
  BY <1>1, <1>2, <1>4 DEF ProbePath
<1> QED BY <1>3, <1>4

-----------------------------------------------------------------------------
(* Writing a slot.                                                         *)

(* Table u is table t after slot s has been written at position p.  The     *)
(* paths of the probes are the same.                                       *)
Written(u, t, p, s) ==
  /\ u \in Seq(Slot) /\ Len(u) = Len(t)
  /\ \A q \in 1..Len(t) : u[q] = IF q = p THEN s ELSE t[q]
  /\ \A k, q : ProbePath(u, k, q) = ProbePath(t, k, q)
  /\ s.state = "FILLED" => Filled(u) = Filled(t) \cup {p}
  /\ s.state # "FILLED" => Filled(u) = Filled(t) \ {p}

(* This is what an assignment to a slot does.                              *)
LEMMA Writing ==
  ASSUME NEW t \in Seq(Slot), NEW p \in 1..Len(t), NEW s \in Slot
  PROVE  Written([t EXCEPT ![p] = s], t, p, s)
<1> DEFINE u == [t EXCEPT ![p] = s]
<1>1. u \in Seq(Slot) /\ Len(u) = Len(t)
  BY ExceptSeq
<1>2. \A q \in 1..Len(t) : u[q] = IF q = p THEN s ELSE t[q]
  OBVIOUS
<1> HIDE DEF u
<1>3. \A k, q : ProbePath(u, k, q) = ProbePath(t, k, q)
  BY <1>1 DEF ProbePath, Home
<1>4. /\ s.state = "FILLED" => Filled(u) = Filled(t) \cup {p}
      /\ s.state # "FILLED" => Filled(u) = Filled(t) \ {p}
  BY <1>1, <1>2 DEF Filled, InState
<1>5. Written(u, t, p, s)
  BY <1>1, <1>2, <1>3, <1>4 DEF Written
<1> QED BY <1>5 DEF u

(* Where find_slot() ends for key k: at the key's own slot, or at one that *)
(* can take the key, which then is in no slot.                             *)
Located(t, k, p) ==
  IF t[p].state = "FILLED"
    THEN t[p].key = k
    ELSE /\ \A q \in ProbePath(t, k, p) : t[q].state # "EMPTY"
         /\ \A q \in Filled(t) : t[q].key # k

(* A key put where find_slot() ended can be found again, and so can all    *)
(* the others.                                                             *)
LEMMA PutSound ==
  ASSUME NEW t \in Seq(Slot), NEW p \in 1..Len(t), NEW s \in Slot, NEW u, Written(u, t, p, s),
         s.state = "FILLED", s.key \in Keys, Sound(t), Located(t, s.key, p)
  PROVE  Sound(u)
<1>1. /\ u \in Seq(Slot) /\ Len(u) = Len(t)
      /\ \A q \in 1..Len(t) : u[q] = IF q = p THEN s ELSE t[q]
      /\ \A k, q : ProbePath(u, k, q) = ProbePath(t, k, q)
      /\ Filled(u) = Filled(t) \cup {p}
  BY DEF Written
<1>2. Filled(t) \subseteq 1..Len(t)
  BY DEF Filled, InState
<1>3. Keyed(u)
  <2> SUFFICES ASSUME NEW q \in 1..Len(t)
               PROVE  /\ u[q].state = "FILLED" => u[q].key \in Keys
                      /\ u[q].state # "FILLED" => u[q].key = NoKey
    BY <1>1 DEF Keyed
  <2>1. CASE q = p
    BY <1>1, <2>1
  <2>2. CASE q # p
    BY <1>1, <2>2 DEF Sound, Keyed
  <2> QED BY <2>1, <2>2
<1>4. ASSUME NEW q \in Filled(u), NEW r \in 1..Len(u)
      PROVE  r \in ProbePath(u, u[q].key, q) => u[r].state # "EMPTY"
  <2>1. CASE q \in Filled(t)
    <3>1. u[q].key = t[q].key
      BY <1>1, <1>2, <2>1 DEF Located, Filled, InState
    <3>2. r \in ProbePath(t, t[q].key, q) => t[r].state # "EMPTY"
      BY <1>1, <2>1 DEF Sound, Reachable
    <3> QED BY <1>1, <2>1, <3>1, <3>2
  <2>2. CASE q = p /\ p \notin Filled(t)
    <3>1. t[p].state # "FILLED" /\ u[q].key = s.key
      BY <1>1, <2>2 DEF Filled, InState
    <3>2. r \in ProbePath(t, s.key, p) => t[r].state # "EMPTY"
      BY <3>1 DEF Located
    <3> QED BY <1>1, <2>2, <3>1, <3>2
  <2> QED BY <1>1, <2>1, <2>2
<1>5. ASSUME NEW q \in Filled(u), NEW r \in Filled(u), r # q
      PROVE  u[r].key # u[q].key
  <2>1. ASSUME NEW x \in Filled(t), NEW y \in Filled(t), x # y PROVE t[x].key # t[y].key
    BY <1>2, <2>1 DEF Sound, Reachable
  <2>2. p \in Filled(t) => t[p].key = s.key
    BY DEF Located, Filled, InState
  <2>3. p \notin Filled(t) => \A x \in Filled(t) : t[x].key # s.key
    BY DEF Located, Filled, InState
  <2>4. u[p] = s /\ \A x \in Filled(t) : x # p => u[x] = t[x]
    BY <1>1, <1>2
  <2>5. CASE p \in Filled(t)
    <3>1. q \in Filled(t) /\ r \in Filled(t) /\ u[q].key = t[q].key /\ u[r].key = t[r].key
      BY <1>1, <2>2, <2>4, <2>5
    <3> QED BY <1>5, <2>1, <3>1
  <2>6. CASE p \notin Filled(t)
    <3>1. CASE q = p
      BY <1>1, <1>5, <2>3, <2>4, <2>6, <3>1
    <3>2. CASE r = p
      BY <1>1, <1>5, <2>3, <2>4, <2>6, <3>2
    <3>3. CASE q # p /\ r # p
      BY <1>1, <1>5, <2>1, <2>4, <3>3
    <3> QED BY <3>1, <3>2, <3>3
  <2> QED BY <2>5, <2>6
<1>6. Reachable(u)
  BY <1>4, <1>5 DEF Reachable
<1> QED BY <1>3, <1>6 DEF Sound

(* A tombstone keeps the others in reach.                                  *)
LEMMA TombSound ==
  ASSUME NEW t \in Seq(Slot), NEW p \in 1..Len(t), NEW u, Written(u, t, p, TombSlot), Sound(t)
  PROVE  Sound(u)
<1>1. TombSlot \in Slot /\ TombSlot.state = "TOMBSTONE" /\ TombSlot.key = NoKey
  BY SlotsMade DEF TombSlot
<1>2. /\ u \in Seq(Slot) /\ Len(u) = Len(t)
      /\ \A q \in 1..Len(t) : u[q] = IF q = p THEN TombSlot ELSE t[q]
      /\ \A k, q : ProbePath(u, k, q) = ProbePath(t, k, q)
      /\ Filled(u) = Filled(t) \ {p}
  BY <1>1 DEF Written
<1>3. Filled(t) \subseteq 1..Len(t)
  BY DEF Filled, InState
<1>4. Keyed(u)
  <2> SUFFICES ASSUME NEW q \in 1..Len(t)
               PROVE  /\ u[q].state = "FILLED" => u[q].key \in Keys
                      /\ u[q].state # "FILLED" => u[q].key = NoKey
    BY <1>2 DEF Keyed
  <2>1. CASE q = p
    BY <1>1, <1>2, <2>1
  <2>2. CASE q # p
    BY <1>2, <2>2 DEF Sound, Keyed
  <2> QED BY <2>1, <2>2
<1>5. Reachable(u)
  <2> SUFFICES ASSUME NEW q \in Filled(u), NEW r \in 1..Len(u)
               PROVE  /\ r \in ProbePath(u, u[q].key, q) => u[r].state # "EMPTY"
                      /\ r # q /\ r \in Filled(u) => u[r].key # u[q].key
    BY DEF Reachable
  <2>1. q \in Filled(t) /\ q # p /\ u[q] = t[q]
    BY <1>2, <1>3
  <2>2. /\ r \in ProbePath(t, t[q].key, q) => t[r].state # "EMPTY"
        /\ r # q /\ r \in Filled(t) => t[r].key # t[q].key
    BY <1>2, <2>1 DEF Sound, Reachable
  <2> QED BY <1>1, <1>2, <2>1, <2>2
<1> QED BY <1>4, <1>5 DEF Sound

-----------------------------------------------------------------------------
(* The finite map that a table stands for.                                 *)

(* The keys of the map are those in the FILLED slots, and the value of a   *)
(* key is the one beside it.                                               *)
LEMMA StoredIs ==
  ASSUME NEW t \in Seq(Slot), Reachable(t)
  PROVE  /\ Stored(t) = [k \in DOMAIN Stored(t) |-> Stored(t)[k]]
         /\ DOMAIN Stored(t) = {t[p].key : p \in Filled(t)}
         /\ \A p \in Filled(t) : t[p].key \in DOMAIN Stored(t) /\ Stored(t)[t[p].key] = t[p].value
<1> DEFINE At(k) == CHOOSE p \in Filled(t) : t[p].key = k
<1>1. Stored(t) = [k \in {t[p].key : p \in Filled(t)} |-> t[At(k)].value]
  BY DEF Stored
<1>2. ASSUME NEW p \in Filled(t) PROVE At(t[p].key) = p
  <2>1. Filled(t) \subseteq 1..Len(t)
    BY DEF Filled, InState
  <2>2. At(t[p].key) \in Filled(t) /\ t[At(t[p].key)].key = t[p].key
    OBVIOUS
  <2> HIDE DEF At
  <2> QED BY <2>1, <2>2 DEF Reachable
<1> HIDE DEF At
<1>3. DOMAIN Stored(t) = {t[p].key : p \in Filled(t)}
  BY <1>1
<1>4. Stored(t) = [k \in DOMAIN Stored(t) |-> Stored(t)[k]]
  BY <1>1
<1>5. ASSUME NEW p \in Filled(t)
      PROVE  t[p].key \in DOMAIN Stored(t) /\ Stored(t)[t[p].key] = t[p].value
  <2>1. Stored(t)[t[p].key] = t[At(t[p].key)].value
    BY <1>1
  <2> QED BY <1>2, <1>3, <2>1
<1> QED BY <1>3, <1>4, <1>5

(* Two tables with the same FILLED slots, wherever they stand, are the     *)
(* same map.                                                               *)
LEMMA StoredSame ==
  ASSUME NEW t \in Seq(Slot), NEW u \in Seq(Slot), Reachable(t), Reachable(u),
         \A p \in Filled(u) : \E j \in Filled(t) : u[p] = t[j],
         \A j \in Filled(t) : \E p \in Filled(u) : u[p] = t[j]
  PROVE  Stored(u) = Stored(t)
<1>1. DOMAIN Stored(u) = DOMAIN Stored(t)
  <2>1. DOMAIN Stored(u) = {u[p].key : p \in Filled(u)} /\ DOMAIN Stored(t) = {t[p].key : p \in Filled(t)}
    BY StoredIs
  <2>2. {u[p].key : p \in Filled(u)} = {t[p].key : p \in Filled(t)}
    OBVIOUS
  <2> QED BY <2>1, <2>2
<1>2. ASSUME NEW k \in DOMAIN Stored(u) PROVE Stored(u)[k] = Stored(t)[k]
  <2>1. PICK p \in Filled(u) : k = u[p].key
    <3>1. k \in {u[p].key : p \in Filled(u)}
      BY StoredIs
    <3> QED BY <3>1
  <2>2. PICK j \in Filled(t) : u[p] = t[j]
    OBVIOUS
  <2>3. Stored(u)[u[p].key] = u[p].value /\ Stored(t)[t[j].key] = t[j].value
    BY StoredIs
  <2> QED BY <2>1, <2>2, <2>3
<1>3. /\ Stored(u) = [k \in DOMAIN Stored(u) |-> Stored(u)[k]]
      /\ Stored(t) = [k \in DOMAIN Stored(t) |-> Stored(t)[k]]
  BY StoredIs
<1> QED BY <1>1, <1>2, <1>3

(* Putting a key where find_slot() ended gives the key its value.          *)
LEMMA StoredPut ==
  ASSUME NEW t \in Seq(Slot), NEW p \in 1..Len(t), NEW s \in Slot, NEW u, Written(u, t, p, s),
         s.state = "FILLED", s.key \in Keys, Sound(t), Located(t, s.key, p)
  PROVE  Stored(u) = [k \in DOMAIN Stored(t) \cup {s.key} |->
                        IF k = s.key THEN s.value ELSE Stored(t)[k]]
<1>1. /\ u \in Seq(Slot) /\ Len(u) = Len(t) /\ Filled(u) = Filled(t) \cup {p}
      /\ \A q \in 1..Len(t) : u[q] = IF q = p THEN s ELSE t[q]
  BY DEF Written
<1>2. Reachable(t) /\ Reachable(u)
  BY PutSound DEF Sound
<1>3. Filled(t) \subseteq 1..Len(t)
  BY DEF Filled, InState
<1>4. /\ Stored(u) = [k \in DOMAIN Stored(u) |-> Stored(u)[k]]
      /\ DOMAIN Stored(u) = {u[q].key : q \in Filled(u)}
      /\ \A q \in Filled(u) : Stored(u)[u[q].key] = u[q].value
  BY <1>1, <1>2, StoredIs
<1>5. /\ DOMAIN Stored(t) = {t[q].key : q \in Filled(t)}
      /\ \A q \in Filled(t) : Stored(t)[t[q].key] = t[q].value
  BY <1>2, StoredIs
<1>6. u[p] = s /\ p \in Filled(u) /\ \A q \in Filled(t) : q # p => q \in Filled(u) /\ u[q] = t[q]
  BY <1>1, <1>3
<1>7. p \in Filled(t) => t[p].key = s.key
  BY DEF Located, Filled, InState
<1>8. DOMAIN Stored(u) = DOMAIN Stored(t) \cup {s.key}
  <2>1. {u[q].key : q \in Filled(u)} \subseteq {t[q].key : q \in Filled(t)} \cup {s.key}
    BY <1>1, <1>6
  <2>2. {t[q].key : q \in Filled(t)} \subseteq {u[q].key : q \in Filled(u)}
    BY <1>1, <1>6, <1>7
  <2>3. s.key \in {u[q].key : q \in Filled(u)}
    BY <1>6
  <2> QED BY <1>4, <1>5, <2>1, <2>2, <2>3
<1>9. ASSUME NEW k \in DOMAIN Stored(u)
      PROVE  Stored(u)[k] = IF k = s.key THEN s.value ELSE Stored(t)[k]
  <2>1. CASE k = s.key
    BY <1>4, <1>6, <2>1
  <2>2. CASE k # s.key
    <3>1. PICK q \in Filled(t) : k = t[q].key
      BY <1>5, <1>8, <2>2
    <3>2. q # p /\ q \in Filled(u) /\ u[q] = t[q]
      BY <1>6, <1>7, <2>2, <3>1
    <3> QED BY <1>4, <1>5, <2>2, <3>1, <3>2
  <2> QED BY <2>1, <2>2
<1> QED BY <1>4, <1>8, <1>9

(* Erasing a slot takes its key away.                                      *)
LEMMA StoredErase ==
  ASSUME NEW t \in Seq(Slot), NEW p \in Filled(t), NEW u, Written(u, t, p, TombSlot), Sound(t)
  PROVE  Stored(u) = [k \in DOMAIN Stored(t) \ {t[p].key} |-> Stored(t)[k]]
<1>1. /\ u \in Seq(Slot) /\ Filled(u) = Filled(t) \ {p} /\ p \in 1..Len(t)
      /\ \A q \in 1..Len(t) : u[q] = IF q = p THEN TombSlot ELSE t[q]
  BY SlotsMade DEF Written, Filled, InState
<1>2. Reachable(t) /\ Reachable(u)
  BY <1>1, TombSound DEF Sound
<1>3. Filled(t) \subseteq 1..Len(t)
  BY DEF Filled, InState
<1>4. /\ Stored(u) = [k \in DOMAIN Stored(u) |-> Stored(u)[k]]
      /\ DOMAIN Stored(u) = {u[q].key : q \in Filled(u)}
      /\ \A q \in Filled(u) : Stored(u)[u[q].key] = u[q].value
  BY <1>1, <1>2, StoredIs
<1>5. /\ DOMAIN Stored(t) = {t[q].key : q \in Filled(t)}
      /\ \A q \in Filled(t) : Stored(t)[t[q].key] = t[q].value
  BY <1>2, StoredIs
<1>6. \A q \in Filled(u) : q \in Filled(t) /\ q # p /\ u[q] = t[q] /\ t[q].key # t[p].key
  BY <1>1, <1>2, <1>3 DEF Reachable
<1>7. DOMAIN Stored(u) = DOMAIN Stored(t) \ {t[p].key}
  <2>1. {u[q].key : q \in Filled(u)} \subseteq {t[q].key : q \in Filled(t)} \ {t[p].key}
    BY <1>6
  <2>2. {t[q].key : q \in Filled(t)} \ {t[p].key} \subseteq {u[q].key : q \in Filled(u)}
    BY <1>1, <1>6
  <2> QED BY <1>4, <1>5, <2>1, <2>2
<1>8. ASSUME NEW k \in DOMAIN Stored(u)
      PROVE  Stored(u)[k] = Stored(t)[k]
  <2>1. PICK q \in Filled(u) : k = u[q].key
    BY <1>4
  <2> QED BY <1>4, <1>5, <1>6, <2>1
<1> QED BY <1>4, <1>7, <1>8

-----------------------------------------------------------------------------
(* The end of a probe.                                                     *)

(* What the invariant says of a probe under way.                           *)
LEMMA Probing ==
  ASSUME MapInv, Finding
  PROVE  /\ ProbedTable \in Seq(Slot) /\ Sound(ProbedTable)
         /\ ProbedKey \in Keys /\ ProbedKey \in AllKeys
         /\ index \in 1..Len(ProbedTable)
         /\ \A p \in ProbePath(ProbedTable, ProbedKey, index) :
              ProbedTable[p].state # "EMPTY" /\ ProbedTable[p].key # ProbedKey
         /\ tombstone # 0 => /\ tombstone \in ProbePath(ProbedTable, ProbedKey, index)
                             /\ tombstone \in 1..Len(ProbedTable)
                             /\ ProbedTable[tombstone].state = "TOMBSTONE"
<1>1. TableInv
  BY DEF MapInv
<1>2. /\ ProbedTable \in Seq(Slot) /\ index \in 1..Len(ProbedTable)
      /\ tombstone # 0 => tombstone \in 1..Len(ProbedTable)
  BY <1>1, FindInTable
<1>3. Sound(ProbedTable)
  BY DEF MapInv, ProbedTable
<1>4. tombstone # 0 => ProbedTable[tombstone].state = "TOMBSTONE"
  BY <1>1 DEF TableInv, TombstoneRemembered, Tombs, InState
<1>5. /\ ProbedKey \in Keys
      /\ \A p \in ProbePath(ProbedTable, ProbedKey, index) :
              ProbedTable[p].state # "EMPTY" /\ ProbedTable[p].key # ProbedKey
      /\ tombstone # 0 => tombstone \in ProbePath(ProbedTable, ProbedKey, index)
  BY DEF MapInv, PassedOver
<1> QED BY <1>2, <1>3, <1>4, <1>5 DEF AllKeys

(* find_slot() ends at the slot of the key; if it ends anywhere else, the  *)
(* key is nowhere in the table, and the slot is the right one for it.      *)
LEMMA FindLocates ==
  ASSUME NoKey \notin Keys, MapInv, FindMatch \/ FindEmpty
  PROVE  /\ Finding
         /\ \E p \in 1..Len(ProbedTable) : FoundAt(p) /\ Located(ProbedTable, ProbedKey, p)
<1> DEFINE t == ProbedTable
           k == ProbedKey
<1>1. Finding
  BY DEF FindMatch, FindEmpty
<1>2. /\ t \in Seq(Slot) /\ Sound(t) /\ k \in Keys /\ k \in AllKeys /\ index \in 1..Len(t)
      /\ \A p \in ProbePath(t, k, index) : t[p].state # "EMPTY" /\ t[p].key # k
      /\ tombstone # 0 => /\ tombstone \in ProbePath(t, k, index)
                          /\ tombstone \in 1..Len(t) /\ t[tombstone].state = "TOMBSTONE"
  BY <1>1, Probing
<1>3. CASE FindMatch
  <2>1. t[index].key = k /\ FoundAt(index)
    BY <1>3 DEF FindMatch, KeyMatches
  <2>2. t[index].state = "FILLED"
    BY <1>2, <2>1 DEF Sound, Keyed
  <2>3. Located(t, k, index)
    BY <2>1, <2>2 DEF Located
  <2> QED BY <1>1, <1>2, <2>1, <2>3
<1>4. CASE FindEmpty
  <2> DEFINE p == IF tombstone # 0 THEN tombstone ELSE index
  <2>1. t[index].state = "EMPTY" /\ FoundAt(p)
    BY <1>4 DEF FindEmpty
  <2>2. /\ p \in 1..Len(t) /\ t[p].state # "FILLED"
        /\ p = index \/ p \in ProbePath(t, k, index)
    BY <1>2, <2>1
  <2> HIDE DEF p, t, k
  <2>3. ASSUME NEW q \in Filled(t) PROVE t[q].key # k
    <3> SUFFICES ASSUME t[q].key = k PROVE FALSE
      OBVIOUS
    <3>1. q \in 1..Len(t) /\ q # index
      BY <2>1 DEF Filled, InState
    <3>2. q \in ProbePath(t, k, index) \/ index \in ProbePath(t, k, q)
      BY <1>2, <3>1, PathSplits
    <3> QED BY <1>2, <2>1, <3>2 DEF Sound, Reachable
  <2>4. \A q \in ProbePath(t, k, p) : t[q].state # "EMPTY"
    BY <1>2, <2>2, PathGrows
  <2>5. Located(t, k, p)
    BY <2>2, <2>3, <2>4 DEF Located
  <2> QED BY <1>1, <2>1, <2>2, <2>5 DEF t, k
<1> QED BY <1>3, <1>4

-----------------------------------------------------------------------------
(* The invariant.                                                          *)

(* The calls that carry a key.                                             *)
LEMMA KeyOfCall ==
  ASSUME NEW c \in Call
  PROVE  /\ c.op \in {"get", "contains", "erase", "insert", "get_ref"} => c.key \in Keys
         /\ c.op \in {"insert", "get_ref"} => c.value \in Vals
         /\ c.op \in {"get", "contains", "erase", "insert", "get_ref", "clear"}
BY DEF Call

(* A table without FILLED slots is sound when its other slots are fresh.   *)
LEMMA FreshSound ==
  ASSUME NEW n \in Nat, NEW t, t = [j \in 1..n |-> EmptySlot]
  PROVE  t \in Seq(Slot) /\ Len(t) = n /\ Filled(t) = {} /\ Tombs(t) = {} /\ Sound(t)
<1>1. t \in Seq(Slot) /\ Len(t) = n
  BY SlotsMade
<1>2. \A p \in 1..n : t[p].state = "EMPTY" /\ t[p].key = NoKey
  BY DEF EmptySlot
<1>3. Filled(t) = {} /\ Tombs(t) = {}
  BY <1>1, <1>2 DEF Filled, Tombs, InState
<1> QED BY <1>1, <1>2, <1>3 DEF Sound, Keyed, Reachable

(* So is the vector of a new or cleared table.                             *)
LEMMA EmptySound == Sound(<<>>) /\ Filled(<<>>) = {} /\ Tombs(<<>>) = {}
BY DEF Sound, Keyed, Reachable, Filled, Tombs, InState

(* A new table has the invariant.                                          *)
LEMMA InitMapInv == Init => MapInv
<1> SUFFICES ASSUME Init PROVE MapInv
  OBVIOUS
<1>1. TableInv
  BY InitTableInv
<1>2. Cardinality({}) = 0
  BY FS_EmptySet
<1> QED BY <1>1, <1>2, EmptySound DEF Init, MapInv, CountsInv, MovedExactly, PassedOver, CallFits,
           Rehashing, Finding

(* Steps outside a rehash that leave the vectors alone and probe nothing.  *)
LEMMA TablesKept ==
  ASSUME MapInv, ~Rehashing, ~Rehashing', UNCHANGED <<slots, size_, tombstones_, new_slots>>
  PROVE  Sound(slots)' /\ Sound(new_slots)' /\ CountsInv' /\ MovedExactly'
<1>1. Sound(slots)' /\ Sound(new_slots)'
  BY DEF MapInv, Sound, Keyed, Reachable, Filled, InState, ProbePath, Home
<1>2. CountsInv'
  BY DEF MapInv, CountsInv, Filled, Tombs, InState
<1>3. MovedExactly'
  BY DEF MapInv, MovedExactly
<1> QED BY <1>1, <1>2, <1>3

(* A call begins, or ends at once, or enters grow().                       *)
LEMMA QuietMap ==
  ASSUME MapInv, (\E c \in Call : Begin(c)) \/ StartOnEmpty \/ StartWithGrow
  PROVE  MapInv'
<1>1. TableInv'
  BY QuietSteps DEF MapInv
<1>2. /\ pc \in {"idle", "start"} /\ pc' \in {"idle", "start", "grow"}
      /\ UNCHANGED <<slots, size_, tombstones_, new_slots>>
  BY DEF Begin, StartOnEmpty, StartWithGrow, Return, rehash
<1>3. ~Rehashing /\ ~Rehashing' /\ ~Finding'
  BY <1>2 DEF Rehashing, Finding
<1>4. CallFits'
  BY DEF MapInv, CallFits, Begin, StartOnEmpty, StartWithGrow, Return
<1> QED BY <1>1, <1>2, <1>3, <1>4, TablesKept DEF MapInv, PassedOver

(* clear() leaves an empty map.                                            *)
LEMMA ClearMap ==
  ASSUME MapInv, Clear
  PROVE  MapInv'
<1>1. TableInv'
  BY ClearStep DEF MapInv
<1>2. /\ pc = "start" /\ pc' = "idle" /\ call' = Idle /\ slots' = <<>> /\ size_' = 0 /\ tombstones_' = 0
      /\ UNCHANGED new_slots
  BY DEF Clear, Return, rehash
<1>3. ~Rehashing /\ ~Rehashing' /\ ~Finding'
  BY <1>2 DEF Rehashing, Finding
<1>4. new_slots = <<>>
  BY <1>3 DEF MapInv, MovedExactly
<1>5. Sound(slots)' /\ Sound(new_slots)' /\ Filled(slots)' = {} /\ Tombs(slots)' = {}
  BY <1>2, <1>4, EmptySound DEF Sound, Keyed, Reachable, Filled, Tombs, InState, ProbePath, Home
<1>6. CountsInv'
  BY <1>2, <1>3, <1>5, FS_EmptySet DEF CountsInv
<1>7. MovedExactly' /\ PassedOver' /\ CallFits'
  BY <1>2, <1>3, <1>4 DEF MovedExactly, PassedOver, CallFits
<1> QED BY <1>1, <1>5, <1>6, <1>7 DEF MapInv

(* A probe of the present table begins.                                    *)
LEMMA StartFindMap ==
  ASSUME MapInv, StartWithFind \/ GrowNotNeeded
  PROVE  MapInv'
<1>1. TableInv'
  BY StartFindSteps DEF MapInv
<1>2. /\ pc \in {"start", "grow"} /\ pc' \in {"find", "find_new"}
      /\ pc = "start" => pc' = "find" /\ call.op \in {"get", "contains", "erase", "get_ref"}
      /\ pc = "grow" => pc' = "find_new"
      /\ index' = Home(slots, call.key) /\ tombstone' = 0
      /\ UNCHANGED <<slots, size_, tombstones_, call, new_slots, i>>
  BY DEF StartWithFind, GrowNotNeeded, StartFind, rehash
<1>3. ~Rehashing /\ ~Rehashing' /\ Finding'
  BY <1>2 DEF Rehashing, Finding
<1>4. call \in Call /\ call.op \in {"get", "contains", "erase", "get_ref", "insert"}
  BY <1>2 DEF MapInv, CallFits
<1>5. call.key \in Keys /\ call.key \in AllKeys
  BY <1>4, KeyOfCall DEF AllKeys
<1>6. CallFits'
  BY <1>2, <1>4 DEF MapInv, CallFits
<1>7. PassedOver'
  <2>1. slots \in Seq(Slot) /\ Len(slots) > 0
    <3>1. slots' \in Seq(Slot) /\ index' \in 1..Len(slots')
      BY <1>1, <1>2, <1>3 DEF TableInv, TypeOK, ProbedTable
    <3> QED BY <1>2, <3>1
  <2>2. ProbePath(slots, call.key, Home(slots, call.key)) = {}
    BY <1>5, <2>1, PathFromHome
  <2>3. ProbedTable' = slots /\ ProbedKey' = call.key
    BY <1>2 DEF ProbedTable, ProbedKey
  <2>4. ProbePath(ProbedTable, ProbedKey, index)' = {}
    BY <1>2, <2>2, <2>3 DEF ProbePath, Home
  <2> QED BY <1>2, <1>5, <2>3, <2>4 DEF PassedOver
<1> QED BY <1>1, <1>2, <1>3, <1>6, <1>7, TablesKept DEF MapInv

(* grow() starts with nothing moved.                                       *)
LEMMA GrowBeginMap ==
  ASSUME MapInv, GrowBegin
  PROVE  MapInv'
<1>1. TableInv'
  BY GrowBeginStep DEF MapInv
<1>2. /\ pc = "grow" /\ pc' = "rehash" /\ i' = 1
      /\ new_slots' = [j \in 1..NewCapacity(Len(slots)) |-> EmptySlot]
      /\ UNCHANGED <<slots, size_, tombstones_, call>>
  BY DEF GrowBegin
<1>3. /\ slots \in Seq(Slot) /\ NewCapacity(Len(slots)) \in Nat
  BY GrowthMakesRoom DEF MapInv, TableInv, TypeOK, CountersBounded
<1>4. PICK t : t = new_slots'
  OBVIOUS
<1>5. t \in Seq(Slot) /\ Filled(t) = {} /\ Sound(t)
  BY <1>2, <1>3, <1>4, FreshSound
<1>6. Sound(new_slots)' /\ Filled(new_slots)' = {}
  BY <1>4, <1>5 DEF Sound, Keyed, Reachable, Filled, InState, ProbePath, Home
<1>7. Sound(slots)'
  BY <1>2 DEF MapInv, Sound, Keyed, Reachable, Filled, InState, ProbePath, Home
<1>8. Unmoved' = Filled(slots) /\ Moved' = {}
  BY <1>2, <1>3 DEF Unmoved, Moved, Filled, InState
<1>9. CountsInv'
  <2>1. size_ \in Nat /\ size_ = Cardinality(Filled(slots)) /\ tombstones_ = Cardinality(Tombs(slots))
    BY DEF MapInv, CountsInv, TableInv, TypeOK
  <2>2. Filled(slots)' = Filled(slots) /\ Tombs(slots)' = Tombs(slots)
    BY <1>2 DEF Filled, Tombs, InState
  <2>3. Cardinality(Filled(new_slots)') = 0 /\ Cardinality(Unmoved') = Cardinality(Filled(slots))
    BY <1>6, <1>8, FS_EmptySet
  <2> QED BY <1>2, <2>1, <2>2, <2>3 DEF CountsInv
<1>10. MovedExactly'
  BY <1>2, <1>6, <1>8 DEF MovedExactly, Rehashing
<1>11. PassedOver' /\ CallFits'
  BY <1>2 DEF MapInv, PassedOver, CallFits, Finding
<1> QED BY <1>1, <1>6, <1>7, <1>9, <1>10, <1>11 DEF MapInv

(* A slot without a key is passed over.                                    *)
LEMMA RehashSkipMap ==
  ASSUME MapInv, RehashSkip
  PROVE  MapInv'
<1>1. TableInv'
  BY RehashSkipStep DEF MapInv
<1>2. /\ pc = "rehash" /\ i <= Len(slots) /\ slots[i].state # "FILLED" /\ i' = i + 1
      /\ UNCHANGED <<slots, size_, tombstones_, pc, call, new_slots>>
  BY DEF RehashSkip
<1>3. i \in 1..(Len(slots) + 1) /\ slots \in Seq(Slot)
  BY <1>2 DEF MapInv, TableInv, RehashBounded, TypeOK
<1>4. Filled(slots)' = Filled(slots) /\ Filled(new_slots)' = Filled(new_slots) /\ Tombs(slots)' = Tombs(slots)
  BY <1>2 DEF Filled, Tombs, InState
<1>5. Unmoved' = Unmoved
  BY <1>2, <1>3 DEF Unmoved, Filled, InState
<1>6. Moved' = Moved
  BY <1>4, <1>5 DEF Moved
<1>7. Sound(slots)' /\ Sound(new_slots)'
  BY <1>2 DEF MapInv, Sound, Keyed, Reachable, Filled, InState, ProbePath, Home
<1>8. CountsInv'
  BY <1>2, <1>4, <1>5 DEF MapInv, CountsInv, Rehashing
<1>9. MovedExactly'
  BY <1>2, <1>4, <1>6 DEF MapInv, MovedExactly, Rehashing
<1>10. PassedOver' /\ CallFits'
  BY <1>2 DEF MapInv, PassedOver, CallFits, Finding
<1> QED BY <1>1, <1>7, <1>8, <1>9, <1>10 DEF MapInv

(* A probe of the new vector begins.                                       *)
LEMMA RehashFindMap ==
  ASSUME MapInv, RehashFind
  PROVE  MapInv'
<1>1. TableInv'
  BY RehashFindStep DEF MapInv
<1>2. /\ pc = "rehash" /\ i <= Len(slots) /\ slots[i].state = "FILLED" /\ pc' = "rehash_find"
      /\ index' = Home(new_slots, slots[i].key) /\ tombstone' = 0
      /\ UNCHANGED <<slots, size_, tombstones_, call, new_slots, i>>
  BY DEF RehashFind, StartFind, rehash
<1>3. i \in 1..Len(slots) /\ new_slots \in Seq(Slot)
  BY <1>2 DEF MapInv, TableInv, RehashBounded, TypeOK
<1>4. /\ Filled(slots)' = Filled(slots) /\ Filled(new_slots)' = Filled(new_slots)
      /\ Tombs(slots)' = Tombs(slots) /\ Unmoved' = Unmoved /\ Moved' = Moved
  BY <1>2 DEF Filled, Tombs, InState, Unmoved, Moved
<1>5. Sound(slots)' /\ Sound(new_slots)'
  BY <1>2 DEF MapInv, Sound, Keyed, Reachable, Filled, InState, ProbePath, Home
<1>6. CountsInv'
  BY <1>2, <1>4 DEF MapInv, CountsInv, Rehashing
<1>7. MovedExactly'
  BY <1>2, <1>4 DEF MapInv, MovedExactly, Rehashing
<1>8. PassedOver'
  <2>1. slots[i].key \in Keys /\ slots[i].key \in AllKeys
    BY <1>2, <1>3 DEF MapInv, Sound, Keyed, AllKeys
  <2>2. Len(new_slots) > 0
    <3>1. index' \in 1..Len(new_slots')
      BY <1>1, <1>2 DEF TableInv, TypeOK, ProbedTable, Finding
    <3> QED BY <1>2, <1>3, <3>1
  <2>3. ProbePath(new_slots, slots[i].key, Home(new_slots, slots[i].key)) = {}
    BY <1>3, <2>1, <2>2, PathFromHome
  <2>4. ProbedTable' = new_slots /\ ProbedKey' = slots[i].key
    BY <1>2 DEF ProbedTable, ProbedKey
  <2>5. ProbePath(ProbedTable, ProbedKey, index)' = {}
    BY <1>2, <2>3, <2>4 DEF ProbePath, Home
  <2> QED BY <1>2, <2>1, <2>4, <2>5 DEF PassedOver
<1>9. CallFits'
  BY <1>2 DEF MapInv, CallFits
<1> QED BY <1>1, <1>5, <1>6, <1>7, <1>8, <1>9 DEF MapInv

(* When the rehash has come to the end, everything has been moved.         *)
LEMMA AllMoved ==
  ASSUME MapInv, pc = "rehash", i > Len(slots)
  PROVE  Unmoved = {} /\ Moved = Filled(slots)
<1>1. slots \in Seq(Slot) /\ i \in Nat
  BY DEF MapInv, TableInv, TypeOK
<1>2. Unmoved = {}
  BY <1>1 DEF Unmoved, Filled, InState
<1> QED BY <1>2 DEF Moved

(* The new vector takes over, with all keys and no tombstones.             *)
LEMMA RehashEndMap ==
  ASSUME MapInv, RehashEnd
  PROVE  MapInv'
<1>1. TableInv'
  BY RehashEndStep DEF MapInv
<1>2. /\ pc = "rehash" /\ i > Len(slots) /\ pc' = "find_new" /\ slots' = new_slots /\ tombstones_' = 0
      /\ new_slots' = <<>>
      /\ index' = Home(new_slots, call.key) /\ tombstone' = 0 /\ UNCHANGED <<size_, call>>
  BY DEF RehashEnd, StartFind
<1>3. new_slots \in Seq(Slot) /\ size_ \in Nat /\ Tombs(new_slots) = {}
  BY <1>2 DEF MapInv, TableInv, TypeOK, RehashBounded
<1>4. Sound(slots)' /\ Sound(new_slots)'
  <2>1. Sound(slots)'
    BY <1>2 DEF MapInv, Sound, Keyed, Reachable, Filled, InState, ProbePath, Home
  <2>2. Sound(new_slots)'
    BY <1>2, EmptySound DEF Sound, Keyed, Reachable, Filled, InState, ProbePath, Home
  <2> QED BY <2>1, <2>2
<1>5. CountsInv'
  <2>1. Cardinality(Filled(new_slots)) + Cardinality(Unmoved) = size_
    BY <1>2 DEF MapInv, CountsInv, Rehashing
  <2>2. Cardinality(Unmoved) = 0 /\ Cardinality(Tombs(new_slots)) = 0
    BY <1>2, <1>3, AllMoved, FS_EmptySet
  <2>3. Cardinality(Filled(new_slots)) \in Nat
    BY <1>3, InStateFinite DEF Filled
  <2>4. Filled(slots)' = Filled(new_slots) /\ Tombs(slots)' = Tombs(new_slots)
    BY <1>2 DEF Filled, Tombs, InState
  <2>5. Cardinality(Filled(new_slots)) = size_
    BY <2>1, <2>2, <2>3
  <2> QED BY <1>2, <2>2, <2>4, <2>5 DEF CountsInv, Rehashing
<1>6. MovedExactly'
  BY <1>2 DEF MovedExactly, Rehashing
<1>7. call \in Call /\ call.op \in {"insert", "get_ref"}
  BY <1>2 DEF MapInv, CallFits
<1>8. PassedOver'
  <2>1. call.key \in Keys /\ call.key \in AllKeys
    BY <1>7, KeyOfCall DEF AllKeys
  <2>2. Len(new_slots) > 0
    <3>1. index' \in 1..Len(slots')
      BY <1>1, <1>2 DEF TableInv, TypeOK, ProbedTable, Finding
    <3> QED BY <1>2, <1>3, <3>1
  <2>3. ProbePath(new_slots, call.key, Home(new_slots, call.key)) = {}
    BY <1>3, <2>1, <2>2, PathFromHome
  <2>4. ProbedTable' = new_slots /\ ProbedKey' = call.key
    BY <1>2 DEF ProbedTable, ProbedKey
  <2>5. ProbePath(ProbedTable, ProbedKey, index)' = {}
    BY <1>2, <2>3, <2>4 DEF ProbePath, Home
  <2> QED BY <1>2, <2>1, <2>4, <2>5 DEF PassedOver
<1>9. CallFits'
  BY <1>2, <1>7 DEF CallFits
<1> QED BY <1>1, <1>4, <1>5, <1>6, <1>8, <1>9 DEF MapInv

(* A step of the probe passes one more slot.  It never comes back to where *)
(* it began: then the table would have no EMPTY slot.                      *)
LEMMA FindNextMap ==
  ASSUME MapInv, FindNext
  PROVE  MapInv'
<1> DEFINE t == ProbedTable
           k == ProbedKey
<1>1. TableInv'
  BY FindNextStep DEF MapInv
<1>2. /\ Finding /\ t[index].key # k /\ t[index].state # "EMPTY"
      /\ tombstone' = IF t[index].state = "TOMBSTONE" THEN index ELSE tombstone
      /\ index' = After(t, index)
      /\ UNCHANGED <<slots, size_, tombstones_, pc, call, new_slots, i>>
  BY DEF FindNext, KeyMatches, rehash
<1>3. /\ t \in Seq(Slot) /\ k \in Keys /\ k \in AllKeys /\ index \in 1..Len(t)
      /\ \A p \in ProbePath(t, k, index) : t[p].state # "EMPTY" /\ t[p].key # k
      /\ tombstone # 0 => tombstone \in ProbePath(t, k, index)
  BY <1>2, Probing
<1>4. Finding' /\ ProbedTable' = t /\ ProbedKey' = k
  BY <1>2 DEF Finding, ProbedTable, ProbedKey
<1>5. Empties(t) # {}
  BY <1>2, EmptyAhead DEF MapInv
<1>6. ProbePath(t, k, After(t, index)) = ProbePath(t, k, index) \cup {index}
  <2>1. PICK e \in 1..Len(t) : t[e].state = "EMPTY"
    BY <1>5 DEF Empties, InState
  <2> HIDE DEF t, k
  <2>2. 1..Len(t) # ProbePath(t, k, index) \cup {index}
    BY <1>2, <1>3, <2>1
  <2> QED BY <1>3, <2>2, PathStep
<1>7. PassedOver'
  <2>1. ProbePath(ProbedTable, ProbedKey, index)' = ProbePath(t, k, After(t, index))
    BY <1>2, <1>4 DEF ProbePath, Home
  <2> HIDE DEF t, k
  <2>2. \A p \in ProbePath(ProbedTable, ProbedKey, index)' : t[p].state # "EMPTY" /\ t[p].key # k
    BY <1>2, <1>3, <1>6, <2>1
  <2>3. tombstone' # 0 => tombstone' \in ProbePath(ProbedTable, ProbedKey, index)'
    BY <1>2, <1>3, <1>6, <2>1
  <2> QED BY <1>3, <1>4, <2>2, <2>3 DEF PassedOver
<1>8. Sound(slots)' /\ Sound(new_slots)'
  BY <1>2 DEF MapInv, Sound, Keyed, Reachable, Filled, InState, ProbePath, Home
<1>9. CountsInv'
  BY <1>2 DEF MapInv, CountsInv, Rehashing, Unmoved, Filled, Tombs, InState
<1>10. MovedExactly'
  BY <1>2 DEF MapInv, MovedExactly, Rehashing, Moved, Unmoved, Filled, InState
<1>11. CallFits'
  BY <1>2 DEF MapInv, CallFits
<1> QED BY <1>1, <1>7, <1>8, <1>9, <1>10, <1>11 DEF MapInv

(* A key that is about to be moved has not been moved before, so that the  *)
(* probe ends at an EMPTY slot of the new vector.                          *)
LEMMA NotYetMoved ==
  ASSUME MapInv, pc = "rehash_find", NEW p \in 1..Len(new_slots),
         Located(new_slots, slots[i].key, p)
  PROVE  new_slots[p].state # "FILLED"
<1> SUFFICES ASSUME new_slots[p].state = "FILLED" PROVE FALSE
  OBVIOUS
<1>1. new_slots[p].key = slots[i].key /\ p \in Filled(new_slots)
  BY DEF Located, Filled, InState
<1>2. i \in Filled(slots) /\ i \in Nat
  BY DEF MapInv, TableInv, RehashBounded, TypeOK
<1>3. PICK j \in Moved : new_slots[p] = slots[j]
  BY <1>1 DEF MapInv, MovedExactly, Rehashing
<1>4. j \in Filled(slots) /\ j # i /\ j \in 1..Len(slots)
  BY <1>2, <1>3 DEF Moved, Unmoved, Filled, InState
<1> QED BY <1>1, <1>2, <1>3, <1>4 DEF MapInv, Sound, Reachable

(* The rehash moves one key.                                               *)
LEMMA RehashPlaceMap ==
  ASSUME MapInv, pc = "rehash_find", NEW p \in 1..Len(new_slots), RehashPlace(p), EndFind,
         Located(new_slots, slots[i].key, p)
  PROVE  MapInv'
<1>1. TableInv'
  BY RehashPlaceStep DEF MapInv
<1>2. /\ pc' = "rehash" /\ i' = i + 1 /\ new_slots' = [new_slots EXCEPT ![p] = slots[i]]
      /\ UNCHANGED <<slots, size_, tombstones_, call>>
  BY DEF RehashPlace
<1>3. /\ slots \in Seq(Slot) /\ new_slots \in Seq(Slot) /\ size_ \in Nat
      /\ i \in Filled(slots) /\ i \in 1..Len(slots)
  BY DEF MapInv, TableInv, RehashBounded, TypeOK, Filled, InState
<1>4. slots[i] \in Slot /\ slots[i].state = "FILLED" /\ slots[i].key \in Keys
  BY <1>3 DEF MapInv, Sound, Keyed, Filled, InState
<1>5. PICK t, u, s : t = new_slots /\ u = new_slots' /\ s = slots[i]
  OBVIOUS
<1>6. Written(u, t, p, s)
  <2>1. t \in Seq(Slot) /\ p \in 1..Len(t) /\ s \in Slot
    BY <1>3, <1>4, <1>5
  <2>2. u = [t EXCEPT ![p] = s]
    BY <1>2, <1>5
  <2> QED BY <2>1, <2>2, Writing, Zenon
<1>7. Sound(u)
  BY <1>3, <1>4, <1>5, <1>6, PutSound DEF MapInv
<1>8. t[p].state # "FILLED" /\ p \notin Filled(t)
  BY <1>5, NotYetMoved DEF Filled, InState
<1>9. /\ Len(u) = Len(t) /\ Filled(u) = Filled(t) \cup {p} /\ u[p] = s
      /\ \A q \in Filled(t) : u[q] = t[q]
  BY <1>4, <1>5, <1>6, <1>8 DEF Written, Filled, InState
<1>10. Sound(slots)' /\ Sound(new_slots)'
  BY <1>2, <1>5, <1>7 DEF MapInv, Sound, Keyed, Reachable, Filled, InState, ProbePath, Home
<1>11. /\ Filled(slots)' = Filled(slots) /\ Tombs(slots)' = Tombs(slots)
       /\ Filled(new_slots)' = Filled(u)
  BY <1>2, <1>5 DEF Filled, Tombs, InState
<1>12. i \in Unmoved /\ Unmoved' = Unmoved \ {i} /\ Moved' = Moved \cup {i}
  <2>1. i \in Unmoved
    BY <1>3 DEF Unmoved
  <2>2. Unmoved' = Unmoved \ {i}
    BY <1>2, <1>3 DEF Unmoved, Filled, InState
  <2> QED BY <1>3, <1>11, <2>1, <2>2 DEF Moved
<1>13. CountsInv'
  <2>1. IsFiniteSet(Filled(t)) /\ Cardinality(Filled(t)) \in Nat
    BY <1>3, <1>5, InStateFinite DEF Filled
  <2>2. IsFiniteSet(Unmoved) /\ Cardinality(Unmoved) \in Nat
    BY <1>3, InStateFinite, FS_Subset, FS_CardinalityType DEF Unmoved, Filled
  <2>3. Cardinality(Filled(u)) = Cardinality(Filled(t)) + 1
    BY <1>8, <1>9, <2>1, FS_AddElement
  <2>4. Cardinality(Unmoved') = Cardinality(Unmoved) - 1
    BY <1>12, <2>2, FS_RemoveElement
  <2>5. Cardinality(Filled(t)) + Cardinality(Unmoved) = size_
    BY <1>5 DEF MapInv, CountsInv, Rehashing
  <2>6. Cardinality(Filled(u)) + Cardinality(Unmoved') = size_
    BY <2>1, <2>2, <2>3, <2>4, <2>5
  <2> QED BY <1>2, <1>11, <2>6 DEF MapInv, CountsInv
<1>14. MovedExactly'
  <2>1. /\ \A q \in Filled(t) : \E j \in Moved : t[q] = slots[j]
        /\ \A j \in Moved : \E q \in Filled(t) : t[q] = slots[j]
    BY <1>5 DEF MapInv, MovedExactly, Rehashing
  <2>2. ASSUME NEW q \in Filled(u) PROVE \E j \in Moved' : u[q] = slots[j]
    BY <1>5, <1>9, <1>12, <2>1
  <2>3. ASSUME NEW j \in Moved' PROVE \E q \in Filled(u) : u[q] = slots[j]
    BY <1>5, <1>9, <1>12, <2>1
  <2>4. (\A q \in Filled(new_slots) : \E j \in Moved : new_slots[q] = slots[j])'
    BY <1>2, <1>5, <1>11, <2>2
  <2>5. (\A j \in Moved : \E q \in Filled(new_slots) : new_slots[q] = slots[j])'
    BY <1>2, <1>5, <1>11, <2>3
  <2> QED BY <1>2, <2>4, <2>5 DEF MovedExactly, Rehashing
<1>15. PassedOver' /\ CallFits'
  BY <1>2 DEF MapInv, PassedOver, CallFits, Finding
<1> QED BY <1>1, <1>10, <1>13, <1>14, <1>15 DEF MapInv

(* The exact counts after a write.                                         *)
LEMMA CountsAfter ==
  ASSUME NEW t \in Seq(Slot), NEW p \in 1..Len(t), NEW s \in Slot, NEW u, Written(u, t, p, s)
  PROVE  /\ Cardinality(Filled(t)) \in Nat /\ Cardinality(Tombs(t)) \in Nat
         /\ s.state = "FILLED" =>
              Cardinality(Filled(u)) = IF t[p].state = "FILLED" THEN Cardinality(Filled(t))
                                                               ELSE Cardinality(Filled(t)) + 1
         /\ s.state = "FILLED" =>
              Cardinality(Tombs(u)) = IF t[p].state = "TOMBSTONE" THEN Cardinality(Tombs(t)) - 1
                                                                 ELSE Cardinality(Tombs(t))
         /\ s.state = "TOMBSTONE" /\ t[p].state = "FILLED" =>
              /\ Cardinality(Filled(u)) = Cardinality(Filled(t)) - 1
              /\ Cardinality(Tombs(u)) = Cardinality(Tombs(t)) + 1
<1>1. /\ IsFiniteSet(Filled(t)) /\ Cardinality(Filled(t)) \in Nat
      /\ IsFiniteSet(Tombs(t)) /\ Cardinality(Tombs(t)) \in Nat
  BY InStateFinite DEF Filled, Tombs
<1>2. /\ p \in Filled(t) <=> t[p].state = "FILLED"
      /\ p \in Tombs(t) <=> t[p].state = "TOMBSTONE"
  BY DEF Filled, Tombs, InState
<1>3. /\ Cardinality(Filled(t) \cup {p}) = IF p \in Filled(t) THEN Cardinality(Filled(t))
                                                            ELSE Cardinality(Filled(t)) + 1
      /\ Cardinality(Filled(t) \ {p}) = IF p \in Filled(t) THEN Cardinality(Filled(t)) - 1
                                                         ELSE Cardinality(Filled(t))
      /\ Cardinality(Tombs(t) \cup {p}) = IF p \in Tombs(t) THEN Cardinality(Tombs(t))
                                                          ELSE Cardinality(Tombs(t)) + 1
      /\ Cardinality(Tombs(t) \ {p}) = IF p \in Tombs(t) THEN Cardinality(Tombs(t)) - 1
                                                       ELSE Cardinality(Tombs(t))
  BY <1>1, FS_AddElement, FS_RemoveElement
<1>4. /\ s.state = "FILLED" => Filled(u) = Filled(t) \cup {p}
      /\ s.state # "FILLED" => Filled(u) = Filled(t) \ {p}
  BY DEF Written
<1>5. /\ s.state = "TOMBSTONE" => Tombs(u) = Tombs(t) \cup {p}
      /\ s.state # "TOMBSTONE" => Tombs(u) = Tombs(t) \ {p}
  BY DEF Written, Tombs, InState
<1> QED BY <1>1, <1>2, <1>3, <1>4, <1>5

(* insert() and insert_slot() write the key and the value of the call,     *)
(* whether the key was there before or not.                                *)
LEMMA InsertWrites ==
  ASSUME MapInv, pc = "find_new", NEW p \in 1..Len(slots), InsertAt(p), Located(slots, call.key, p)
  PROVE  \E s \in Slot : /\ s.state = "FILLED" /\ s.key = call.key /\ s.value = call.value
                         /\ s.key \in Keys
                         /\ slots' = [slots EXCEPT ![p] = s]
<1> DEFINE s == IF slots[p].state = "FILLED" THEN [slots[p] EXCEPT !.value = call.value]
                                             ELSE FilledSlot(call.key, call.value)
<1>1. slots' = [slots EXCEPT ![p] = s]
  BY DEF InsertAt
<1>2. call \in Call /\ call.op \in {"insert", "get_ref"} /\ slots \in Seq(Slot)
  BY DEF MapInv, CallFits, TableInv, TypeOK
<1>3. call.key \in Keys /\ call.key \in AllKeys /\ call.value \in AllVals
  BY <1>2, KeyOfCall DEF AllKeys, AllVals
<1>4. slots[p] \in Slot
  BY <1>2
<1>5. s \in Slot /\ s.state = "FILLED" /\ s.value = call.value
  BY <1>3, <1>4, SlotsMade DEF Slot, FilledSlot
<1>6. s.key = call.key
  BY <1>4 DEF Located, Slot, FilledSlot
<1> HIDE DEF s
<1> QED BY <1>1, <1>3, <1>5, <1>6

(* The end of an insertion.                                                *)
LEMMA InsertMap ==
  ASSUME MapInv, pc = "find_new", NEW p \in 1..Len(slots), InsertAt(p), EndFind, UNCHANGED rehash,
         Located(slots, call.key, p)
  PROVE  MapInv'
<1>1. TableInv'
  BY InsertStep DEF MapInv
<1>2. /\ size_' = IF slots[p].state = "FILLED" THEN size_ ELSE size_ + 1
      /\ tombstones_' = IF slots[p].state = "TOMBSTONE" THEN tombstones_ - 1 ELSE tombstones_
      /\ pc' = "idle" /\ call' = Idle /\ UNCHANGED new_slots
  BY DEF InsertAt, Return, rehash
<1>3. slots \in Seq(Slot) /\ size_ = Cardinality(Filled(slots)) /\ tombstones_ = Cardinality(Tombs(slots))
  BY DEF MapInv, CountsInv, TableInv, TypeOK
<1>4. ~Rehashing /\ ~Rehashing' /\ ~Finding'
  BY <1>2 DEF Rehashing, Finding
<1>5. PICK s \in Slot : /\ s.state = "FILLED" /\ s.key = call.key /\ s.key \in Keys
                        /\ slots' = [slots EXCEPT ![p] = s]
  BY InsertWrites
<1>6. PICK t, u : t = slots /\ u = slots'
  OBVIOUS
<1>7. t \in Seq(Slot) /\ p \in 1..Len(t) /\ u = [t EXCEPT ![p] = s]
  BY <1>3, <1>5, <1>6
<1>8. Written(u, t, p, s)
  BY <1>7, Writing, Zenon
<1>9. Sound(u)
  BY <1>5, <1>6, <1>7, <1>8, PutSound DEF MapInv
<1>10. Sound(slots)' /\ Sound(new_slots)'
  BY <1>2, <1>6, <1>9 DEF MapInv, Sound, Keyed, Reachable, Filled, InState, ProbePath, Home
<1>11. CountsInv'
  <2>1. /\ Cardinality(Filled(u)) = IF t[p].state = "FILLED" THEN Cardinality(Filled(t))
                                                           ELSE Cardinality(Filled(t)) + 1
        /\ Cardinality(Tombs(u)) = IF t[p].state = "TOMBSTONE" THEN Cardinality(Tombs(t)) - 1
                                                             ELSE Cardinality(Tombs(t))
    BY <1>5, <1>7, <1>8, CountsAfter
  <2>2. size_' = Cardinality(Filled(u)) /\ tombstones_' = Cardinality(Tombs(u))
    BY <1>2, <1>3, <1>6, <2>1
  <2>3. Filled(slots)' = Filled(u) /\ Tombs(slots)' = Tombs(u)
    BY <1>6 DEF Filled, Tombs, InState
  <2> QED BY <1>4, <2>2, <2>3 DEF CountsInv
<1>12. MovedExactly' /\ PassedOver' /\ CallFits'
  BY <1>2, <1>4 DEF MapInv, MovedExactly, PassedOver, CallFits
<1> QED BY <1>1, <1>10, <1>11, <1>12 DEF MapInv

(* erase() of a key that is there.                                         *)
LEMMA EraseMap ==
  ASSUME MapInv, pc = "find", NEW p \in 1..Len(slots), EraseAt(p), EndFind, UNCHANGED rehash,
         slots[p].state = "FILLED"
  PROVE  MapInv'
<1>1. TableInv'
  BY LookupStep DEF MapInv
<1>2. /\ slots' = [slots EXCEPT ![p] = TombSlot]
      /\ tombstones_' = tombstones_ + 1 /\ size_' = size_ - 1
      /\ pc' = "idle" /\ call' = Idle /\ UNCHANGED new_slots
  BY DEF EraseAt, Return, rehash
<1>3. slots \in Seq(Slot) /\ size_ = Cardinality(Filled(slots)) /\ tombstones_ = Cardinality(Tombs(slots))
  BY DEF MapInv, CountsInv, TableInv, TypeOK
<1>4. ~Rehashing /\ ~Rehashing' /\ ~Finding'
  BY <1>2 DEF Rehashing, Finding
<1>5. TombSlot \in Slot /\ TombSlot.state = "TOMBSTONE"
  BY SlotsMade
<1>6. PICK t, u : t = slots /\ u = slots'
  OBVIOUS
<1>7. t \in Seq(Slot) /\ p \in 1..Len(t) /\ u = [t EXCEPT ![p] = TombSlot]
  BY <1>2, <1>3, <1>6
<1>8. Written(u, t, p, TombSlot)
  BY <1>5, <1>7, Writing, Zenon
<1>9. Sound(u)
  BY <1>6, <1>7, <1>8, TombSound DEF MapInv
<1>10. Sound(slots)' /\ Sound(new_slots)'
  BY <1>2, <1>6, <1>9 DEF MapInv, Sound, Keyed, Reachable, Filled, InState, ProbePath, Home
<1>11. CountsInv'
  <2>1. /\ Cardinality(Filled(u)) = Cardinality(Filled(t)) - 1
        /\ Cardinality(Tombs(u)) = Cardinality(Tombs(t)) + 1
    BY <1>5, <1>6, <1>7, <1>8, CountsAfter
  <2>2. size_' = Cardinality(Filled(u)) /\ tombstones_' = Cardinality(Tombs(u))
    BY <1>2, <1>3, <1>6, <2>1
  <2>3. Filled(slots)' = Filled(u) /\ Tombs(slots)' = Tombs(u)
    BY <1>6 DEF Filled, Tombs, InState
  <2> QED BY <1>4, <2>2, <2>3 DEF CountsInv
<1>12. MovedExactly' /\ PassedOver' /\ CallFits'
  BY <1>2, <1>4 DEF MapInv, MovedExactly, PassedOver, CallFits
<1> QED BY <1>1, <1>10, <1>11, <1>12 DEF MapInv

(* get_ref() of a key that is there writes the value and keeps the key.    *)
LEMMA GetRefWrites ==
  ASSUME MapInv, pc = "find", NEW p \in 1..Len(slots), GetRefAt(p), slots[p].state = "FILLED",
         Located(slots, call.key, p)
  PROVE  \E s \in Slot : /\ s.state = "FILLED" /\ s.key = call.key /\ s.value = call.value
                         /\ s.key \in Keys
                         /\ slots' = [slots EXCEPT ![p] = s]
<1> DEFINE s == [slots[p] EXCEPT !.value = call.value]
<1>1. slots' = [slots EXCEPT ![p] = s]
  BY DEF GetRefAt
<1>2. call \in Call /\ call.op = "get_ref" /\ slots \in Seq(Slot)
  BY DEF MapInv, CallFits, TableInv, TypeOK, GetRefAt
<1>3. call.key \in Keys /\ call.value \in AllVals
  BY <1>2, KeyOfCall DEF AllVals
<1>4. slots[p] \in Slot /\ slots[p].key = call.key
  BY <1>2 DEF Located
<1>5. s \in Slot /\ s.state = "FILLED" /\ s.value = call.value /\ s.key = call.key
  BY <1>3, <1>4 DEF Slot
<1> HIDE DEF s
<1> QED BY <1>1, <1>3, <1>5

(* The end of that call.                                                   *)
LEMMA GetRefMap ==
  ASSUME MapInv, pc = "find", NEW p \in 1..Len(slots), GetRefAt(p), EndFind, UNCHANGED rehash,
         slots[p].state = "FILLED", Located(slots, call.key, p)
  PROVE  MapInv'
<1>1. TableInv'
  BY LookupStep DEF MapInv
<1>2. pc' = "idle" /\ call' = Idle /\ UNCHANGED <<new_slots, size_, tombstones_>>
  BY DEF GetRefAt, Return, rehash
<1>3. slots \in Seq(Slot) /\ size_ = Cardinality(Filled(slots)) /\ tombstones_ = Cardinality(Tombs(slots))
  BY DEF MapInv, CountsInv, TableInv, TypeOK
<1>4. ~Rehashing /\ ~Rehashing' /\ ~Finding'
  BY <1>2 DEF Rehashing, Finding
<1>5. PICK s \in Slot : /\ s.state = "FILLED" /\ s.key = call.key /\ s.key \in Keys
                        /\ slots' = [slots EXCEPT ![p] = s]
  BY GetRefWrites
<1>6. PICK t, u : t = slots /\ u = slots'
  OBVIOUS
<1>7. t \in Seq(Slot) /\ p \in 1..Len(t) /\ u = [t EXCEPT ![p] = s] /\ t[p].state = "FILLED"
  BY <1>3, <1>5, <1>6
<1>8. Written(u, t, p, s)
  BY <1>7, Writing, Zenon
<1>9. Sound(u)
  BY <1>5, <1>6, <1>7, <1>8, PutSound DEF MapInv
<1>10. Sound(slots)' /\ Sound(new_slots)'
  BY <1>2, <1>6, <1>9 DEF MapInv, Sound, Keyed, Reachable, Filled, InState, ProbePath, Home
<1>11. CountsInv'
  <2>1. /\ Cardinality(Filled(u)) = IF t[p].state = "FILLED" THEN Cardinality(Filled(t))
                                                           ELSE Cardinality(Filled(t)) + 1
        /\ Cardinality(Tombs(u)) = IF t[p].state = "TOMBSTONE" THEN Cardinality(Tombs(t)) - 1
                                                             ELSE Cardinality(Tombs(t))
    BY <1>5, <1>7, <1>8, CountsAfter
  <2>2. size_' = Cardinality(Filled(u)) /\ tombstones_' = Cardinality(Tombs(u))
    BY <1>2, <1>3, <1>6, <1>7, <2>1
  <2>3. Filled(slots)' = Filled(u) /\ Tombs(slots)' = Tombs(u)
    BY <1>6 DEF Filled, Tombs, InState
  <2> QED BY <1>4, <2>2, <2>3 DEF CountsInv
<1>12. MovedExactly' /\ PassedOver' /\ CallFits'
  BY <1>2, <1>4 DEF MapInv, MovedExactly, PassedOver, CallFits
<1> QED BY <1>1, <1>10, <1>11, <1>12 DEF MapInv

(* find_slot() returns to the code that called it.                         *)
LEMMA FoundMap ==
  ASSUME MapInv, Finding, NEW p \in 1..Len(ProbedTable), FoundAt(p),
         Located(ProbedTable, ProbedKey, p)
  PROVE  MapInv'
<1>1. CASE pc = "rehash_find"
  <2>1. /\ RehashPlace(p) /\ EndFind /\ p \in 1..Len(new_slots)
        /\ Located(new_slots, slots[i].key, p)
    BY <1>1 DEF FoundAt, ProbedTable, ProbedKey
  <2> QED BY <1>1, <2>1, RehashPlaceMap
<1>2. CASE pc = "find_new"
  <2>1. /\ InsertAt(p) /\ EndFind /\ UNCHANGED rehash /\ p \in 1..Len(slots)
        /\ Located(slots, call.key, p)
    BY <1>2 DEF FoundAt, ProbedTable, ProbedKey
  <2> QED BY <1>2, <2>1, InsertMap
<1>3. CASE pc = "find"
  <2>1. /\ GetAt(p) \/ ContainsAt(p) \/ EraseAt(p) \/ GetRefAt(p)
        /\ EndFind /\ UNCHANGED rehash /\ p \in 1..Len(slots)
        /\ Located(slots, call.key, p)
    BY <1>3 DEF FoundAt, ProbedTable, ProbedKey
  <2>2. CASE EraseAt(p) /\ slots[p].state = "FILLED"
    BY <1>3, <2>1, <2>2, EraseMap
  <2>3. CASE GetRefAt(p) /\ slots[p].state = "FILLED"
    BY <1>3, <2>1, <2>3, GetRefMap
  <2>4. CASE UNCHANGED <<slots, size_, tombstones_>>
    <3>1. TableInv'
      BY <1>3, <2>1, LookupStep DEF MapInv
    <3>2. /\ \/ pc' = "idle" /\ call' = Idle
             \/ pc' = "grow" /\ call.op = "get_ref" /\ call' = call
          /\ UNCHANGED new_slots
      BY <2>1 DEF GetAt, ContainsAt, EraseAt, GetRefAt, Return, rehash
    <3>3. ~Rehashing /\ ~Rehashing' /\ ~Finding'
      BY <1>3, <3>2 DEF Rehashing, Finding
    <3>4. CallFits'
      BY <1>3, <3>2 DEF MapInv, CallFits
    <3> QED BY <2>4, <3>1, <3>2, <3>3, <3>4, TablesKept DEF MapInv, PassedOver
  <2> QED BY <2>1, <2>2, <2>3, <2>4 DEF GetAt, ContainsAt, EraseAt, GetRefAt
<1> QED BY <1>1, <1>2, <1>3 DEF Finding

(* Every step keeps the invariant.                                         *)
LEMMA NextMap ==
  ASSUME NoKey \notin Keys, MapInv, [Next]_vars
  PROVE  MapInv'
<1>1. CASE (\E c \in Call : Begin(c)) \/ StartOnEmpty \/ StartWithGrow
  BY <1>1, QuietMap
<1>2. CASE Clear
  BY <1>2, ClearMap
<1>3. CASE StartWithFind \/ GrowNotNeeded
  BY <1>3, StartFindMap
<1>4. CASE GrowBegin
  BY <1>4, GrowBeginMap
<1>5. CASE RehashSkip
  BY <1>5, RehashSkipMap
<1>6. CASE RehashFind
  BY <1>6, RehashFindMap
<1>7. CASE RehashEnd
  BY <1>7, RehashEndMap
<1>8. CASE FindMatch \/ FindEmpty
  <2>1. PICK p \in 1..Len(ProbedTable) : FoundAt(p) /\ Located(ProbedTable, ProbedKey, p)
    BY <1>8, FindLocates
  <2>2. Finding
    BY <1>8, FindLocates
  <2> QED BY <2>1, <2>2, FoundMap
<1>9. CASE FindNext
  BY <1>9, FindNextMap
<1>10. CASE UNCHANGED vars
  <2>1. UNCHANGED <<slots, size_, tombstones_, pc, call, new_slots, i, index, tombstone>>
    BY <1>10 DEF vars
  <2>2. TableInv'
    BY <2>1 DEF MapInv, TableInv, TypeOK, CountersBounded, RehashBounded, TombstoneRemembered,
                Finding, ProbedTable, Filled, Tombs, InState, Limit, NewCapacity, Unmoved
  <2>3. Sound(slots)' /\ Sound(new_slots)'
    BY <2>1 DEF MapInv, Sound, Keyed, Reachable, Filled, InState, ProbePath, Home
  <2>4. CountsInv'
    BY <2>1 DEF MapInv, CountsInv, Rehashing, Unmoved, Filled, Tombs, InState
  <2>5. MovedExactly'
    BY <2>1 DEF MapInv, MovedExactly, Rehashing, Moved, Unmoved, Filled, InState
  <2>6. PassedOver'
    BY <2>1 DEF MapInv, PassedOver, Finding, ProbedTable, ProbedKey, ProbePath, Home
  <2>7. CallFits'
    BY <2>1 DEF MapInv, CallFits
  <2> QED BY <2>2, <2>3, <2>4, <2>5, <2>6, <2>7 DEF MapInv
<1> QED BY <1>1, <1>2, <1>3, <1>4, <1>5, <1>6, <1>7, <1>8, <1>9, <1>10 DEF Next, Step

-----------------------------------------------------------------------------
(* The theorems *)

(* Whatever calls are made, in whatever order, the table keeps the         *)
(* invariant of a finite map.                                              *)
THEOREM MapInvariant ==
  ASSUME NoKey \notin Keys
  PROVE  Spec => []MapInv
<1>1. Init => MapInv
  BY InitMapInv
<1>2. MapInv /\ [Next]_vars => MapInv'
  BY NextMap
<1> QED BY <1>1, <1>2, PTL DEF Spec

(* size_ and tombstones_ count the FILLED and the TOMBSTONE slots exactly, *)
(* after every insertion, erasure, reuse of a tombstone and rehash.        *)
THEOREM Counted ==
  ASSUME NoKey \notin Keys
  PROVE  Spec => []CountsExact
<1>1. MapInv => CountsExact
  BY DEF MapInv, CountsInv, CountsExact
<1> QED BY <1>1, MapInvariant, PTL

(* A key that has been stored is found again, by its one slot, in the old  *)
(* vector and in the one it is being moved to.                             *)
THEOREM StoredIsFound ==
  ASSUME NoKey \notin Keys
  PROVE  Spec => []KeysReachable
<1>1. MapInv => KeysReachable
  BY DEF MapInv, Sound, KeysReachable
<1> QED BY <1>1, MapInvariant, PTL

-----------------------------------------------------------------------------
(* The refinement: each call does what the operation of FiniteMap does.    *)

(* A table without FILLED slots is the empty map.                          *)
LEMMA StoredNone ==
  ASSUME NEW t, Filled(t) = {}
  PROVE  Stored(t) = <<>>
BY DEF Stored

(* The names of FiniteMap, in terms of the table.                          *)
LEMMA AbstractNames == Abstract!NoCall = Idle /\ Abstract!Calls = Call
BY DEF Abstract!NoCall, Abstract!Calls, Idle, Call

(* The key is in the map exactly when find_slot() ended at its slot.       *)
LEMMA HasKey ==
  ASSUME NEW t \in Seq(Slot), Reachable(t), NEW k, NEW p \in 1..Len(t), Located(t, k, p)
  PROVE  /\ t[p].state = "FILLED" => k \in DOMAIN Stored(t) /\ Stored(t)[k] = t[p].value
         /\ t[p].state # "FILLED" => k \notin DOMAIN Stored(t)
<1>1. CASE t[p].state = "FILLED"
  <2>1. p \in Filled(t) /\ t[p].key = k
    BY <1>1 DEF Located, Filled, InState
  <2> QED BY <1>1, <2>1, StoredIs
<1>2. CASE t[p].state # "FILLED"
  <2>1. \A q \in Filled(t) : t[q].key # k
    BY <1>2 DEF Located
  <2>2. DOMAIN Stored(t) = {t[q].key : q \in Filled(t)}
    BY StoredIs
  <2> QED BY <1>2, <2>1, <2>2
<1> QED BY <1>1, <1>2

(* Taking away a key that is not there changes nothing.                    *)
LEMMA WithoutNone ==
  ASSUME NEW k, k \notin DOMAIN Contents
  PROVE  Abstract!Without(k) = Contents
<1>1. Contents = [j \in DOMAIN Contents |-> Contents[j]]
  BY DEF Contents, Stored
<1>2. DOMAIN Contents \ {k} = DOMAIN Contents
  OBVIOUS
<1> QED BY <1>1, <1>2 DEF Abstract!Without

(* A call begins.                                                          *)
LEMMA BeginRefines ==
  ASSUME MapInv, NEW c \in Call, Begin(c)
  PROVE  Abstract!Begin
<1>1. call = Idle /\ call' = c /\ UNCHANGED <<slots, ret>>
  BY DEF MapInv, CallFits, Begin
<1>2. Contents' = Contents
  BY <1>1 DEF Contents, Stored, Filled, InState
<1> QED BY <1>1, <1>2, AbstractNames DEF Abstract!Begin

(* clear() *)
LEMMA ClearRefines ==
  ASSUME Clear
  PROVE  Abstract!Clear /\ call' = Idle
<1>1. call.op = "clear" /\ slots' = <<>> /\ ret' = TRUE /\ call' = Idle
  BY DEF Clear, Return
<1>2. PICK u : u = slots'
  OBVIOUS
<1>3. Stored(u) = <<>>
  BY <1>1, <1>2, EmptySound, StoredNone
<1>4. Contents' = Stored(u)
  BY <1>2 DEF Contents, Stored, Filled, InState
<1> QED BY <1>1, <1>3, <1>4 DEF Abstract!Clear

(* get(), contains() and erase() on a table that counts no keys.           *)
LEMMA StartOnEmptyRefines ==
  ASSUME MapInv, StartOnEmpty
  PROVE  (Abstract!Get \/ Abstract!Contains \/ Abstract!Erase) /\ call' = Idle
<1>1. /\ size_ = 0 /\ call.op \in {"get", "contains", "erase"} /\ call' = Idle /\ UNCHANGED slots
      /\ ret' = IF call.op = "get" THEN NoResult ELSE FALSE
  BY DEF StartOnEmpty, Return
<1>2. slots \in Seq(Slot) /\ Cardinality(Filled(slots)) = 0
  BY <1>1 DEF MapInv, CountsInv, TableInv, TypeOK
<1>3. Filled(slots) = {}
  BY <1>2, InStateFinite, FS_EmptySet DEF Filled
<1>4. DOMAIN Contents = {}
  BY <1>3 DEF Contents, Stored
<1>5. Contents' = Contents
  BY <1>1 DEF Contents, Stored, Filled, InState
<1>6. /\ Abstract!Has(call.key) <=> FALSE
      /\ Abstract!Without(call.key) = Contents
  BY <1>4, WithoutNone DEF Abstract!Has
<1>7. CASE call.op = "get"
  BY <1>1, <1>5, <1>6, <1>7 DEF Abstract!Get
<1>8. CASE call.op = "contains"
  <2>1. ret' = FALSE
    BY <1>1, <1>8
  <2>2. FALSE = Abstract!Has(call.key)
    BY <1>6 DEF Abstract!Has
  <2>3. ret' = Abstract!Has(call.key)
    BY <2>1, <2>2
  <2> QED BY <1>1, <1>5, <1>8, <2>3 DEF Abstract!Contains
<1>9. CASE call.op = "erase"
  <2>1. ret' = FALSE
    BY <1>1, <1>9
  <2>2. FALSE = Abstract!Has(call.key)
    BY <1>6 DEF Abstract!Has
  <2>3. ret' = Abstract!Has(call.key)
    BY <2>1, <2>2
  <2> QED BY <1>1, <1>5, <1>6, <1>9, <2>3 DEF Abstract!Erase
<1> QED BY <1>1, <1>7, <1>8, <1>9

(* The contents after a key has been put where find_slot() ended.          *)
LEMMA ContentsPut ==
  ASSUME MapInv, NEW p \in 1..Len(slots), Located(slots, call.key, p), NEW s \in Slot,
         s.state = "FILLED", s.key = call.key, s.value = call.value, s.key \in Keys,
         slots' = [slots EXCEPT ![p] = s]
  PROVE  Contents' = Abstract!With(call.key, call.value)
<1>1. slots \in Seq(Slot) /\ Sound(slots)
  BY DEF MapInv, TableInv, TypeOK
<1>2. PICK t, u : t = slots /\ u = slots'
  OBVIOUS
<1>3. /\ t \in Seq(Slot) /\ Sound(t) /\ p \in 1..Len(t) /\ Located(t, s.key, p)
      /\ u = [t EXCEPT ![p] = s]
  BY <1>1, <1>2
<1>4. Written(u, t, p, s)
  BY <1>3, Writing, Zenon
<1>5. Stored(u) = [k \in DOMAIN Stored(t) \cup {s.key} |-> IF k = s.key THEN s.value ELSE Stored(t)[k]]
  BY <1>3, <1>4, StoredPut, ZenonT(40)
<1>6. Contents' = Stored(u) /\ Contents = Stored(t)
  BY <1>2 DEF Contents, Stored, Filled, InState
<1> QED BY <1>5, <1>6 DEF Abstract!With

(* The end of an insertion.                                                *)
LEMMA InsertRefines ==
  ASSUME MapInv, pc = "find_new", NEW p \in 1..Len(slots), InsertAt(p), Located(slots, call.key, p)
  PROVE  Abstract!Put /\ call' = Idle
<1>1. /\ call' = Idle
      /\ ret' = IF call.op = "insert" THEN slots[p].state # "FILLED" ELSE call.value
  BY DEF InsertAt, Return
<1>2. call.op \in {"insert", "get_ref"}
  BY DEF MapInv, CallFits
<1>3. Contents' = Abstract!With(call.key, call.value)
  <2>1. PICK s \in Slot : /\ s.state = "FILLED" /\ s.key = call.key /\ s.value = call.value
                          /\ s.key \in Keys /\ slots' = [slots EXCEPT ![p] = s]
    BY InsertWrites
  <2> QED BY <2>1, ContentsPut
<1>4. Abstract!Has(call.key) <=> slots[p].state = "FILLED"
  <2>1. slots \in Seq(Slot) /\ Reachable(slots)
    BY DEF MapInv, TableInv, TypeOK, Sound
  <2> QED BY <2>1, HasKey DEF Contents, Abstract!Has
<1>5. ret' = IF call.op = "insert" THEN ~Abstract!Has(call.key) ELSE call.value
  <2>1. CASE call.op = "insert"
    <3>1. ret' = (slots[p].state # "FILLED")
      BY <1>1, <2>1
    <3>2. (slots[p].state # "FILLED") = ~Abstract!Has(call.key)
      BY <1>4, Zenon DEF Abstract!Has
    <3> QED BY <2>1, <3>1, <3>2
  <2>2. CASE call.op # "insert"
    BY <1>1, <2>2
  <2> QED BY <2>1, <2>2
<1> QED BY <1>1, <1>2, <1>3, <1>5 DEF Abstract!Put

(* The end of the other calls; get_ref() of a key that is not there goes   *)
(* on, and so far has done nothing.                                        *)
LEMMA LookupRefines ==
  ASSUME MapInv, pc = "find", NEW p \in 1..Len(slots), Located(slots, call.key, p),
         GetAt(p) \/ ContainsAt(p) \/ EraseAt(p) \/ GetRefAt(p)
  PROVE  \/ (Abstract!Get \/ Abstract!Contains \/ Abstract!Erase \/ Abstract!Put) /\ call' = Idle
         \/ UNCHANGED <<Contents, call, ret>>
<1>1. slots \in Seq(Slot) /\ Sound(slots) /\ Reachable(slots)
  BY DEF MapInv, TableInv, TypeOK, Sound
<1>2. /\ slots[p].state = "FILLED" => Abstract!Has(call.key) /\ Contents[call.key] = slots[p].value
      /\ slots[p].state # "FILLED" => ~Abstract!Has(call.key)
  BY <1>1, HasKey DEF Contents, Abstract!Has
<1>3. UNCHANGED slots => Contents' = Contents
  BY DEF Contents, Stored, Filled, InState
<1>4. (slots[p].state = "FILLED") = Abstract!Has(call.key)
  <2>1. Abstract!Has(call.key) <=> slots[p].state = "FILLED"
    BY <1>2
  <2> QED BY <2>1 DEF Abstract!Has
<1>5. CASE GetAt(p)
  BY <1>2, <1>3, <1>5 DEF GetAt, Return, Abstract!Get
<1>6. CASE ContainsAt(p)
  <2>1. /\ call.op = "contains" /\ ret' = (slots[p].state = "FILLED") /\ call' = Idle
        /\ UNCHANGED slots
    BY <1>6 DEF ContainsAt, Return
  <2> QED BY <1>3, <1>4, <2>1 DEF Abstract!Contains
<1>7. CASE EraseAt(p) /\ slots[p].state # "FILLED"
  <2>1. call.op = "erase" /\ ret' = FALSE /\ call' = Idle /\ UNCHANGED slots
    BY <1>7 DEF EraseAt, Return
  <2>2. ret' = Abstract!Has(call.key)
    <3>1. Abstract!Has(call.key) <=> FALSE
      BY <1>2, <1>7
    <3>2. FALSE = Abstract!Has(call.key)
      BY <3>1 DEF Abstract!Has
    <3> QED BY <2>1, <3>2
  <2>3. Abstract!Without(call.key) = Contents
    BY <1>2, <1>7, WithoutNone DEF Abstract!Has
  <2> QED BY <1>3, <2>1, <2>2, <2>3 DEF Abstract!Erase
<1>8. CASE EraseAt(p) /\ slots[p].state = "FILLED"
  <2>1. /\ call.op = "erase" /\ ret' = TRUE /\ call' = Idle
        /\ slots' = [slots EXCEPT ![p] = TombSlot]
    BY <1>8 DEF EraseAt, Return
  <2>2. ret' = Abstract!Has(call.key)
    BY <1>2, <1>8, <2>1, Zenon DEF Abstract!Has
  <2>3. PICK t, u : t = slots /\ u = slots'
    OBVIOUS
  <2>4. /\ t \in Seq(Slot) /\ Sound(t) /\ p \in 1..Len(t) /\ p \in Filled(t)
        /\ t[p].key = call.key /\ u = [t EXCEPT ![p] = TombSlot] /\ TombSlot \in Slot
    BY <1>1, <1>8, <2>1, <2>3, SlotsMade DEF Located, Filled, InState
  <2>5. Written(u, t, p, TombSlot)
    BY <2>4, Writing, Zenon
  <2>6. Stored(u) = [k \in DOMAIN Stored(t) \ {t[p].key} |-> Stored(t)[k]]
    BY <2>4, <2>5, StoredErase
  <2>7. Contents' = Stored(u) /\ Contents = Stored(t)
    BY <2>3 DEF Contents, Stored, Filled, InState
  <2>8. Contents' = Abstract!Without(call.key)
    BY <2>4, <2>6, <2>7 DEF Abstract!Without
  <2> QED BY <2>1, <2>2, <2>8 DEF Abstract!Erase
<1>9. CASE GetRefAt(p) /\ slots[p].state = "FILLED"
  <2>1. call.op = "get_ref" /\ ret' = call.value /\ call' = Idle
    BY <1>9 DEF GetRefAt, Return
  <2>2. PICK s \in Slot : /\ s.state = "FILLED" /\ s.key = call.key /\ s.value = call.value
                          /\ s.key \in Keys /\ slots' = [slots EXCEPT ![p] = s]
    BY <1>9, GetRefWrites
  <2>3. Contents' = Abstract!With(call.key, call.value)
    BY <2>2, ContentsPut
  <2> QED BY <2>1, <2>3 DEF Abstract!Put
<1>10. CASE GetRefAt(p) /\ slots[p].state # "FILLED"
  BY <1>3, <1>10 DEF GetRefAt
<1> QED BY <1>5, <1>6, <1>7, <1>8, <1>9, <1>10

(* The rehash changes the vector and not the map.                          *)
LEMMA RehashEndRefines ==
  ASSUME MapInv, RehashEnd
  PROVE  UNCHANGED <<Contents, call, ret>>
<1>1. pc = "rehash" /\ i > Len(slots) /\ slots' = new_slots /\ UNCHANGED <<call, ret>>
  BY DEF RehashEnd
<1>2. /\ slots \in Seq(Slot) /\ new_slots \in Seq(Slot) /\ Reachable(slots) /\ Reachable(new_slots)
      /\ \A p \in Filled(new_slots) : \E j \in Moved : new_slots[p] = slots[j]
      /\ \A j \in Moved : \E p \in Filled(new_slots) : new_slots[p] = slots[j]
  BY <1>1 DEF MapInv, TableInv, TypeOK, Sound, MovedExactly, Rehashing
<1>3. Stored(new_slots) = Stored(slots)
  BY <1>1, <1>2, AllMoved, StoredSame
<1>4. Contents' = Stored(new_slots)
  BY <1>1 DEF Contents, Stored, Filled, InState
<1> QED BY <1>1, <1>3, <1>4 DEF Contents

(* Every step is one step of the map, or none.                             *)
LEMMA NextRefines ==
  ASSUME NoKey \notin Keys, MapInv, [Next]_vars
  PROVE  Abstract!Next \/ UNCHANGED <<Contents, call, ret>>
<1>1. CASE \E c \in Call : Begin(c)
  BY <1>1, BeginRefines DEF Abstract!Next
<1>2. CASE Clear
  BY <1>2, ClearRefines, AbstractNames DEF Abstract!Next, Abstract!Do
<1>3. CASE StartOnEmpty
  BY <1>3, StartOnEmptyRefines, AbstractNames DEF Abstract!Next, Abstract!Do
<1>4. CASE \/ StartWithFind \/ StartWithGrow \/ GrowNotNeeded \/ GrowBegin
           \/ RehashSkip \/ RehashFind \/ FindNext \/ UNCHANGED vars
  <2>1. UNCHANGED <<slots, call, ret>>
    BY <1>4 DEF StartWithFind, StartWithGrow, GrowNotNeeded, GrowBegin, RehashSkip, RehashFind,
                FindNext, vars
  <2> QED BY <2>1 DEF Contents, Stored, Filled, InState
<1>5. CASE RehashEnd
  BY <1>5, RehashEndRefines
<1>6. CASE FindMatch \/ FindEmpty
  <2>1. PICK p \in 1..Len(ProbedTable) : FoundAt(p) /\ Located(ProbedTable, ProbedKey, p)
    BY <1>6, FindLocates
  <2>2. Finding
    BY <1>6, FindLocates
  <2>3. CASE pc = "rehash_find"
    <3>1. UNCHANGED <<slots, call, ret>>
      BY <2>1, <2>3 DEF FoundAt, RehashPlace
    <3> QED BY <3>1 DEF Contents, Stored, Filled, InState
  <2>4. CASE pc = "find_new"
    <3>1. InsertAt(p) /\ p \in 1..Len(slots) /\ Located(slots, call.key, p)
      BY <2>1, <2>4 DEF FoundAt, ProbedTable, ProbedKey
    <3> QED BY <2>4, <3>1, InsertRefines, AbstractNames DEF Abstract!Next, Abstract!Do
  <2>5. CASE pc = "find"
    <3>1. /\ GetAt(p) \/ ContainsAt(p) \/ EraseAt(p) \/ GetRefAt(p)
          /\ p \in 1..Len(slots) /\ Located(slots, call.key, p)
      BY <2>1, <2>5 DEF FoundAt, ProbedTable, ProbedKey
    <3>2. \/ (Abstract!Get \/ Abstract!Contains \/ Abstract!Erase \/ Abstract!Put) /\ call' = Idle
          \/ UNCHANGED <<Contents, call, ret>>
      BY <2>5, <3>1, LookupRefines
    <3> QED BY <3>2, AbstractNames DEF Abstract!Next, Abstract!Do
  <2> QED BY <2>2, <2>3, <2>4, <2>5 DEF Finding
<1> QED BY <1>1, <1>2, <1>3, <1>4, <1>5, <1>6 DEF Next, Step

(* The hash table implements a finite map: every call of get, contains,    *)
(* insert, get_ref, erase and clear has the effect and the result of the   *)
(* map operation, and the probes, tombstones and rehashes are not seen.    *)
THEOREM Refinement ==
  ASSUME NoKey \notin Keys
  PROVE  Spec => ImplementsFiniteMap
<1>1. Init => Abstract!Init
  <2>1. Filled(<<>>) = {}
    BY EmptySound
  <2>2. Stored(<<>>) = <<>>
    BY <2>1, StoredNone
  <2> QED BY <2>2, AbstractNames DEF Init, Abstract!Init, Contents
<1>2. MapInv /\ [Next]_vars => [Abstract!Next]_(Abstract!vars)
  <2> SUFFICES ASSUME MapInv, [Next]_vars
               PROVE  Abstract!Next \/ UNCHANGED <<Contents, call, ret>>
    BY DEF Abstract!vars
  <2> QED BY NextRefines
<1> QED BY <1>1, <1>2, MapInvariant, PTL DEF Spec, ImplementsFiniteMap, Abstract!Spec

(* contains() answers with the truth whenever Key{} is not among the keys: *)
(* the defect that it has for a map with nil among its keys is due to that *)
(* key alone.                                                              *)
THEOREM ContainsIsRight ==
  ASSUME NoKey \notin Keys
  PROVE  Spec => ContainsTellsTruth
<1>1. MapInv /\ [Next]_vars =>
        [pc = "find" /\ call.op = "contains" /\ pc' = "idle"
           => ret' = (call.key \in DOMAIN Contents)]_vars
  <2> SUFFICES ASSUME MapInv, Next, pc = "find", call.op = "contains", pc' = "idle"
               PROVE  ret' = (call.key \in DOMAIN Contents)
    OBVIOUS
  <2>1. FindMatch \/ FindEmpty
    BY DEF Next, Step, Begin, Clear, StartOnEmpty, StartWithFind, StartWithGrow, GrowNotNeeded,
           GrowBegin, RehashSkip, RehashFind, RehashEnd, FindNext
  <2>2. PICK p \in 1..Len(ProbedTable) : FoundAt(p) /\ Located(ProbedTable, ProbedKey, p)
    BY <2>1, FindLocates
  <2>3. p \in 1..Len(slots) /\ Located(slots, call.key, p) /\ ContainsAt(p)
    BY <2>2 DEF FoundAt, ProbedTable, ProbedKey, GetAt, EraseAt, GetRefAt
  <2>4. ret' = (slots[p].state = "FILLED")
    BY <2>3 DEF ContainsAt, Return
  <2>5. call.key \in DOMAIN Contents <=> slots[p].state = "FILLED"
    <3>1. slots \in Seq(Slot) /\ Reachable(slots)
      BY DEF MapInv, TableInv, TypeOK, Sound
    <3> QED BY <2>3, <3>1, HasKey DEF Contents
  <2>6. (slots[p].state = "FILLED") = (call.key \in DOMAIN Contents)
    BY <2>5
  <2> QED BY <2>4, <2>6
<1> QED BY <1>1, MapInvariant, PTL DEF Spec, ContainsTellsTruth
=============================================================================
