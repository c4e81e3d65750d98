------------------------------- MODULE HashMap -------------------------------
(***************************************************************************)
(* The open-addressing hash table of include/hashmap.hpp, on which every   *)
(* table of the interpreter is built: the intern pool, the globals, the    *)
(* methods and fields of classes and instances, and the maps of the        *)
(* language.                                                               *)
(*                                                                         *)
(* The two loops of the code that could go wrong are modelled iteration by *)
(* iteration: the probe of find_slot, which is a while (true), and the     *)
(* rehash of grow.  A vector of slots is a sequence, so the vector's index *)
(* i is position i + 1 here.                                               *)
(***************************************************************************)
EXTENDS Integers, Sequences, FiniteSets

CONSTANTS
  Keys,            (* the keys the callers use                              *)
  NoKey,           (* Key{}, what a fresh or erased slot holds as its key   *)
  Vals,            (* the values the callers store                          *)
  NoVal,           (* Value{}                                               *)
  NoResult,        (* std::nullopt                                          *)
  Hash,            (* hasher_: a natural number for every key               *)
  MIN_TABLE_SIZE,  (* the first capacity (128 in the code)                  *)
  MaxCapacity      (* bound: no call that would grow the table beyond it    *)

AllKeys == Keys \cup {NoKey}
AllVals == Vals \cup {NoVal}

ASSUME HashAssumption == Hash \in [AllKeys -> Nat]
ASSUME SizeAssumption == /\ MIN_TABLE_SIZE \in Nat /\ MIN_TABLE_SIZE >= 2
                         /\ MaxCapacity \in Nat

VARIABLES
  slots,        (* the vector of slots                                      *)
  size_,        (* number of keys, as the code counts them                  *)
  tombstones_,  (* number of tombstones, as the code counts them            *)
  pc,           (* where the call in progress stands                        *)
  call,         (* the call in progress                                     *)
  new_slots,    (* grow: the vector the keys are being moved to             *)
  i,            (* grow: position of the next slot to move                  *)
  index,        (* find_slot: position under the probe                      *)
  tombstone,    (* find_slot: the tombstone remembered, 0 for nullptr       *)
  ret           (* what the last call returned                              *)

vars == <<slots, size_, tombstones_, pc, call, new_slots, i, index, tombstone, ret>>
probe == <<index, tombstone>>
rehash == <<new_slots, i>>

-----------------------------------------------------------------------------
(* Slots and their states.                                                 *)

State == {"FILLED", "EMPTY", "TOMBSTONE"}
Slot == [key : AllKeys, value : AllVals, state : State]

EmptySlot == [key |-> NoKey, value |-> NoVal, state |-> "EMPTY"]
TombSlot == [key |-> NoKey, value |-> NoVal, state |-> "TOMBSTONE"]
FilledSlot(k, v) == [key |-> k, value |-> v, state |-> "FILLED"]

InState(t, s) == {j \in 1..Len(t) : t[j].state = s}
Filled(t) == InState(t, "FILLED")
Tombs(t) == InState(t, "TOMBSTONE")
Empties(t) == InState(t, "EMPTY")

(* The number of slots that may be in use: 65% of the capacity.            *)
Limit(capacity) == (capacity * 13) \div 20

(* The capacity grow() moves to: twice the present one.                    *)
NewCapacity(capacity) == IF 2 * capacity > MIN_TABLE_SIZE THEN 2 * capacity
                                                         ELSE MIN_TABLE_SIZE

(* Mutant: a load factor that does not count the tombstones.               *)
NeedsGrowthByKeys == size_ + 1 > Limit(Len(slots))

NeedsGrowth == size_ + 1 + tombstones_ > Limit(Len(slots))

(* Mutant: the probe does not wrap around at the end of the vector.        *)
AfterNoWrap(t, p) == p + 1

(* The first position of a key's probe sequence, and the one after p.      *)
Home(t, k) == (Hash[k] % Len(t)) + 1
After(t, p) == IF p = Len(t) THEN 1 ELSE p + 1

-----------------------------------------------------------------------------
(* The calls.  "get_ref" is what its callers write, get_ref(key) = value.   *)

Idle == [op |-> "none", key |-> NoKey, value |-> NoVal]
Call == [op : {"get", "contains", "erase"}, key : Keys, value : {NoVal}]
        \cup [op : {"insert", "get_ref"}, key : Keys, value : Vals]
        \cup [op : {"clear"}, key : {NoKey}, value : {NoVal}]

(* A caller makes a call.                                                  *)
Begin(c) ==
  /\ pc = "idle"
  /\ c.op \in {"insert", "get_ref"} /\ NeedsGrowth =>
        NewCapacity(Len(slots)) <= MaxCapacity
  /\ call' = c
  /\ pc' = "start"
  /\ UNCHANGED <<slots, size_, tombstones_, rehash, probe, ret>>

Return(r) ==
  /\ ret' = r
  /\ call' = Idle
  /\ pc' = "idle"

(* The locals of find_slot() come and go with it.                           *)
StartFind(t, k) == index' = Home(t, k) /\ tombstone' = 0
EndFind == index' = 0 /\ tombstone' = 0

(* clear() empties the vector.                                             *)
Clear ==
  /\ pc = "start" /\ call.op = "clear"
  /\ slots' = <<>> /\ size_' = 0 /\ tombstones_' = 0
  /\ Return(TRUE)
  /\ UNCHANGED <<rehash, probe>>

(* get(), contains() and erase() on an empty table look at no slot.        *)
StartOnEmpty ==
  /\ pc = "start" /\ size_ = 0
  /\ call.op \in {"get", "contains", "erase"}
  /\ Return(IF call.op = "get" THEN NoResult ELSE FALSE)
  /\ UNCHANGED <<slots, size_, tombstones_, rehash, probe>>

(* The other calls begin with a probe of the present table.                *)
StartWithFind ==
  /\ pc = "start" /\ size_ # 0
  /\ call.op \in {"get", "contains", "erase", "get_ref"}
  /\ pc' = "find"
  /\ StartFind(slots, call.key)
  /\ UNCHANGED <<slots, size_, tombstones_, call, rehash, ret>>

(* insert(), and get_ref() on an empty table, begin with grow().           *)
StartWithGrow ==
  /\ pc = "start"
  /\ call.op = "insert" \/ (call.op = "get_ref" /\ size_ = 0)
  /\ pc' = "grow"
  /\ UNCHANGED <<slots, size_, tombstones_, call, rehash, probe, ret>>

-----------------------------------------------------------------------------
(* grow() *)

GrowNotNeeded ==
  /\ pc = "grow" /\ ~NeedsGrowth
  /\ pc' = "find_new"
  /\ StartFind(slots, call.key)
  /\ UNCHANGED <<slots, size_, tombstones_, call, rehash, ret>>

GrowBegin ==
  /\ pc = "grow" /\ NeedsGrowth
  /\ new_slots' = [j \in 1..NewCapacity(Len(slots)) |-> EmptySlot]
  /\ i' = 1
  /\ pc' = "rehash"
  /\ UNCHANGED <<slots, size_, tombstones_, call, probe, ret>>

(* One iteration of the rehash loop: a slot that is not FILLED is left     *)
(* behind, a FILLED one is looked up in the new vector.                    *)
RehashSkip ==
  /\ pc = "rehash" /\ i <= Len(slots) /\ slots[i].state # "FILLED"
  /\ i' = i + 1
  /\ UNCHANGED <<slots, size_, tombstones_, pc, call, new_slots, probe, ret>>

RehashFind ==
  /\ pc = "rehash" /\ i <= Len(slots) /\ slots[i].state = "FILLED"
  /\ pc' = "rehash_find"
  /\ StartFind(new_slots, slots[i].key)
  /\ UNCHANGED <<slots, size_, tombstones_, call, rehash, ret>>

RehashPlace(p) ==
  /\ new_slots' = [new_slots EXCEPT ![p] = slots[i]]
  /\ i' = i + 1
  /\ pc' = "rehash"
  /\ UNCHANGED <<slots, size_, tombstones_, call, ret>>

RehashEnd ==
  /\ pc = "rehash" /\ i > Len(slots)
  /\ slots' = new_slots
  /\ tombstones_' = 0
  /\ new_slots' = <<>> /\ i' = 0
  /\ pc' = "find_new"
  /\ StartFind(new_slots, call.key)
  /\ UNCHANGED <<size_, call, ret>>

-----------------------------------------------------------------------------
(* What each call does with the slot p that find_slot returned.            *)

GetAt(p) ==
  /\ call.op = "get"
  /\ Return(IF slots[p].state = "FILLED" THEN slots[p].value ELSE NoResult)
  /\ UNCHANGED <<slots, size_, tombstones_>>

ContainsAt(p) ==
  /\ call.op = "contains"
  /\ Return(slots[p].state = "FILLED")
  /\ UNCHANGED <<slots, size_, tombstones_>>

(* Mutant: the erased slot becomes EMPTY, not a tombstone.                 *)
EraseAtNoTombstone(p) ==
  /\ call.op = "erase"
  /\ slots[p].state = "FILLED"
  /\ slots' = [slots EXCEPT ![p] = EmptySlot]
  /\ size_' = size_ - 1
  /\ Return(TRUE)
  /\ UNCHANGED tombstones_

EraseAt(p) ==
  /\ call.op = "erase"
  /\ IF slots[p].state = "FILLED"
       THEN /\ slots' = [slots EXCEPT ![p] = TombSlot]
            /\ tombstones_' = tombstones_ + 1
            /\ size_' = size_ - 1
            /\ Return(TRUE)
       ELSE /\ Return(FALSE)
            /\ UNCHANGED <<slots, size_, tombstones_>>

(* Mutant: a reused tombstone is still counted.                            *)
InsertAtKeepTombstones(p) ==
  /\ slots' = [slots EXCEPT ![p] = FilledSlot(call.key, call.value)]
  /\ size_' = IF slots[p].state = "FILLED" THEN size_ ELSE size_ + 1
  /\ Return(IF call.op = "insert" THEN slots[p].state # "FILLED" ELSE call.value)
  /\ UNCHANGED tombstones_

(* insert() and insert_slot(): the tail that follows their find_slot.      *)
InsertAt(p) ==
  /\ slots' = [slots EXCEPT ![p] = IF @.state = "FILLED"
                                     THEN [@ EXCEPT !.value = call.value]
                                     ELSE FilledSlot(call.key, call.value)]
  /\ size_' = IF slots[p].state = "FILLED" THEN size_ ELSE size_ + 1
  /\ tombstones_' = IF slots[p].state = "TOMBSTONE" THEN tombstones_ - 1
                                                    ELSE tombstones_
  /\ Return(IF call.op = "insert" THEN slots[p].state # "FILLED" ELSE call.value)

(* get_ref() of a key that is there; of one that is not, it calls          *)
(* insert_slot(), which grows the table and probes it again.               *)
GetRefAt(p) ==
  /\ call.op = "get_ref"
  /\ IF slots[p].state = "FILLED"
       THEN /\ slots' = [slots EXCEPT ![p].value = call.value]
            /\ Return(call.value)
            /\ UNCHANGED <<size_, tombstones_>>
       ELSE /\ pc' = "grow"
            /\ UNCHANGED <<slots, size_, tombstones_, call, ret>>

(* find_slot() returns position p to the code that called it.              *)
FoundAt(p) ==
  /\ EndFind
  /\ \/ pc = "rehash_find" /\ RehashPlace(p)
     \/ pc = "find_new" /\ InsertAt(p) /\ UNCHANGED rehash
     \/ /\ pc = "find" /\ UNCHANGED rehash
        /\ GetAt(p) \/ ContainsAt(p) \/ EraseAt(p) \/ GetRefAt(p)

-----------------------------------------------------------------------------
(* find_slot(): one iteration of its loop over table t for key k.          *)

Finding == pc \in {"find", "find_new", "rehash_find"}
ProbedTable == IF pc = "rehash_find" THEN new_slots ELSE slots
ProbedKey == IF pc = "rehash_find" THEN slots[i].key ELSE call.key

(* Mutant: the probe ends at the first tombstone.                          *)
KeyMatchesOrTombstone(t, k) == t[index].key = k \/ t[index].state = "TOMBSTONE"

KeyMatches(t, k) == t[index].key = k

FindMatch ==
  /\ Finding
  /\ KeyMatches(ProbedTable, ProbedKey)
  /\ FoundAt(index)

FindEmpty ==
  /\ Finding
  /\ ~KeyMatches(ProbedTable, ProbedKey)
  /\ ProbedTable[index].state = "EMPTY"
  /\ FoundAt(IF tombstone # 0 THEN tombstone ELSE index)

FindNext ==
  /\ Finding
  /\ ~KeyMatches(ProbedTable, ProbedKey)
  /\ ProbedTable[index].state # "EMPTY"
  /\ tombstone' = IF ProbedTable[index].state = "TOMBSTONE" THEN index ELSE tombstone
  /\ index' = After(ProbedTable, index)
  /\ UNCHANGED <<slots, size_, tombstones_, pc, call, rehash, ret>>

-----------------------------------------------------------------------------
Init ==
  /\ slots = <<>> /\ size_ = 0 /\ tombstones_ = 0
  /\ pc = "idle" /\ call = Idle
  /\ new_slots = <<>> /\ i = 0
  /\ index = 0 /\ tombstone = 0
  /\ ret = NoResult

Step ==
  \/ Clear \/ StartOnEmpty \/ StartWithFind \/ StartWithGrow
  \/ GrowNotNeeded \/ GrowBegin \/ RehashSkip \/ RehashFind \/ RehashEnd
  \/ FindMatch \/ FindEmpty \/ FindNext

Next == (\E c \in Call : Begin(c)) \/ Step

Spec == Init /\ [][Next]_vars

(* A call that has begun is not suspended: the interpreter has one thread. *)
FairSpec == Spec /\ WF_vars(Step)

-----------------------------------------------------------------------------
(* Properties *)

(* Type invariant of the table and of the call in progress.                *)
TypeOK ==
  /\ slots \in Seq(Slot) /\ new_slots \in Seq(Slot)
  /\ size_ \in Nat /\ tombstones_ \in Nat
  /\ pc \in {"idle", "start", "grow", "rehash", "rehash_find", "find", "find_new"}
  /\ call \in Call \cup {Idle}
  /\ i \in Nat /\ index \in Nat /\ tombstone \in Nat
  /\ Finding => index \in 1..Len(ProbedTable) /\ tombstone \in 0..Len(ProbedTable)

(* find_slot's while (true) can only end at a slot that is EMPTY or holds  *)
(* the key.  Whatever was inserted and erased before, and at every moment  *)
(* of a rehash, the table it walks has an EMPTY slot: the load limit that  *)
(* grow() enforces counts the tombstones too.                              *)
ProbeEnds == Finding => Empties(ProbedTable) # {}

(* The inductive invariant behind ProbeEnds.  It bounds the slots in use   *)
(* by the counters, and the counters by the load limit; in the middle of a *)
(* rehash it counts the slots already moved and those still to be moved.   *)
(* It says nothing of which keys the slots hold, so it also covers keys    *)
(* that equal Key{}.                                                       *)
CountersBounded ==
  /\ Cardinality(Filled(slots)) <= size_
  /\ Cardinality(Tombs(slots)) <= tombstones_
  /\ size_ + tombstones_ <= Limit(Len(slots))
  /\ Len(slots) = 0 \/ Len(slots) >= MIN_TABLE_SIZE
  /\ pc = "find" => size_ # 0
  /\ pc = "find_new" => size_ + 1 + tombstones_ <= Limit(Len(slots))

Unmoved == {j \in Filled(slots) : j >= i}

RehashBounded ==
  /\ pc \in {"rehash", "rehash_find"} =>
        /\ Len(new_slots) = NewCapacity(Len(slots))
        /\ Tombs(new_slots) = {}
        /\ i \in 1..(Len(slots) + 1)
        /\ Cardinality(Filled(new_slots)) + Cardinality(Unmoved) <= size_
  /\ pc = "rehash_find" => i \in Filled(slots)

TombstoneRemembered ==
  Finding /\ tombstone # 0 => tombstone \in Tombs(ProbedTable)

TableInv == TypeOK /\ CountersBounded /\ RehashBounded /\ TombstoneRemembered

(* size_ and tombstones_ are the numbers of FILLED and TOMBSTONE slots     *)
(* (size() is what the language's len() of a map returns).                 *)
CountsExact ==
  /\ size_ = Cardinality(Filled(slots))
  /\ pc \notin {"rehash", "rehash_find"} => tombstones_ = Cardinality(Tombs(slots))

(* The positions a probe for key k passes before it reaches q.             *)
ProbePath(t, k, q) ==
  LET h == Home(t, k)
  IN {p \in 1..Len(t) : IF h <= q THEN h <= p /\ p < q ELSE h <= p \/ p < q}

Reachable(t) ==
  \A q \in Filled(t) : \A p \in 1..Len(t) :
    /\ p \in ProbePath(t, t[q].key, q) => t[p].state # "EMPTY"
    /\ p # q /\ p \in Filled(t) => t[p].key # t[q].key

(* Every stored key can be found again: no probe for it meets an EMPTY     *)
(* slot, or a second slot with the same key, before its own slot.  erase() *)
(* must leave a tombstone, and insert() must not stop at the first one.    *)
KeysReachable == Reachable(slots) /\ Reachable(new_slots)

(* Every call returns.                                                     *)
CallsReturn == [](pc # "idle" => <>(pc = "idle"))

(* The finite map the table stands for.                                    *)
Stored(t) ==
  [k \in {t[p].key : p \in Filled(t)} |-> t[CHOOSE p \in Filled(t) : t[p].key = k].value]
Contents == Stored(slots)

Abstract == INSTANCE FiniteMap WITH map <- Contents, pending <- call, result <- ret

(* The table implements a finite map: each call takes effect on the        *)
(* contents at once and returns what the map operation returns, and a      *)
(* rehash in the middle of a call is invisible.                            *)
ImplementsFiniteMap == Abstract!Spec

(* contains() tells whether the key is in the table, whatever the keys are *)
(* (for the maps of the language they may be nil, which is Key{}).         *)
ContainsTellsTruth ==
  [][pc = "find" /\ call.op = "contains" /\ pc' = "idle"
       => ret' = (call.key \in DOMAIN Contents)]_vars

-----------------------------------------------------------------------------
(* The inductive invariant behind the exact counts, KeysReachable and the  *)
(* finite map, for callers that never use Key{} as a key.                  *)

(* A key that is not Key{} stands in FILLED slots only.                    *)
Keyed(t) == \A p \in 1..Len(t) : /\ t[p].state = "FILLED" => t[p].key \in Keys
                                 /\ t[p].state # "FILLED" => t[p].key = NoKey

Sound(t) == Keyed(t) /\ Reachable(t)

Rehashing == pc \in {"rehash", "rehash_find"}
Moved == Filled(slots) \ Unmoved

(* The counters are exact; during a rehash, so are the keys moved and to   *)
(* be moved.                                                               *)
CountsInv ==
  /\ size_ = Cardinality(Filled(slots)) /\ tombstones_ = Cardinality(Tombs(slots))
  /\ Rehashing => Cardinality(Filled(new_slots)) + Cardinality(Unmoved) = size_

(* The new vector has what has been moved, and is there for a rehash only. *)
MovedExactly ==
  IF Rehashing
    THEN /\ \A p \in Filled(new_slots) : \E j \in Moved : new_slots[p] = slots[j]
         /\ \A j \in Moved : \E p \in Filled(new_slots) : new_slots[p] = slots[j]
    ELSE new_slots = <<>>

(* The slots that a probe has passed are in use by other keys; the         *)
(* tombstone it remembers is one of them.                                  *)
PassedOver ==
  Finding =>
    LET passed == ProbePath(ProbedTable, ProbedKey, index)
    IN /\ ProbedKey \in Keys
       /\ \A p \in passed : ProbedTable[p].state # "EMPTY" /\ ProbedTable[p].key # ProbedKey
       /\ tombstone # 0 => tombstone \in passed

CallFits ==
  /\ IF pc = "idle" THEN call = Idle ELSE call \in Call
  /\ pc \in {"grow", "rehash", "rehash_find", "find_new"} => call.op \in {"insert", "get_ref"}
  /\ pc = "find" => call.op \in {"get", "contains", "erase", "get_ref"}

MapInv ==
  /\ TableInv /\ Sound(slots) /\ Sound(new_slots)
  /\ CountsInv /\ MovedExactly /\ PassedOver /\ CallFits
=============================================================================
