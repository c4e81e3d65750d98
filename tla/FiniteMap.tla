------------------------------ MODULE FiniteMap ------------------------------
(***************************************************************************)
(* What a hash table promises: the operations that the comment at the head *)
(* of include/hashmap.hpp lists, on a finite map from keys to values.  A   *)
(* caller makes one call at a time.                                        *)
(***************************************************************************)
CONSTANTS Keys, NoKey, Vals, NoVal, NoResult

VARIABLES
  map,      (* a function from the keys that are present to their values    *)
  pending,  (* the call in progress                                         *)
  result    (* what the last call returned                                  *)

vars == <<map, pending, result>>

NoCall == [op |-> "none", key |-> NoKey, value |-> NoVal]
Calls == [op : {"get", "contains", "erase"}, key : Keys, value : {NoVal}]
         \cup [op : {"insert", "get_ref"}, key : Keys, value : Vals]
         \cup [op : {"clear"}, key : {NoKey}, value : {NoVal}]

Has(k) == k \in DOMAIN map
With(k, v) == [j \in DOMAIN map \cup {k} |-> IF j = k THEN v ELSE map[j]]
Without(k) == [j \in DOMAIN map \ {k} |-> map[j]]

Begin == pending = NoCall /\ pending' \in Calls /\ UNCHANGED <<map, result>>

Get == /\ pending.op = "get"
       /\ result' = IF Has(pending.key) THEN map[pending.key] ELSE NoResult
       /\ UNCHANGED map

Contains == /\ pending.op = "contains"
            /\ result' = Has(pending.key)
            /\ UNCHANGED map

Erase == /\ pending.op = "erase"
         /\ result' = Has(pending.key)
         /\ map' = Without(pending.key)

(* insert() says whether the key is new; get_ref() gives the stored value. *)
Put == /\ pending.op \in {"insert", "get_ref"}
       /\ result' = IF pending.op = "insert" THEN ~Has(pending.key) ELSE pending.value
       /\ map' = With(pending.key, pending.value)

Clear == /\ pending.op = "clear"
         /\ result' = TRUE
         /\ map' = <<>>

Do == (Get \/ Contains \/ Erase \/ Put \/ Clear) /\ pending' = NoCall

Init == map = <<>> /\ pending = NoCall /\ result = NoResult
Next == Begin \/ Do
Spec == Init /\ [][Next]_vars
=============================================================================
