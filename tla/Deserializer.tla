----------------------------- MODULE Deserializer -----------------------------
(***************************************************************************)
(* The blocks of a compiled program as the deserializer reads them         *)
(* (deserializer.cpp): what the offsets, the table of globals and the      *)
(* constants of a chunk refer to, and which of them it rejects.  Both the  *)
(* round trip of Serialization and the process of Loader are built on it.  *)
(***************************************************************************)
EXTENDS Integers, Sequences, SequencesExt

(* Mutant: the length that precedes a string is not skipped.               *)
LengthNotSkipped(offset, s) == offset + Len(s)

(* A string is preceded by its length, in 4 bytes.                         *)
NextOffset(offset, s) == offset + 4 + Len(s)

(* The header of the block has 8 bytes.                                    *)
StringOffset(strings, n) ==
  LET offset[k \in 1..(Len(strings) + 1)] ==
        IF k = 1 THEN 8 ELSE NextOffset(offset[k - 1], strings[k - 1])
  IN offset[n]

(* What is at each offset of the block.                                    *)
deserialize_strings(strings) ==
  [o \in {StringOffset(strings, n) : n \in DOMAIN strings} |->
     strings[CHOOSE n \in DOMAIN strings : StringOffset(strings, n) = o]]

(* The names go into the empty Context one by one, and must get the        *)
(* indices that the code uses; a name that comes again gets its old index. *)
deserialize_global_table(table, strings) ==
  [names |-> [i \in DOMAIN table |-> strings[table[i].name]],
   consts |-> {strings[table[i].name] : i \in {j \in DOMAIN table : table[j].is_const}}]
TableOk(table, strings) ==
  /\ \A i \in DOMAIN table : table[i].name \in DOMAIN strings
  /\ \A i, j \in DOMAIN table : strings[table[i].name] = strings[table[j].name] => i = j

(* functions maps the ids read so far to positions among the functions     *)
(* built so far.  A constant must name one of them, or a string.           *)
deserialize_constant_pool(constants, functions, strings) ==
  [i \in DOMAIN constants |->
     CASE constants[i].type = "F" -> [t |-> "fn", v |-> functions[constants[i].data]]
       [] constants[i].type = "S" -> [t |-> "str", v |-> strings[constants[i].data]]
       [] constants[i].type = "I" -> [t |-> "num", v |-> constants[i].data]]
PoolOk(constants, functions, strings) ==
  \A i \in DOMAIN constants :
    /\ constants[i].type = "F" => constants[i].data \in DOMAIN functions
    /\ constants[i].type = "S" => constants[i].data \in DOMAIN strings
=============================================================================
