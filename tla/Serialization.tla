---------------------------- MODULE Serialization ----------------------------
(***************************************************************************)
(* Compiled programs as data (serializer.cpp, deserializer.cpp): what the  *)
(* compiler has made of a program becomes three blocks, the chunks, the    *)
(* table of globals and the strings, and is rebuilt from them in another   *)
(* process.                                                                *)
(*                                                                         *)
(* A chunk is a record, not its bytes; a string is found by its offset in  *)
(* the block of strings, as in the program.  Line numbers are left out;    *)
(* the notes of where statements begin travel with the code, so that the   *)
(* properties can be stated of the loaded program too.                     *)
(***************************************************************************)
EXTENDS Compiler, Deserializer

-----------------------------------------------------------------------------
(* Writing.  The serializer w: the strings so far, the chunks by id + 1.   *)

BlockSize(strings) == StringOffset(strings, Len(strings) + 1)

serialize_string(w, s) ==
  IF Contains(w.strings, s) THEN w ELSE [w EXCEPT !.strings = Append(@, s)]
OffsetOf(w, s) == StringOffset(w.strings, SelectInSeq(w.strings, LAMBDA t : t = s))

RECURSIVE serialize_function(_, _, _), write_constant_pool(_, _, _, _)

write_chunk_header(w, f, id) ==
  [type |-> "F", name |-> OffsetOf(w, f.name), arity |-> f.arity % Radix,
   upvalue_count |-> Len(f.upvalues), id |-> id, code |-> f.code, statements |-> f.statements]

(* The constants from the n-th on, into the chunk of this id.  Functions   *)
(* are written where they are met, and get their ids then.                 *)
write_constant_pool(w, functions, f, id) ==
  LET n == Len(w.chunks[id + 1].constants) + 1
      v == f.constants[n]
      sub == serialize_function(w, functions, v.v)
      str == serialize_string(w, v.v)
      Put(x, c) == [x EXCEPT !.chunks[id + 1].constants = Append(@, c)]
  IN IF n > Len(f.constants) THEN w
     ELSE IF v.t = "fn"
       THEN write_constant_pool(Put(sub, [type |-> "F", data |-> Len(w.chunks)]), functions, f, id)
     ELSE IF v.t = "str"
       THEN write_constant_pool(Put(str, [type |-> "S", data |-> OffsetOf(str, v.v)]), functions, f, id)
     ELSE write_constant_pool(Put(w, [type |-> "I", data |-> v.v]), functions, f, id)

(* The n-th of the functions.  The id is taken before the constants are    *)
(* written, so the function comes before those in it.                      *)
serialize_function(w, functions, n) ==
  LET f == functions[n]
      id == Len(w.chunks)
      s == serialize_string(w, f.name)
      header == write_chunk_header(s, f, id) @@ [constants |-> <<>>]
  IN write_constant_pool([s EXCEPT !.chunks = Append(@, header)], functions, f, id)

serialize_symbol_table(w, unit) ==
  LET s == FoldLeft(LAMBDA x, s : serialize_string(x, s), w, unit.globals)
  IN [strings |-> s.strings, chunks |-> s.chunks,
      globals |-> [i \in DOMAIN unit.globals |->
                     [name |-> OffsetOf(s, unit.globals[i]),
                      is_const |-> unit.globals[i] \in unit.consts]]]

(* Mutant: the chunks in the order of their ids.                           *)
ChunkOrderAsWritten(chunks) == chunks
ChunkOrder(chunks) == Reverse(chunks)

serialize_program(unit) ==
  LET w == serialize_function([strings |-> <<>>, chunks |-> <<>>], unit.functions, Len(unit.functions))
      g == serialize_symbol_table(w, unit)
  IN [bytecode |-> ChunkOrder(g.chunks), globals |-> g.globals,
      strings |-> g.strings, string_block_size |-> BlockSize(g.strings)]

-----------------------------------------------------------------------------
(* Reading, with what the blocks refer to from Deserializer *)

(* One chunk after the other; d has the functions and their ids.           *)
deserialize_chunk(d, chunk, strings) ==
  IF ~d.ok \/ chunk.name \notin DOMAIN strings \/ ~PoolOk(chunk.constants, d.ids, strings)
       \/ chunk.id \in DOMAIN d.ids
    THEN [d EXCEPT !.ok = FALSE]
    ELSE [d EXCEPT !.ids = (chunk.id :> (Len(d.functions) + 1)) @@ @,
                   !.functions =
                      Append(@, [name |-> strings[chunk.name], arity |-> chunk.arity, code |-> chunk.code,
                                 constants |-> deserialize_constant_pool(chunk.constants, d.ids, strings),
                                 upvalues |-> [i \in 1..chunk.upvalue_count |-> i],
                                 statements |-> chunk.statements])]

deserialize_chunks(chunks, strings) ==
  FoldLeft(LAMBDA d, chunk : deserialize_chunk(d, chunk, strings),
           [ok |-> TRUE, ids |-> NoNames, functions |-> <<>>], chunks)

(* The function with id 0 is the script, the last chunk of the file.       *)
deserialize_program(file) ==
  LET strings == deserialize_strings(file.strings)
      table == deserialize_global_table(file.globals, strings)
      d == deserialize_chunks(file.bytecode, strings)
      ok == TableOk(file.globals, strings) /\ d.ok /\ 0 \in DOMAIN d.ids
  IN IF ~ok THEN [NoUnit EXCEPT !.errors = {"load"}]
     ELSE [functions |-> d.functions, script |-> d.ids[0], globals |-> table.names,
           consts |-> table.consts, errors |-> {}]

(* register_native_functions(): input() is found or made.                  *)
register_native_functions(unit) == identifier(unit, "input")
=============================================================================
